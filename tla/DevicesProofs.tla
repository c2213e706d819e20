--------------------------- MODULE DevicesProofs ----------------------------
(* Theorems about the speed meter, for every size of its ring and window and *)
(* any number of lines and sessions, about the commands through an ESU       *)
(* LokProgrammer, for lists of any length and any number of clicks and       *)
(* refusals, about the table of CAN detectors, for any ports and trains, and *)
(* about all of them in Devices.                                             *)
EXTENDS Devices, SequenceTheorems, FiniteSetTheorems, TLAPS

-----------------------------------------------------------------------------
(* Places in the ring.                                                       *)

\* Counting within one turn.
LEMMA OneTurn ==
    ASSUME NEW n \in Nat \ {0}, NEW a \in Nat, a < 2 * n
    PROVE  a % n = IF a < n THEN a ELSE a - n
  OBVIOUS

\* The place k samples back.
Place(k) == IF currentSample >= k THEN currentSample - k ELSE currentSample - k + Size

Samples == Meter!Smallest(Len(measured), Size)

\* What is inductive: the ring holds the last samples of the session, as many
\* as fit, the latest one at currentSample, whatever it held before.
RingInv ==
    /\ measured \in Seq(Nat)
    /\ sampleCount = Samples
    /\ \A k \in 0 .. (Size - 1) : k < Len(measured) => samples[Place(k)] = measured[Len(measured) - k]

\* The timer of a session runs until the first line; afterwards it is none of ours.
TimerInv == sampleCount > 0 => connectTimeoutId = Meter!NoTimer

CountInv == meterLine \in 0 .. MaxLines /\ sessions \in 0 .. MaxSessions

SpeedInv == Meter!TypeOK /\ CountInv /\ RingInv /\ TimerInv /\ (~meterOpen => measured = <<>>)

-----------------------------------------------------------------------------
(* The steps.                                                                *)

\* A session ends: the ring counts from nothing again.
LEMMA CloseStep ==
    ASSUME Meter!SpeedCatAssumption, SpeedInv, Meter!Close, UNCHANGED <<currentSample, samples, meterLine>>,
           sessions' \in 0 .. MaxSessions, connectTimeoutId' \in 0 .. MaxSessions,
           timers' \subseteq 1 .. MaxSessions
    PROVE  SpeedInv'
  <1>1. measured' \in Seq(Nat) /\ Len(measured') = 0  BY EmptySeq DEF Meter!Close
  <1>2. Size \in Nat /\ Size > 0  BY DEF Meter!SpeedCatAssumption
  <1>3. sampleCount' = Samples'  BY <1>1, <1>2 DEF Meter!Close, Samples, Meter!Smallest
  <1>4. RingInv'  BY <1>1, <1>2, <1>3 DEF RingInv
  <1>5. CountInv'  BY DEF SpeedInv, CountInv
  <1>6. Meter!TypeOK'
    <2>1. meterOpen' \in BOOLEAN  BY DEF Meter!Close
    <2>3. sampleCount' \in 0 .. Size  BY <1>2 DEF Meter!Close
    <2>2. currentSample' \in 0 .. (Size - 1) /\ samples' \in [0 .. (Size - 1) -> 0 .. MaxLines]
      BY DEF SpeedInv, Meter!TypeOK
    <2> QED  BY <2>1, <2>2, <2>3 DEF Meter!TypeOK
  <1> QED  BY <1>3, <1>4, <1>5, <1>6 DEF SpeedInv, TimerInv, Meter!Close

\* A sample takes the next place of the ring; the others move one back.
LEMMA SampleStep ==
    ASSUME Meter!SpeedCatAssumption, SpeedInv, NEW x \in 0 .. MaxLines, Meter!AddMeasurement(x)
    PROVE  /\ RingInv' /\ sampleCount' \in 0 .. Size /\ currentSample' \in 0 .. (Size - 1)
           /\ samples' \in [0 .. (Size - 1) -> 0 .. MaxLines]
  <1>1. /\ Size \in Nat \ {0} /\ MaxLines \in Nat
        /\ currentSample \in 0 .. (Size - 1) /\ sampleCount \in 0 .. Size
        /\ measured \in Seq(Nat) /\ Len(measured) \in Nat
        /\ samples \in [0 .. (Size - 1) -> 0 .. MaxLines]
    BY LenProperties DEF Meter!SpeedCatAssumption, SpeedInv, Meter!TypeOK, RingInv
  <1>2. sampleCount = (IF Len(measured) < Size THEN Len(measured) ELSE Size)
    BY DEF SpeedInv, RingInv, Samples, Meter!Smallest
  <1>3. currentSample' = (IF sampleCount = 0 THEN currentSample
                          ELSE IF currentSample + 1 < Size THEN currentSample + 1 ELSE 0)
    <2>1. currentSample + 1 \in Nat /\ currentSample + 1 < 2 * Size  BY <1>1
    <2>2. (currentSample + 1) % Size = IF currentSample + 1 < Size THEN currentSample + 1
                                       ELSE currentSample + 1 - Size
      <3>1. \A a \in Nat : a < 2 * Size => a % Size = IF a < Size THEN a ELSE a - Size
        BY <1>1, OneTurn
      <3>2. PICK a \in Nat : a = currentSample + 1 /\ a < 2 * Size  BY <2>1
      <3>3. a % Size = IF a < Size THEN a ELSE a - Size  BY <3>1, <3>2
      <3> QED  BY <1>1, <3>2, <3>3
    <2>3. currentSample + 1 < Size \/ currentSample + 1 = Size  BY <1>1
    <2> QED  BY <1>1, <2>2, <2>3 DEF Meter!AddMeasurement
  <1>4. currentSample' \in 0 .. (Size - 1)  BY <1>1, <1>3
  <1>5. /\ measured' = Append(measured, x) /\ measured' \in Seq(Nat)
        /\ Len(measured') = Len(measured) + 1 /\ measured'[Len(measured) + 1] = x
        /\ \A i \in 1 .. Len(measured) : measured'[i] = measured[i]
    BY <1>1, AppendProperties DEF Meter!AddMeasurement
  <1>6. sampleCount' = (IF sampleCount < Size THEN sampleCount + 1 ELSE sampleCount)
    BY DEF Meter!AddMeasurement
  <1>7. sampleCount' \in 0 .. Size /\ sampleCount' = Samples'
    BY <1>1, <1>2, <1>5, <1>6 DEF Samples, Meter!Smallest
  <1>8. samples' = [samples EXCEPT ![currentSample'] = x]  BY DEF Meter!AddMeasurement
  <1>9. samples' \in [0 .. (Size - 1) -> 0 .. MaxLines] /\ samples'[currentSample'] = x
        /\ \A i \in 0 .. (Size - 1) : i # currentSample' => samples'[i] = samples[i]
    BY <1>1, <1>4, <1>8
  <1>10. ASSUME NEW k \in 0 .. (Size - 1), k < Len(measured')
         PROVE  samples'[Place(k)'] = measured'[Len(measured') - k]
    <2>1. Place(k)' = (IF currentSample' >= k THEN currentSample' - k ELSE currentSample' - k + Size)
      BY DEF Place
    <2>2. CASE k = 0
      <3>1. PICK c \in Nat : c = currentSample'  BY <1>1, <1>4
      <3>2. c >= k /\ c - k = c
        <4>1. \A a, b \in Int : b = 0 => a - b = a  OBVIOUS
        <4>2. c \in Int /\ k \in Int /\ c >= 0  BY <2>2
        <4> QED  BY <2>2, <4>1, <4>2
      <3>3. Place(k)' = currentSample'  BY <2>1, <3>1, <3>2
      <3> QED  BY <3>3, <2>2, <1>5, <1>9, <1>1
    <2>3. CASE k # 0
      <3>1. k - 1 \in 0 .. (Size - 1) /\ k - 1 < Len(measured) /\ sampleCount > 0
        BY <2>3, <1>1, <1>2, <1>5, <1>10
      <3>2. Place(k)' = Place(k - 1) /\ Place(k)' # currentSample' /\ Place(k)' \in 0 .. (Size - 1)
        BY <2>1, <2>3, <3>1, <1>1, <1>3, <1>4 DEF Place
      <3>3. samples'[Place(k)'] = measured[Len(measured) - (k - 1)]
        BY <3>1, <3>2, <1>9 DEF SpeedInv, RingInv
      <3>4. Len(measured) - (k - 1) \in 1 .. Len(measured)
            /\ Len(measured') - k = Len(measured) - (k - 1)
        BY <3>1, <2>3, <1>1, <1>5
      <3> QED  BY <3>3, <3>4, <1>5
    <2> QED  BY <2>2, <2>3
  <1> QED  BY <1>4, <1>5, <1>7, <1>9, <1>10 DEF RingInv

LEMMA SpeedStep ==
    ASSUME Meter!SpeedCatAssumption, SpeedInv, [Meter!Next]_Meter!vars
    PROVE  SpeedInv'
  <1>1. MaxSessions \in Nat /\ MaxLines \in Nat  BY DEF Meter!SpeedCatAssumption
  <1>2. /\ connectTimeoutId \in 0 .. MaxSessions /\ timers \subseteq 1 .. MaxSessions
        /\ sessions \in 0 .. MaxSessions /\ meterLine \in 0 .. MaxLines
    BY DEF SpeedInv, Meter!TypeOK, CountInv
  <1>3. ~meterOpen => sampleCount = 0
    BY EmptySeq DEF SpeedInv, RingInv, Samples, Meter!Smallest, Meter!SpeedCatAssumption
  <1>4. CASE Meter!ConnectToDevice
    <2>1. sessions' \in 1 .. MaxSessions /\ UNCHANGED <<currentSample, samples, meterLine>>
      BY <1>1, <1>2, <1>4 DEF Meter!ConnectToDevice
    <2>2. CASE Meter!Close /\ UNCHANGED <<connectTimeoutId, timers>>
      BY <1>2, <2>1, <2>2, CloseStep
    <2>3. CASE /\ meterOpen' = TRUE /\ connectTimeoutId' = sessions'
               /\ timers' = timers \union {sessions'} /\ UNCHANGED <<sampleCount, measured>>
      <3>1. Meter!TypeOK' /\ CountInv'  BY <1>2, <2>1, <2>3 DEF SpeedInv, Meter!TypeOK, CountInv
      <3>2. RingInv'  BY <2>1, <2>3 DEF SpeedInv, RingInv, Samples, Place
      <3>3. sampleCount' = 0  BY <1>3, <1>4, <2>3 DEF Meter!ConnectToDevice
      <3> QED  BY <2>3, <3>1, <3>2, <3>3 DEF SpeedInv, TimerInv
    <2> QED  BY <1>4, <2>2, <2>3 DEF Meter!ConnectToDevice
  <1>5. CASE Meter!DisconnectFromDevice
    BY <1>2, <1>5, CloseStep DEF Meter!DisconnectFromDevice
  <1>6. CASE Meter!ReadLine
    <2>1. /\ meterOpen /\ meterOpen' = meterOpen /\ meterLine < MaxLines /\ sessions' = sessions
          /\ connectTimeoutId' = Meter!NoTimer /\ timers' \subseteq 1 .. MaxSessions
      BY <1>2, <1>6 DEF Meter!ReadLine, Meter!CancelConnectTimeout
    <2>2. Meter!NoTimer \in 0 .. MaxSessions  BY <1>1 DEF Meter!NoTimer
    <2>3. CASE meterLine' = meterLine + 1 /\ Meter!AddMeasurement(meterLine')
      <3>1. meterLine' \in 0 .. MaxLines  BY <1>1, <1>2, <2>1, <2>3
      <3>2. /\ RingInv' /\ sampleCount' \in 0 .. Size /\ currentSample' \in 0 .. (Size - 1)
            /\ samples' \in [0 .. (Size - 1) -> 0 .. MaxLines]
        BY <2>3, <3>1, SampleStep
      <3>3. Meter!TypeOK' /\ CountInv'
        BY <1>2, <2>1, <2>2, <3>1, <3>2 DEF SpeedInv, Meter!TypeOK, CountInv
      <3> QED  BY <2>1, <3>2, <3>3 DEF SpeedInv, TimerInv
    <2>4. CASE UNCHANGED <<Meter!ring, meterLine, measured>>
      <3>1. Meter!TypeOK' /\ CountInv'
        BY <1>2, <2>1, <2>2, <2>4 DEF SpeedInv, Meter!TypeOK, CountInv, Meter!ring
      <3>2. RingInv'  BY <2>4 DEF SpeedInv, RingInv, Samples, Place, Meter!ring
      <3> QED  BY <2>1, <3>1, <3>2 DEF SpeedInv, TimerInv
    <2> QED  BY <1>6, <2>3, <2>4 DEF Meter!ReadLine
  <1>7. ASSUME NEW id \in 1 .. MaxSessions, Meter!TimerEvent(id) PROVE SpeedInv'
    <2>1. UNCHANGED <<currentSample, samples, meterLine, sessions>>  BY <1>7 DEF Meter!TimerEvent
    <2>2. CASE id = connectTimeoutId
      <3>1. Meter!Close /\ connectTimeoutId' \in 0 .. MaxSessions /\ timers' \subseteq 1 .. MaxSessions
        <4>1. Meter!CancelConnectTimeout /\ Meter!Close  BY <1>7, <2>2 DEF Meter!TimerEvent
        <4> QED  BY <1>1, <1>2, <4>1 DEF Meter!CancelConnectTimeout, Meter!NoTimer
      <3> QED  BY <1>2, <2>1, <3>1, CloseStep
    <2>3. CASE id # connectTimeoutId
      <3>1. UNCHANGED Meter!vars  BY <1>7, <2>1, <2>3 DEF Meter!TimerEvent, Meter!vars, Meter!ring
      <3> QED
        BY <3>1 DEF Meter!vars, Meter!ring, SpeedInv, Meter!TypeOK, CountInv, RingInv, Samples, Place, TimerInv
    <2> QED  BY <2>2, <2>3
  <1>8. CASE UNCHANGED Meter!vars
    BY <1>8 DEF Meter!vars, Meter!ring, SpeedInv, Meter!TypeOK, CountInv, RingInv, Samples, Place, TimerInv
  <1> QED  BY <1>4, <1>5, <1>6, <1>7, <1>8 DEF Meter!Next

-----------------------------------------------------------------------------
(* The theorem.                                                              *)

\* What the filter reads is what was measured, over the end of the ring.
LEMMA FilterReadsMeasured ==
    ASSUME Meter!SpeedCatAssumption, SpeedInv, Len(measured) > Window
    PROVE  Meter!Filtered = SubSeq(measured, Len(measured) - Window, Len(measured) - 1)
  <1> DEFINE part == SubSeq(measured, Len(measured) - Window, Len(measured) - 1)
             first == currentSample + Size - Window
  <1>1. /\ Size \in Nat \ {0} /\ Window \in Nat \ {0} /\ Window < Size
        /\ currentSample \in 0 .. (Size - 1)
        /\ measured \in Seq(Nat) /\ Len(measured) \in Nat
    BY LenProperties DEF Meter!SpeedCatAssumption, SpeedInv, Meter!TypeOK, RingInv
  <1>2. Meter!Smallest(sampleCount, Window) = Window
    BY <1>1 DEF SpeedInv, RingInv, Samples, Meter!Smallest
  <1>3. Meter!Filtered = [i \in 1 .. Window |-> samples[(first + i - 1) % Size]]
    BY <1>2 DEF Meter!Filtered
  <1>4. /\ \A i \in (Len(measured) - Window) .. (Len(measured) - 1) : measured[i] \in Nat
        /\ part \in Seq(Nat) /\ Len(part) = Window
        /\ \A i \in 1 .. Window : part[i] = measured[Len(measured) - Window + i - 1]
    <2>1. \A i \in (Len(measured) - Window) .. (Len(measured) - 1) : measured[i] \in Nat
      BY <1>1, ElementOfSeq
    <2>2. Len(part) = Window
          /\ \A i \in 1 .. Window : part[i] = measured[Len(measured) - Window + i - 1]
      BY <1>1, <2>1, SubSeqProperties
    <2>3. part \in Seq(Nat)  BY <1>1, <2>1, SubSeqProperties
    <2> QED  BY <2>1, <2>2, <2>3
  <1>5. ASSUME NEW i \in 1 .. Window
        PROVE  samples[(first + i - 1) % Size] = part[i]
    <2> DEFINE k == Window + 1 - i
    <2>1. k \in 0 .. (Size - 1) /\ k < Len(measured)  BY <1>1
    <2>2. first + i - 1 \in Nat /\ first + i - 1 < 2 * Size  BY <1>1
    <2>3. (first + i - 1) % Size = Place(k)
      <3>1. (first + i - 1) % Size = IF first + i - 1 < Size THEN first + i - 1
                                     ELSE first + i - 1 - Size
        <4>1. \A a \in Nat : a < 2 * Size => a % Size = IF a < Size THEN a ELSE a - Size
          BY <1>1, OneTurn
        <4>2. PICK a \in Nat : a = first + i - 1 /\ a < 2 * Size  BY <2>2
        <4>3. a % Size = IF a < Size THEN a ELSE a - Size  BY <4>1, <4>2
        <4> QED  BY <1>1, <4>2, <4>3
      <3> QED  BY <3>1, <1>1 DEF Place
    <2>4. samples[Place(k)] = measured[Len(measured) - k]
      BY <2>1 DEF SpeedInv, RingInv
    <2>5. Len(measured) - k = Len(measured) - Window + i - 1  BY <1>1
    <2> QED  BY <2>3, <2>4, <2>5, <1>4
  <1>6. part = [i \in 1 .. Window |-> part[i]]  BY <1>4, LenProperties
  <1> QED  BY <1>3, <1>5, <1>6

\* The filtered speed is the mean of samples of this session, those before the
\* latest, wherever the ring stands and however often it went around; and once
\* a line was read, no timer of this or an earlier session closes the port.
THEOREM SpeedIsMeasured ==
    ASSUME Meter!SpeedCatAssumption
    PROVE  Meter!Spec => []Meter!SpeedIsOfThisSession
  <1>1. Meter!Init => SpeedInv
    BY EmptySeq DEF Meter!Init, SpeedInv, Meter!TypeOK, CountInv, RingInv, TimerInv, Samples, Meter!Smallest,
                    Meter!SpeedCatAssumption, Meter!Unset, Meter!NoTimer
  <1>2. SpeedInv /\ [Meter!Next]_Meter!vars => SpeedInv'  BY SpeedStep
  <1>3. SpeedInv => Meter!SpeedIsOfThisSession
    <2>1. SpeedInv /\ Meter!State = "Connected" => connectTimeoutId = Meter!NoTimer
      BY DEF SpeedInv, TimerInv, Meter!State, Meter!TypeOK, Meter!SpeedCatAssumption
    <2> QED  BY <2>1, FilterReadsMeasured DEF Meter!SpeedIsOfThisSession
  <1> QED  BY <1>1, <1>2, <1>3, PTL DEF Meter!Spec
-----------------------------------------------------------------------------
(* The requests of a frame.                                                  *)

Answer == [what : {"reset", "power", "magic", "acknowledge", "command", "off"},
           frame : Esu!Frames \cup {Esu!Nobody}, mode : Esu!Modes, left : 0..ListSize, ok : BOOLEAN]

\* Nobody waits for an answer only to a magic request.
Plausible(r) == r.frame = Esu!Nobody => r.what = "magic"

WireInv ==
    /\ requests \in Seq(Esu!Request) /\ answers \in Seq(Answer)
    /\ \A i \in DOMAIN requests : Plausible(requests[i])
    /\ \A i \in DOMAIN answers : Plausible(answers[i])
    /\ powerMode \in Esu!Modes /\ actual \in Esu!Modes /\ enabled \subseteq Esu!Frames
    /\ programming \in BOOLEAN /\ failed \in BOOLEAN /\ port \in {"none", "closed", "open"}

\* A frame of a connected programmer that may be pressed has nothing under way.
AwaitInv ==
    Esu!State = "Connected" =>
        \A f \in Esu!Frames : IF f \in enabled THEN Esu!Of(f, requests) = {} /\ Esu!Of(f, answers) = {}
                          ELSE Esu!Awaited(f)

\* What the modes are when a request is under way alone ...
Asked(r) ==
    /\ r \in Esu!Request /\ r.frame \in Esu!Frames
    /\ r.what \in {"reset", "power"} => powerMode = actual /\ r.mode \in {"Enabled", "Service"}
    /\ r.what = "magic" => r.mode = "Enabled" /\ actual = "Enabled"
    /\ r.what = "acknowledge" => r.mode = "Service" /\ actual = "Service"
    /\ r.what = "command" => powerMode = r.mode /\ actual = r.mode
    /\ r.what = "off" => powerMode = actual /\ r.mode = "Disabled"

\* ... and when its answer is.
Answered(a) ==
    /\ a \in Answer /\ a.frame \in Esu!Frames
    /\ a.what = "reset" => powerMode = actual /\ a.mode \in {"Enabled", "Service"}
    /\ a.what = "power" => a.mode \in {"Enabled", "Service"}
                           /\ actual = (IF a.ok THEN a.mode ELSE powerMode)
    /\ a.what = "magic" => a.mode = "Enabled" /\ actual = "Enabled"
    /\ a.what = "acknowledge" => a.ok /\ a.mode = "Service" /\ actual = "Service"
    /\ a.what = "command" => powerMode = a.mode /\ actual = a.mode
    /\ a.what = "off" => actual = (IF a.ok THEN "Disabled" ELSE powerMode)

Silent(r)  == r.what = "magic" /\ r.frame = Esu!Nobody
Ordered(r) == r.what = "acknowledge" /\ Asked(r)

\* Without overlaps nothing is under way, or one request or answer, or the two
\* requests that lead to the service mode.
ChainInv ==
    ~misled =>
        /\ ~spoiled
        /\ \/ requests = <<>> /\ answers = <<>> /\ powerMode = actual
           \/ \E r : requests = <<r>> /\ answers = <<>> /\ Asked(r)
           \/ \E a : requests = <<>> /\ answers = <<a>> /\ Answered(a)
           \/ \E r, s : requests = <<r, s>> /\ answers = <<>> /\ Silent(r) /\ Ordered(s)
           \/ \E a, s : requests = <<s>> /\ answers = <<a>> /\ Silent(a) /\ Ordered(s)
           \/ \E a, b : requests = <<>> /\ answers = <<a, b>> /\ Silent(a)
                        /\ b.what = "acknowledge" /\ Answered(b)

ProgrammerInv == WireInv /\ AwaitInv /\ ChainInv

-----------------------------------------------------------------------------
(* Lemmas.                                                                   *)

None(f, s) == Esu!Of(f, s) = {}
Once(f, s) == \E i \in DOMAIN s : Esu!Of(f, s) = {i}

LEMMA OfConcat ==
    ASSUME NEW S, NEW s \in Seq(S), NEW t \in Seq(S), NEW f
    PROVE  /\ None(f, s) /\ None(f, t) => None(f, s \o t)
           /\ Once(f, s) /\ None(f, t) => Once(f, s \o t)
           /\ None(f, s) /\ Once(f, t) => Once(f, s \o t)
  <1> DEFINE m == Len(s)
             n == Len(t)
             u == s \o t
  <1>1. /\ m \in Nat /\ n \in Nat /\ DOMAIN s = 1 .. m /\ DOMAIN t = 1 .. n
        /\ DOMAIN u = 1 .. m + n
        /\ \A i \in 1 .. m + n : u[i] = IF i <= m THEN s[i] ELSE t[i - m]
    BY LenProperties, ConcatProperties
  <1> HIDE DEF m, n, u
  <1>2. \A i \in 1 .. m : i \in 1 .. m + n /\ u[i] = s[i]  BY <1>1
  <1>3. \A i \in 1 .. n : i + m \in 1 .. m + n /\ u[i + m] = t[i]
    <2> SUFFICES ASSUME NEW i \in 1 .. n PROVE i + m \in 1 .. m + n /\ u[i + m] = t[i]
      OBVIOUS
    <2>1. i + m \in 1 .. m + n /\ ~(i + m <= m) /\ (i + m) - m = i  BY <1>1
    <2> QED  BY <1>1, <2>1
  <1>4. \A i \in 1 .. m + n : \/ i \in 1 .. m
                              \/ i - m \in 1 .. n /\ i = (i - m) + m /\ u[i] = t[i - m]
    BY <1>1
  <1>5. \A i : i \in Esu!Of(f, u) <=> \/ i \in Esu!Of(f, s)
                                      \/ i \in 1 .. m + n /\ i \notin 1 .. m /\ i - m \in Esu!Of(f, t)
    BY <1>1, <1>2, <1>4 DEF Esu!Of
  <1>6. None(f, s) /\ None(f, t) => None(f, u)  BY <1>5 DEF None
  <1>7. Once(f, s) /\ None(f, t) => Once(f, u)
    <2> SUFFICES ASSUME NEW i \in DOMAIN s, Esu!Of(f, s) = {i}, None(f, t) PROVE Once(f, u)
      BY DEF Once
    <2>1. i \in DOMAIN u  BY <1>1, <1>2
    <2>2. Esu!Of(f, u) = {i}  BY <1>5 DEF None
    <2> QED  BY <2>1, <2>2 DEF Once
  <1>8. None(f, s) /\ Once(f, t) => Once(f, u)
    <2> SUFFICES ASSUME NEW i \in DOMAIN t, Esu!Of(f, t) = {i}, None(f, s) PROVE Once(f, u)
      BY DEF Once
    <2>1. i + m \in DOMAIN u /\ i + m \notin 1 .. m /\ (i + m) - m = i /\ i \in Int
      BY <1>1, <1>3
    <2>2. \A j \in 1 .. m + n : j - m = i => j = i + m  BY <1>1, <2>1
    <2>3. Esu!Of(f, u) = {i + m}  BY <1>1, <1>5, <2>1, <2>2 DEF None
    <2> QED  BY <2>1, <2>3 DEF Once
  <1> QED  BY <1>6, <1>7, <1>8 DEF u

LEMMA OfTail ==
    ASSUME NEW S, NEW s \in Seq(S), s # <<>>, NEW f
    PROVE  /\ None(f, s) => None(f, Tail(s)) /\ Head(s).frame # f
           /\ Once(f, s) => IF Head(s).frame = f THEN None(f, Tail(s)) ELSE Once(f, Tail(s))
  <1> DEFINE m == Len(s)
             u == Tail(s)
  <1>1. /\ m \in Nat \ {0} /\ DOMAIN s = 1 .. m /\ Head(s) = s[1]
        /\ DOMAIN u = 1 .. m - 1 /\ \A i \in 1 .. m - 1 : u[i] = s[i + 1]
    BY HeadTailProperties, LenProperties, EmptySeq
  <1> HIDE DEF m, u
  <1>2. \A i \in 1 .. m : i = 1 \/ (i - 1 \in 1 .. m - 1 /\ u[i - 1] = s[i])
    <2> SUFFICES ASSUME NEW i \in 1 .. m, i # 1 PROVE i - 1 \in 1 .. m - 1 /\ u[i - 1] = s[i]
      OBVIOUS
    <2>1. i - 1 \in 1 .. m - 1 /\ (i - 1) + 1 = i  BY <1>1
    <2> QED  BY <1>1, <2>1
  <1>3. \A i \in Esu!Of(f, u) : i + 1 \in Esu!Of(f, s) /\ i + 1 # 1 /\ i \in 1 .. m - 1
    BY <1>1 DEF Esu!Of
  <1>4. 1 \in Esu!Of(f, s) <=> Head(s).frame = f  BY <1>1 DEF Esu!Of
  <1>5. None(f, s) => None(f, u) /\ Head(s).frame # f  BY <1>3, <1>4 DEF None
  <1>6. ASSUME NEW i \in DOMAIN s, Esu!Of(f, s) = {i}
        PROVE  IF Head(s).frame = f THEN None(f, u) ELSE Once(f, u)
    <2>1. CASE Head(s).frame = f  BY <1>3, <1>4, <1>6, <2>1 DEF None
    <2>2. CASE Head(s).frame # f
      <3>1. i # 1 /\ i - 1 \in DOMAIN u /\ u[i - 1] = s[i] /\ s[i].frame = f
        BY <1>1, <1>2, <1>4, <1>6, <2>2 DEF Esu!Of
      <3>2. \A j \in 1 .. m - 1 : j + 1 = i => j = i - 1  BY <1>1, <1>6
      <3>3. Esu!Of(f, u) \subseteq {i - 1}  BY <1>3, <1>6, <3>2
      <3>4. i - 1 \in Esu!Of(f, u)  BY <3>1 DEF Esu!Of
      <3> QED  BY <2>2, <3>1, <3>3, <3>4 DEF Once
    <2> QED  BY <2>1, <2>2
  <1>7. Once(f, s) => IF Head(s).frame = f THEN None(f, u) ELSE Once(f, u)
    BY <1>6 DEF Once
  <1> QED  BY <1>5, <1>7 DEF u

\* Two items in a row.
LEMMA Pair ==
    ASSUME NEW S, NEW r \in S, NEW t \in S
    PROVE  <<r>> \o <<t>> = <<r, t>> /\ Append(<<r>>, t) = <<r, t>>
  <1>1. <<r>> \in Seq(S) /\ <<t>> \in Seq(S) /\ <<r, t>> \in Seq(S)  OBVIOUS
  <1>2. /\ Len(<<r>>) = 1 /\ Len(<<t>>) = 1 /\ Len(<<r, t>>) = 2 /\ <<r>>[1] = r
        /\ <<t>>[1] = t /\ <<r, t>>[1] = r /\ <<r, t>>[2] = t
    OBVIOUS
  <1> DEFINE a == <<r>>
             b == <<t>>
             c == <<r, t>>
  <1>3. /\ a \in Seq(S) /\ b \in Seq(S) /\ c \in Seq(S) /\ Len(a) = 1 /\ Len(b) = 1
        /\ Len(c) = 2 /\ a[1] = r /\ b[1] = t /\ c[1] = r /\ c[2] = t
    BY <1>1, <1>2
  <1> HIDE DEF a, b, c
  <1>4. /\ a \o b \in Seq(S) /\ Len(a \o b) = 2
        /\ \A i \in 1 .. 2 : (a \o b)[i] = IF i <= 1 THEN a[i] ELSE b[i - 1]
    <2>0. a \in Seq(S) /\ b \in Seq(S)  BY <1>3
    <2>1. /\ a \o b \in Seq(S) /\ Len(a \o b) = Len(a) + Len(b)
          /\ \A i \in 1 .. Len(a) + Len(b) :
                (a \o b)[i] = IF i <= Len(a) THEN a[i] ELSE b[i - Len(a)]
      BY <2>0, ConcatProperties
    <2>2. Len(a) = 1 /\ Len(b) = 1 /\ Len(a) + Len(b) = 2  BY <1>3
    <2> QED  BY <2>1, <2>2
  <1>5. (a \o b)[1] = r /\ (a \o b)[2] = t  BY <1>3, <1>4
  <1>6. \A i \in 1 .. 2 : i = 1 \/ i = 2  OBVIOUS
  <1>7. a \o b = c  BY <1>3, <1>4, <1>5, <1>6, SeqEqual
  <1>8. /\ Append(a, t) \in Seq(S) /\ Len(Append(a, t)) = 2 /\ Append(a, t)[1] = r
        /\ Append(a, t)[2] = t
    <2>0. a \in Seq(S)  BY <1>3
    <2>1. /\ Append(a, t) \in Seq(S) /\ Len(Append(a, t)) = Len(a) + 1
          /\ \A i \in 1 .. Len(a) : Append(a, t)[i] = a[i]
          /\ Append(a, t)[Len(a) + 1] = t
      BY <2>0, AppendProperties
    <2>2. Len(a) + 1 = 2 /\ 1 \in 1 .. Len(a)  BY <1>3
    <2> QED  BY <1>3, <2>1, <2>2
  <1>9. Append(a, t) = c  BY <1>3, <1>6, <1>8, SeqEqual
  <1> QED  BY <1>7, <1>9 DEF a, b, c

LEMMA OfShort ==
    ASSUME NEW f, NEW r, NEW n
    PROVE  /\ None(f, <<>>)
           /\ r.frame # f => None(f, <<r>>)
           /\ r.frame = f => Once(f, <<r>>)
           /\ r.frame # f /\ n.frame # f => None(f, <<n, r>>)
           /\ r.frame = f /\ n.frame # f => Once(f, <<n, r>>)
  <1>1. None(f, <<>>)  BY DEF None, Esu!Of
  <1>2. DOMAIN <<r>> = {1} /\ DOMAIN <<n, r>> = {1, 2} /\ <<r>>[1] = r
        /\ <<n, r>>[1] = n /\ <<n, r>>[2] = r
    OBVIOUS
  <1>3. r.frame # f => None(f, <<r>>)  BY <1>2 DEF None, Esu!Of
  <1>4. r.frame = f => Once(f, <<r>>)
    <2>1. r.frame = f => Esu!Of(f, <<r>>) = {1}  BY <1>2 DEF Esu!Of
    <2> QED  BY <1>2, <2>1 DEF Once
  <1>5. r.frame # f /\ n.frame # f => None(f, <<n, r>>)  BY <1>2 DEF None, Esu!Of
  <1>6. r.frame = f /\ n.frame # f => Once(f, <<n, r>>)
    <2>1. r.frame = f /\ n.frame # f => Esu!Of(f, <<n, r>>) = {2}  BY <1>2 DEF Esu!Of
    <2> QED  BY <1>2, <2>1 DEF Once
  <1> QED  BY <1>1, <1>3, <1>4, <1>5, <1>6

\* Queues whose requests are plausible are so together, and without their heads.
LEMMA PlausibleConcat ==
    ASSUME NEW S, NEW s \in Seq(S), NEW t \in Seq(S),
           \A i \in DOMAIN s : Plausible(s[i]), \A i \in DOMAIN t : Plausible(t[i])
    PROVE  \A i \in DOMAIN (s \o t) : Plausible((s \o t)[i])
  <1> DEFINE m == Len(s)
             n == Len(t)
             u == s \o t
  <1>1. /\ m \in Nat /\ n \in Nat /\ DOMAIN s = 1 .. m /\ DOMAIN t = 1 .. n
        /\ DOMAIN u = 1 .. m + n
        /\ \A i \in 1 .. m + n : u[i] = IF i <= m THEN s[i] ELSE t[i - m]
    BY LenProperties, ConcatProperties
  <1> HIDE DEF m, n, u
  <1>2. ASSUME NEW i \in 1 .. m + n PROVE Plausible(u[i])
    <2>1. CASE i \in 1 .. m
      <3>1. u[i] = s[i] /\ i \in DOMAIN s  BY <1>1, <2>1
      <3> QED  BY <3>1
    <2>2. CASE i \notin 1 .. m
      <3>1. u[i] = t[i - m] /\ i - m \in DOMAIN t  BY <1>1, <2>2
      <3> QED  BY <3>1
    <2> QED  BY <2>1, <2>2
  <1> QED  BY <1>1, <1>2 DEF u

LEMMA PlausibleTail ==
    ASSUME NEW S, NEW s \in Seq(S), s # <<>>, \A i \in DOMAIN s : Plausible(s[i])
    PROVE  /\ Plausible(Head(s)) /\ Head(s) \in S /\ Tail(s) \in Seq(S)
           /\ \A i \in DOMAIN Tail(s) : Plausible(Tail(s)[i])
  <1>1. /\ Len(s) \in Nat \ {0} /\ DOMAIN s = 1 .. Len(s) /\ Head(s) = s[1]
        /\ Tail(s) \in Seq(S) /\ DOMAIN Tail(s) = 1 .. Len(s) - 1
        /\ \A i \in 1 .. Len(s) - 1 : Tail(s)[i] = s[i + 1]
    BY HeadTailProperties, LenProperties, EmptySeq
  <1>2. 1 \in DOMAIN s  BY <1>1
  <1>3. \A i \in 1 .. Len(s) - 1 : i + 1 \in DOMAIN s  BY <1>1
  <1>4. s[1] \in S  BY <1>1, <1>2, ElementOfSeq
  <1> QED  BY <1>1, <1>2, <1>3, <1>4

-----------------------------------------------------------------------------
(* What callbacks ask for.                                                   *)

\* Requests that one frame is behind.
Asking(f, s) ==
    /\ s \in Seq(Esu!Request) /\ \A i \in DOMAIN s : Plausible(s[i])
    /\ Once(f, s) /\ \A g \in Esu!Frames \ {f} : None(g, s)

LEMMA OneAsks ==
    ASSUME NEW f \in Esu!Frames, NEW r \in Esu!Request, r.frame = f
    PROVE  Asking(f, <<r>>)
  <1>1. <<r>> \in Seq(Esu!Request) /\ DOMAIN <<r>> = {1} /\ <<r>>[1] = r  OBVIOUS
  <1>2. Plausible(r)  BY DEF Plausible, Esu!Frames, Esu!Nobody
  <1>3. \A g \in Esu!Frames \ {f} : None(g, <<r>>)  BY OfShort
  <1> QED  BY <1>1, <1>2, <1>3, OfShort DEF Asking

LEMMA TwoAsk ==
    ASSUME NEW f \in Esu!Frames, NEW n \in Esu!Request, NEW r \in Esu!Request, r.frame = f, Silent(n)
    PROVE  Asking(f, <<n, r>>)
  <1>1. <<n, r>> \in Seq(Esu!Request) /\ DOMAIN <<n, r>> = {1, 2} /\ <<n, r>>[1] = n /\ <<n, r>>[2] = r
    OBVIOUS
  <1>2. Plausible(r) /\ Plausible(n)  BY DEF Plausible, Esu!Frames, Esu!Nobody, Silent
  <1>3. \A g \in Esu!Frames : n.frame # g  BY DEF Silent, Esu!Frames, Esu!Nobody
  <1>4. Once(f, <<n, r>>)  BY <1>3, OfShort
  <1>5. \A g \in Esu!Frames \ {f} : None(g, <<n, r>>)  BY <1>3, OfShort
  <1> QED  BY <1>1, <1>2, <1>4, <1>5 DEF Asking

\* The requests there are.
Item(what, frame, mode, left) == [what |-> what, frame |-> frame, mode |-> mode, left |-> left]

LEMMA ItemIs ==
    ASSUME NEW what \in {"reset", "power", "magic", "acknowledge", "command", "off"},
           NEW frame \in Esu!Frames \cup {Esu!Nobody}, NEW mode \in Esu!Modes, NEW left \in 0..ListSize
    PROVE  /\ Item(what, frame, mode, left) \in Esu!Request
           /\ Item(what, frame, mode, left).what = what
           /\ Item(what, frame, mode, left).frame = frame
           /\ Item(what, frame, mode, left).mode = mode
           /\ Item(what, frame, mode, left).left = left
  BY DEF Item, Esu!Request

\* The first command of a frame.
First(frame, mode) == Item("command", frame, mode, IF frame = "dcc" THEN 1 ELSE ListSize)

LEMMA FirstIs ==
    ASSUME Esu!ProgrammerAssumption, NEW frame \in Esu!Frames, NEW mode \in Esu!Modes
    PROVE  /\ Esu!FirstCommand(frame, mode) = <<First(frame, mode)>>
           /\ First(frame, mode) \in Esu!Request /\ First(frame, mode).what = "command"
           /\ First(frame, mode).frame = frame /\ First(frame, mode).mode = mode
  <1> DEFINE left == IF frame = "dcc" THEN 1 ELSE ListSize
  <1>1. left \in 0..ListSize  BY DEF Esu!ProgrammerAssumption
  <1>2. Esu!FirstCommand(frame, mode) = <<First(frame, mode)>>
    BY DEF Esu!FirstCommand, Esu!Command, First, Item
  <1>3. First(frame, mode) = Item("command", frame, mode, left)  BY DEF First
  <1> HIDE DEF left
  <1> QED  BY <1>1, <1>2, <1>3, ItemIs

LEMMA AskIs ==
    ASSUME NEW what, NEW frame, NEW mode, NEW left
    PROVE  /\ Esu!Ask(what, frame, mode) = <<Item(what, frame, mode, 0)>>
           /\ Esu!Command(frame, mode, left) = <<Item("command", frame, mode, left)>>
  BY DEF Esu!Ask, Esu!Command, Item

\* A callback asks for one thing for its frame, or is done; nobody's asks for nothing.
CallbackOf(a, t) ==
    /\ t.mode \in Esu!Modes /\ t.done \in BOOLEAN
    /\ a.frame \notin Esu!Frames => t.more = <<>> /\ ~t.done /\ t.mode = powerMode
    /\ a.frame \in Esu!Frames /\ t.done => t.more = <<>>
    /\ a.frame \in Esu!Frames /\ ~t.done => Asking(a.frame, t.more)

LEMMA ThenIs ==
    ASSUME NEW a, NEW more, NEW mode \in Esu!Modes, NEW done \in BOOLEAN,
           a.frame \notin Esu!Frames => more = <<>> /\ ~done /\ mode = powerMode,
           a.frame \in Esu!Frames /\ done => more = <<>>,
           a.frame \in Esu!Frames /\ ~done => Asking(a.frame, more)
    PROVE  CallbackOf(a, Esu!Then(more, mode, done))
  <1> DEFINE t == Esu!Then(more, mode, done)
  <1>1. t.more = more /\ t.mode = mode /\ t.done = done  BY DEF Esu!Then
  <1> HIDE DEF t
  <1>2. CallbackOf(a, t)  BY <1>1 DEF CallbackOf
  <1> QED  BY <1>2 DEF t

LEMMA GiveUpIs ==
    ASSUME WireInv, NEW a, a.frame \in Esu!Frames
    PROVE  CallbackOf(a, Esu!GiveUp)
  BY ThenIs DEF Esu!GiveUp, WireInv

LEMMA AnsweredAlone ==
    ASSUME Esu!ProgrammerAssumption, WireInv, NEW a \in Answer, Plausible(a)
    PROVE  CallbackOf(a, Esu!Callback(a))
  <1> DEFINE f == a.frame
             m == a.mode
  <1>1. /\ a.what \in {"reset", "power", "magic", "acknowledge", "command", "off"}
        /\ f \in Esu!Frames \cup {Esu!Nobody} /\ m \in Esu!Modes /\ a.left \in 0..ListSize
        /\ a.ok \in BOOLEAN /\ ListSize \in Nat /\ powerMode \in Esu!Modes
    BY DEF Answer, Esu!ProgrammerAssumption, WireInv
  <1>2. 0 \in 0..ListSize /\ {"Enabled", "Disabled", "Service"} \subseteq Esu!Modes
    BY <1>1 DEF Esu!Modes
  <1>3. CASE f = Esu!Nobody
    <2>0. a.what = "magic"  BY <1>3 DEF Plausible
    <2>1. Esu!Callback(a) = Esu!Then(<<>>, powerMode, FALSE)  BY <1>3, <2>0 DEF Esu!Callback
    <2>2. f \notin Esu!Frames  BY <1>3 DEF Esu!Frames, Esu!Nobody
    <2> QED  BY <1>1, <2>1, <2>2, ThenIs
  <1>4. CASE f # Esu!Nobody
    <2>1. f \in Esu!Frames  BY <1>1, <1>4
    <2>0. \A what \in {"power", "magic", "acknowledge", "off"}, mode \in Esu!Modes :
              /\ Item(what, f, mode, 0) \in Esu!Request /\ Item(what, f, mode, 0).frame = f
              /\ Item(what, Esu!Nobody, mode, 0) \in Esu!Request
              /\ Item(what, Esu!Nobody, mode, 0).frame = Esu!Nobody
              /\ Item(what, Esu!Nobody, mode, 0).what = what
      BY <1>2, <2>1, ItemIs
    <2>2. ASSUME NEW r \in Esu!Request, r.frame = f, NEW mode \in Esu!Modes,
                 Esu!Callback(a) = Esu!Then(<<r>>, mode, FALSE)
          PROVE  CallbackOf(a, Esu!Callback(a))
      <3>1. Asking(f, <<r>>)  BY <2>1, <2>2, OneAsks
      <3> QED  BY <2>1, <2>2, <3>1, ThenIs
    <2>3. CASE a.what = "reset"
      <3>1. Esu!Callback(a) = Esu!Then(<<Item("power", f, m, 0)>>, powerMode, FALSE)
        BY <1>4, <2>3, AskIs DEF Esu!Callback
      <3>2. Item("power", f, m, 0) \in Esu!Request /\ Item("power", f, m, 0).frame = f
        BY <1>1, <1>2, <2>0
      <3> QED  BY <1>1, <2>2, <3>1, <3>2
    <2>4. CASE a.what = "command"
      <3>0. Esu!Callback(a) = Esu!CommandAnswered(f, m, a.left)  BY <1>4, <2>4 DEF Esu!Callback
      <3>1. CASE a.left > 1
        <4>1. Esu!Callback(a) = Esu!Then(<<Item("command", f, m, a.left - 1)>>, powerMode, FALSE)
          BY <3>0, <3>1, AskIs DEF Esu!CommandAnswered
        <4>2. a.left - 1 \in 0..ListSize  BY <1>1, <3>1
        <4>3. /\ Item("command", f, m, a.left - 1) \in Esu!Request
              /\ Item("command", f, m, a.left - 1).frame = f
          <5> DEFINE k == a.left - 1
          <5>1. k \in 0..ListSize /\ f \in Esu!Frames \cup {Esu!Nobody} /\ m \in Esu!Modes
            BY <1>1, <4>2
          <5> HIDE DEF k, f, m
          <5>2. Item("command", f, m, k) \in Esu!Request /\ Item("command", f, m, k).frame = f
            BY <5>1, ItemIs
          <5> QED  BY <5>2 DEF k
        <4> QED  BY <1>1, <2>2, <4>1, <4>3
      <3>2. CASE ~(a.left > 1) /\ (f = "usart" \/ programming)
        <4>1. Esu!Callback(a) = Esu!Then(<<Item("off", f, "Disabled", 0)>>, powerMode, FALSE)
          BY <3>0, <3>2, AskIs DEF Esu!CommandAnswered
        <4>2. Item("off", f, "Disabled", 0) \in Esu!Request /\ Item("off", f, "Disabled", 0).frame = f
          BY <1>1, <1>2, <2>0
        <4> QED  BY <1>1, <2>2, <4>1, <4>2
      <3>3. CASE ~(a.left > 1) /\ ~(f = "usart" \/ programming)
        <4>1. Esu!Callback(a) = Esu!Then(<<>>, powerMode, TRUE)  BY <3>0, <3>3 DEF Esu!CommandAnswered
        <4> QED  BY <1>1, <2>1, <4>1, ThenIs
      <3> QED  BY <3>1, <3>2, <3>3
    <2>5. CASE a.what = "magic"
      <3>0. Esu!FirstCommand(f, m) = <<First(f, m)>>  BY <1>1, <2>1, FirstIs
      <3>1. Esu!Callback(a) = Esu!Then(<<First(f, m)>>, "Enabled", FALSE)
        BY <1>4, <2>5, <3>0 DEF Esu!Callback
      <3>2. First(f, m) \in Esu!Request /\ First(f, m).frame = f  BY <1>1, <2>1, FirstIs
      <3> QED  BY <1>2, <2>2, <3>1, <3>2
    <2>6. CASE a.what = "power"
      <3>0. Esu!Callback(a) = IF a.ok THEN Esu!PowerAnswered(f, m) ELSE Esu!GiveUp
        BY <1>4, <2>6 DEF Esu!Callback
      <3>1. CASE ~a.ok  BY <2>1, <3>0, <3>1, GiveUpIs
      <3>2. CASE a.ok /\ m = "Enabled"
        <4>1. Esu!Callback(a) = Esu!Then(<<Item("magic", f, m, 0)>>, powerMode, FALSE)
          BY <3>0, <3>2, AskIs DEF Esu!PowerAnswered
        <4>2. Item("magic", f, m, 0) \in Esu!Request /\ Item("magic", f, m, 0).frame = f
          BY <1>1, <1>2, <2>0
        <4> QED  BY <1>1, <2>2, <4>1, <4>2
      <3>3. CASE a.ok /\ m # "Enabled"
        <4> DEFINE n == Item("magic", Esu!Nobody, m, 0)
                   r == Item("acknowledge", f, m, 0)
        <4>1. n \in Esu!Request /\ r \in Esu!Request /\ r.frame = f /\ Silent(n)
          BY <1>1, <2>0 DEF Silent
        <4>2. Esu!Callback(a) = Esu!Then(<<n>> \o <<r>>, powerMode, FALSE)
          BY <3>0, <3>3, AskIs DEF Esu!PowerAnswered
        <4> HIDE DEF n, r
        <4>3. <<n>> \o <<r>> = <<n, r>>  BY <4>1, Pair
        <4>4. Asking(f, <<n, r>>)  BY <2>1, <4>1, TwoAsk
        <4> QED  BY <1>1, <2>1, <4>2, <4>3, <4>4, ThenIs
      <3> QED  BY <3>1, <3>2, <3>3
    <2>7. CASE a.what = "acknowledge"
      <3>0. Esu!Callback(a) = IF a.ok THEN Esu!Then(Esu!FirstCommand(f, m), "Service", FALSE) ELSE Esu!GiveUp
        BY <1>4, <2>7 DEF Esu!Callback
      <3>1. CASE ~a.ok  BY <2>1, <3>0, <3>1, GiveUpIs
      <3>2. CASE a.ok
        <4>1. Esu!Callback(a) = Esu!Then(<<First(f, m)>>, "Service", FALSE)
          BY <1>1, <2>1, <3>0, <3>2, FirstIs
        <4>2. First(f, m) \in Esu!Request /\ First(f, m).frame = f  BY <1>1, <2>1, FirstIs
        <4> QED  BY <1>2, <2>2, <4>1, <4>2
      <3> QED  BY <3>1, <3>2
    <2>8. CASE a.what = "off"
      <3>0. Esu!Callback(a) = Esu!OffAnswered(a.ok)  BY <1>4, <2>8 DEF Esu!Callback
      <3>1. CASE ~a.ok  BY <2>1, <3>0, <3>1, GiveUpIs DEF Esu!OffAnswered
      <3>2. CASE a.ok
        <4>1. Esu!Callback(a) = Esu!Then(<<>>, "Disabled", TRUE)  BY <3>0, <3>2 DEF Esu!OffAnswered
        <4> QED  BY <1>2, <2>1, <4>1, ThenIs
      <3> QED  BY <3>1, <3>2
    <2> QED  BY <1>1, <2>3, <2>4, <2>5, <2>6, <2>7, <2>8
  <1> QED  BY <1>3, <1>4

-----------------------------------------------------------------------------
(* A frame waits for one request.                                            *)

LEMMA AwaitedIs ==
    ASSUME NEW f
    PROVE  Esu!Awaited(f) <=> \/ None(f, answers) /\ Once(f, requests)
                              \/ None(f, requests) /\ Once(f, answers)
  BY DEF Esu!Awaited, None, Once

\* A session that ends or starts leaves no requests, and no frame that waits.
LEMMA SessionAwait ==
    ASSUME WireInv, requests' = <<>>, answers' = <<>>,
           enabled' = Esu!FramesFor(Esu!State') \/ Esu!State' # "Connected"
    PROVE  AwaitInv'
  <1> SUFFICES ASSUME Esu!State' = "Connected", NEW f \in Esu!Frames
               PROVE  IF f \in enabled' THEN Esu!Of(f, requests') = {} /\ Esu!Of(f, answers') = {}
                      ELSE Esu!Awaited(f)'
    BY DEF AwaitInv, Esu!Of, Esu!Awaited
  <1>1. f \in enabled'  BY DEF Esu!FramesFor
  <1>2. Esu!Of(f, requests') = {} /\ Esu!Of(f, answers') = {}  BY OfShort DEF None
  <1> QED  BY <1>1, <1>2

\* Frames for which the requests and answers say the same await the same.
LEMMA SameAwait ==
    ASSUME AwaitInv, Esu!State' = Esu!State,
           Esu!State = "Connected" =>
             \A f \in Esu!Frames :
               IF f \in enabled' THEN None(f, requests)' /\ None(f, answers)'
               ELSE \/ None(f, answers)' /\ Once(f, requests)'
                    \/ None(f, requests)' /\ Once(f, answers)'
    PROVE  AwaitInv'
  BY DEF AwaitInv, Esu!Awaited, None, Once

LEMMA PressAwait ==
    ASSUME Esu!ProgrammerAssumption, WireInv, AwaitInv, NEW frame \in Esu!Frames, Esu!Press(frame)
    PROVE  AwaitInv' /\ requests' \in Seq(Esu!Request)
           /\ \A i \in DOMAIN requests' : Plausible(requests'[i])
  <1> DEFINE mode == IF frame = "usart" \/ programming THEN "Service" ELSE "Enabled"
             more == Esu!PowerOn(frame, mode)
  <1>1. requests' = requests \o more /\ answers' = answers /\ enabled' = enabled \ {frame}
        /\ frame \in enabled /\ Esu!State' = Esu!State
    BY DEF Esu!Press, Esu!State, Esu!link
  <1>2. mode \in Esu!Modes /\ 0 \in 0..ListSize  BY DEF Esu!Modes, Esu!ProgrammerAssumption
  <1> HIDE DEF mode
  <1>3. Asking(frame, more)
    <2>1. CASE powerMode = mode
      <3>1. more = <<First(frame, mode)>>  BY <1>2, <2>1, FirstIs DEF Esu!PowerOn
      <3>2. First(frame, mode) \in Esu!Request /\ First(frame, mode).frame = frame
        BY <1>2, FirstIs
      <3> QED  BY <3>1, <3>2, OneAsks
    <2>2. CASE powerMode # mode
      <3>1. more = <<Item("reset", frame, mode, 0)>>  BY <2>2, AskIs DEF Esu!PowerOn
      <3>2. /\ Item("reset", frame, mode, 0) \in Esu!Request
            /\ Item("reset", frame, mode, 0).frame = frame
        BY <1>2, ItemIs
      <3> QED  BY <3>1, <3>2, OneAsks
    <2> QED  BY <2>1, <2>2
  <1> HIDE DEF more
  <1>4. /\ more \in Seq(Esu!Request) /\ requests \in Seq(Esu!Request)
        /\ Once(frame, more) /\ \A g \in Esu!Frames \ {frame} : None(g, more)
    BY <1>3 DEF Asking, WireInv
  <1>5. \A i \in DOMAIN requests' : Plausible(requests'[i])  BY <1>1, <1>3, PlausibleConcat DEF WireInv, Asking
  <1>6. requests' \in Seq(Esu!Request)  BY <1>1, <1>4, ConcatProperties
  <1>7. ASSUME Esu!State = "Connected", NEW f \in Esu!Frames
        PROVE  IF f \in enabled' THEN None(f, requests)' /\ None(f, answers)'
               ELSE \/ None(f, answers)' /\ Once(f, requests)'
                    \/ None(f, requests)' /\ Once(f, answers)'
    <2>1. IF f \in enabled THEN None(f, requests) /\ None(f, answers)
          ELSE \/ None(f, answers) /\ Once(f, requests)
               \/ None(f, requests) /\ Once(f, answers)
      BY <1>7, AwaitedIs DEF AwaitInv, None
    <2>2. None(f, answers)' = None(f, answers) /\ Once(f, answers)' = Once(f, answers)
      BY <1>1 DEF None, Once, Esu!Of
    <2>3. /\ None(f, requests)' = None(f, requests \o more)
          /\ Once(f, requests)' = Once(f, requests \o more)
      BY <1>1 DEF None, Once, Esu!Of
    <2>4. CASE f = frame
      <3>1. f \in enabled /\ f \notin enabled'  BY <1>1, <2>4
      <3>2. Once(f, requests \o more)  BY <1>4, <2>1, <2>4, <3>1, OfConcat
      <3> QED  BY <2>1, <2>2, <2>3, <3>1, <3>2
    <2>5. CASE f # frame
      <3>1. f \in enabled' <=> f \in enabled  BY <1>1, <2>5
      <3>2. None(f, more)  BY <1>4, <2>5
      <3>3. /\ None(f, requests) => None(f, requests \o more)
            /\ Once(f, requests) => Once(f, requests \o more)
        BY <1>4, <3>2, OfConcat
      <3> QED  BY <2>1, <2>2, <2>3, <3>1, <3>3
    <2> QED  BY <2>4, <2>5
  <1>8. AwaitInv'  BY <1>1, <1>7, SameAwait
  <1> QED  BY <1>5, <1>6, <1>8

LEMMA ReceiveAwait ==
    ASSUME Esu!ProgrammerAssumption, WireInv, AwaitInv, Esu!Receive
    PROVE  AwaitInv' /\ WireInv'
  <1> DEFINE a == Head(answers)
             t == Esu!Callback(a)
             rest == Tail(answers)
  <1>1. /\ answers # <<>> /\ answers' = rest /\ requests' = requests \o t.more
        /\ powerMode' = t.mode /\ enabled' = IF t.done THEN enabled \cup {a.frame} ELSE enabled
        /\ Esu!State' = Esu!State /\ actual' = actual /\ programming' = programming
        /\ failed' = failed /\ port' = port
    BY DEF Esu!Receive, Esu!State, Esu!link
  <1>2. answers \in Seq(Answer) /\ \A i \in DOMAIN answers : Plausible(answers[i])
    BY DEF WireInv
  <1>3. /\ Plausible(a) /\ a \in Answer /\ rest \in Seq(Answer)
        /\ \A i \in DOMAIN rest : Plausible(rest[i])
    BY <1>1, <1>2, PlausibleTail
  <1>4. /\ \A f : None(f, answers) => None(f, rest) /\ a.frame # f
        /\ \A f : Once(f, answers) => IF a.frame = f THEN None(f, rest) ELSE Once(f, rest)
    BY <1>1, <1>2, OfTail
  <1> HIDE DEF a, rest
  <1>5. CallbackOf(a, t)  BY <1>3, AnsweredAlone
  <1> HIDE DEF t
  <1>6. /\ t.more \in Seq(Esu!Request) /\ \A i \in DOMAIN t.more : Plausible(t.more[i])
        /\ \A f \in Esu!Frames : IF f = a.frame /\ ~t.done THEN Once(f, t.more) ELSE None(f, t.more)
        /\ t.done \in BOOLEAN /\ t.mode \in Esu!Modes /\ (t.done => a.frame \in Esu!Frames)
    <2>1. t.done \in BOOLEAN /\ t.mode \in Esu!Modes /\ (t.done => a.frame \in Esu!Frames)
      BY <1>5 DEF CallbackOf
    <2>2. CASE a.frame \in Esu!Frames /\ ~t.done
      BY <1>5, <2>1, <2>2 DEF CallbackOf, Asking
    <2>3. CASE ~(a.frame \in Esu!Frames /\ ~t.done)
      <3>1. t.more = <<>>  BY <1>5, <2>1, <2>3 DEF CallbackOf
      <3>2. \A f : None(f, t.more)  BY <3>1, OfShort
      <3>3. t.more \in Seq(Esu!Request) /\ DOMAIN t.more = {}  BY <3>1
      <3> QED  BY <2>1, <2>3, <3>2, <3>3
    <2> QED  BY <2>2, <2>3
  <1>7. requests \in Seq(Esu!Request) /\ \A i \in DOMAIN requests : Plausible(requests[i])
    BY DEF WireInv
  <1>8. requests' \in Seq(Esu!Request) /\ \A i \in DOMAIN requests' : Plausible(requests'[i])
    BY <1>1, <1>6, <1>7, PlausibleConcat, ConcatProperties
  <1>9. WireInv'
    <2>1. enabled' \subseteq Esu!Frames  BY <1>1, <1>6 DEF WireInv
    <2> QED  BY <1>1, <1>3, <1>6, <1>8, <2>1 DEF WireInv
  <1>10. ASSUME Esu!State = "Connected", NEW f \in Esu!Frames
         PROVE  IF f \in enabled' THEN None(f, requests)' /\ None(f, answers)'
                ELSE \/ None(f, answers)' /\ Once(f, requests)'
                     \/ None(f, requests)' /\ Once(f, answers)'
    <2>1. IF f \in enabled THEN None(f, requests) /\ None(f, answers)
          ELSE \/ None(f, answers) /\ Once(f, requests)
               \/ None(f, requests) /\ Once(f, answers)
      BY <1>10, AwaitedIs DEF AwaitInv, None
    <2>2. None(f, answers)' = None(f, rest) /\ Once(f, answers)' = Once(f, rest)
      BY <1>1 DEF None, Once, Esu!Of
    <2>3. /\ None(f, requests)' = None(f, requests \o t.more)
          /\ Once(f, requests)' = Once(f, requests \o t.more)
      BY <1>1 DEF None, Once, Esu!Of
    <2>4. /\ None(f, requests) /\ None(f, t.more) => None(f, requests \o t.more)
          /\ Once(f, requests) /\ None(f, t.more) => Once(f, requests \o t.more)
          /\ None(f, requests) /\ Once(f, t.more) => Once(f, requests \o t.more)
      BY <1>6, <1>7, OfConcat
    <2>5. CASE f = a.frame
      <3>1. Once(f, answers) /\ None(f, requests) /\ None(f, rest) /\ f \notin enabled
        BY <1>4, <2>1, <2>5
      <3>2. CASE t.done
        <4>1. f \in enabled' /\ None(f, t.more)  BY <1>1, <1>6, <2>5, <3>2
        <4> QED  BY <2>2, <2>3, <2>4, <3>1, <4>1
      <3>3. CASE ~t.done
        <4>1. f \notin enabled' /\ Once(f, t.more)  BY <1>1, <1>6, <2>5, <3>1, <3>3
        <4> QED  BY <2>2, <2>3, <2>4, <3>1, <4>1
      <3> QED  BY <3>2, <3>3
    <2>6. CASE f # a.frame
      <3>1. (f \in enabled' <=> f \in enabled) /\ None(f, t.more)  BY <1>1, <1>6, <2>6
      <3>2. /\ None(f, answers) => None(f, rest)
            /\ Once(f, answers) => Once(f, rest)
        BY <1>4, <2>6
      <3> QED  BY <2>1, <2>2, <2>3, <2>4, <3>1, <3>2
    <2> QED  BY <2>5, <2>6
  <1>11. AwaitInv'  BY <1>1, <1>10, SameAwait
  <1> QED  BY <1>9, <1>11

\* A request that is done becomes an answer.
Reply(r, ok) == [what |-> r.what, frame |-> r.frame, mode |-> r.mode, left |-> r.left, ok |-> ok]

LEMMA ReplyIs ==
    ASSUME NEW r \in Esu!Request, NEW ok \in BOOLEAN
    PROVE  /\ Reply(r, ok) \in Answer /\ Reply(r, ok).what = r.what
           /\ Reply(r, ok).frame = r.frame /\ Reply(r, ok).mode = r.mode
           /\ Reply(r, ok).left = r.left /\ Reply(r, ok).ok = ok
  BY DEF Reply, Esu!Request, Answer

LEMMA ExecuteIs ==
    ASSUME Esu!Execute, NEW r, r = Head(requests)
    PROVE  /\ requests # <<>> /\ requests' = Tail(requests)
           /\ UNCHANGED <<port, failed, powerMode, enabled, programming>>
           /\ \/ /\ answers' = Append(answers, Reply(r, TRUE))
                 /\ actual' = IF r.what \in {"power", "off"} THEN r.mode ELSE actual
                 /\ spoiled' = (spoiled \/ (r.what = "command" /\ r.mode # actual))
                 /\ misled' = misled
              \/ /\ r.what \in {"power", "acknowledge", "off"}
                 /\ answers' = Append(answers, Reply(r, FALSE))
                 /\ misled' = (misled \/ r.what = "acknowledge")
                 /\ actual' = actual /\ spoiled' = spoiled
  BY DEF Esu!Execute, Reply, Esu!link

LEMMA ExecuteAwait ==
    ASSUME Esu!ProgrammerAssumption, WireInv, AwaitInv, Esu!Execute
    PROVE  AwaitInv' /\ WireInv'
  <1> DEFINE r == Head(requests)
             rest == Tail(requests)
  <1>1. /\ requests # <<>> /\ requests' = rest
        /\ UNCHANGED <<port, failed, powerMode, enabled, programming>>
    BY ExecuteIs
  <1>2. requests \in Seq(Esu!Request) /\ \A i \in DOMAIN requests : Plausible(requests[i])
    BY DEF WireInv
  <1>3. /\ Plausible(r) /\ r \in Esu!Request /\ rest \in Seq(Esu!Request)
        /\ \A i \in DOMAIN rest : Plausible(rest[i])
    BY <1>1, <1>2, PlausibleTail
  <1>4. /\ \A f : None(f, requests) => None(f, rest) /\ r.frame # f
        /\ \A f : Once(f, requests) => IF r.frame = f THEN None(f, rest) ELSE Once(f, rest)
    BY <1>1, <1>2, OfTail
  <1>5. PICK ok \in BOOLEAN : answers' = Append(answers, Reply(r, ok))
    BY ExecuteIs
  <1>6. actual' \in {actual, r.mode}  BY ExecuteIs
  <1> HIDE DEF r, rest
  <1> DEFINE b == Reply(r, ok)
  <1>7. b \in Answer /\ b.frame = r.frame /\ b.what = r.what  BY <1>3, ReplyIs
  <1> HIDE DEF b
  <1>8. answers \in Seq(Answer) /\ \A i \in DOMAIN answers : Plausible(answers[i])
    BY DEF WireInv
  <1>9. answers' = answers \o <<b>>  BY <1>5, <1>7, <1>8, AppendIsConcat DEF b
  <1>10. <<b>> \in Seq(Answer) /\ DOMAIN <<b>> = {1} /\ <<b>>[1] = b  BY <1>7
  <1>11. Plausible(b)  BY <1>3, <1>7 DEF Plausible
  <1>12. answers' \in Seq(Answer) /\ \A i \in DOMAIN answers' : Plausible(answers'[i])
    BY <1>8, <1>9, <1>10, <1>11, PlausibleConcat, ConcatProperties
  <1>13. WireInv'
    <2>1. actual' \in Esu!Modes  BY <1>3, <1>6 DEF WireInv, Esu!Request
    <2> QED  BY <1>1, <1>3, <1>12, <2>1 DEF WireInv
  <1>14. Esu!State' = Esu!State  BY <1>1 DEF Esu!State
  <1>15. ASSUME Esu!State = "Connected", NEW f \in Esu!Frames
         PROVE  IF f \in enabled' THEN None(f, requests)' /\ None(f, answers)'
                ELSE \/ None(f, answers)' /\ Once(f, requests)'
                     \/ None(f, requests)' /\ Once(f, answers)'
    <2>1. IF f \in enabled THEN None(f, requests) /\ None(f, answers)
          ELSE \/ None(f, answers) /\ Once(f, requests)
               \/ None(f, requests) /\ Once(f, answers)
      BY <1>15, AwaitedIs DEF AwaitInv, None
    <2>2. None(f, requests)' = None(f, rest) /\ Once(f, requests)' = Once(f, rest)
      BY <1>1 DEF None, Once, Esu!Of
    <2>3. /\ None(f, answers)' = None(f, answers \o <<b>>)
          /\ Once(f, answers)' = Once(f, answers \o <<b>>)
      BY <1>9 DEF None, Once, Esu!Of
    <2>4. /\ None(f, answers) /\ None(f, <<b>>) => None(f, answers \o <<b>>)
          /\ Once(f, answers) /\ None(f, <<b>>) => Once(f, answers \o <<b>>)
          /\ None(f, answers) /\ Once(f, <<b>>) => Once(f, answers \o <<b>>)
      BY <1>8, <1>10, OfConcat
    <2>5. IF r.frame = f THEN Once(f, <<b>>) ELSE None(f, <<b>>)  BY <1>7, OfShort
    <2>6. CASE f = r.frame
      <3>1. Once(f, requests) /\ None(f, answers) /\ None(f, rest) /\ f \notin enabled'
        BY <1>1, <1>4, <2>1, <2>6
      <3> QED  BY <2>2, <2>3, <2>4, <2>5, <2>6, <3>1
    <2>7. CASE f # r.frame
      <3>1. /\ None(f, requests) => None(f, rest)
            /\ Once(f, requests) => Once(f, rest)
        BY <1>4, <2>7
      <3> QED  BY <1>1, <2>1, <2>2, <2>3, <2>4, <2>5, <2>7, <3>1
    <2> QED  BY <2>6, <2>7
  <1>16. AwaitInv'  BY <1>14, <1>15, SameAwait
  <1> QED  BY <1>13, <1>16


-----------------------------------------------------------------------------
(* The chain of requests of one frame.                                       *)

LEMMA Idle ==
    ASSUME WireInv
    PROVE  ~Esu!Busy <=> requests = <<>> /\ answers = <<>>
  <1>1. requests \in Seq(Esu!Request \cup Answer) /\ answers \in Seq(Esu!Request \cup Answer)
    BY SeqMonotonic DEF WireInv
  <1>2. /\ Len(requests) \in Nat /\ Len(answers) \in Nat
        /\ requests \o answers \in Seq(Esu!Request \cup Answer)
        /\ Len(requests \o answers) = Len(requests) + Len(answers)
    BY <1>1, LenProperties, ConcatProperties
  <1>3. requests \o answers = <<>> <=> Len(requests \o answers) = 0  BY <1>2, EmptySeq
  <1>4. requests = <<>> <=> Len(requests) = 0  BY <1>1, EmptySeq
  <1>5. answers = <<>> <=> Len(answers) = 0  BY <1>1, EmptySeq
  <1>6. Len(requests) + Len(answers) = 0 <=> Len(requests) = 0 /\ Len(answers) = 0  BY <1>2
  <1> QED  BY <1>2, <1>3, <1>4, <1>5, <1>6 DEF Esu!Busy

\* A session that ends or starts, or a press, while nothing is under way.
LEMMA IdleChain ==
    ASSUME WireInv, ChainInv, ~misled, ~Esu!Busy
    PROVE  requests = <<>> /\ answers = <<>> /\ powerMode = actual /\ ~spoiled
  <1>1. requests = <<>> /\ answers = <<>>  BY Idle
  <1>2. \A r, s : <<r>> # <<>> /\ <<r, s>> # <<>>  OBVIOUS
  <1> QED  BY <1>1, <1>2 DEF ChainInv

LEMMA SessionChain ==
    ASSUME WireInv, ChainInv, Esu!DropSession, UNCHANGED <<powerMode, actual, spoiled>>
    PROVE  ChainInv'
  <1> SUFFICES ASSUME ~misled' PROVE ~spoiled' /\ powerMode' = actual'
    BY DEF ChainInv, Esu!DropSession
  <1>1. ~misled /\ ~Esu!Busy  BY DEF Esu!DropSession, Esu!Busy
  <1> QED  BY <1>1, IdleChain

LEMMA PressChain ==
    ASSUME Esu!ProgrammerAssumption, WireInv, ChainInv, NEW frame \in Esu!Frames, Esu!Press(frame)
    PROVE  ChainInv'
  <1> SUFFICES ASSUME ~misled'
               PROVE  /\ ~spoiled'
                      /\ \E x : requests' = <<x>> /\ answers' = <<>> /\ Asked(x)'
    BY DEF ChainInv
  <1>1. PICK mode \in {"Enabled", "Service"} : requests' = requests \o Esu!PowerOn(frame, mode)
    BY DEF Esu!Press
  <1>2. ~misled /\ ~Esu!Busy /\ UNCHANGED <<powerMode, answers, actual, spoiled>>
    BY DEF Esu!Press
  <1>3. requests = <<>> /\ answers = <<>> /\ powerMode = actual /\ ~spoiled  BY <1>2, IdleChain
  <1>4. mode \in Esu!Modes /\ 0 \in 0..ListSize  BY DEF Esu!Modes, Esu!ProgrammerAssumption
  <1>5. PICK r : /\ r \in Esu!Request /\ r.what = "reset" /\ r.frame = frame /\ r.mode = mode
                 /\ Esu!Ask("reset", frame, mode) = <<r>>
    BY <1>4, ItemIs, AskIs
  <1>6. PICK c : /\ c \in Esu!Request /\ c.what = "command" /\ c.frame = frame /\ c.mode = mode
                 /\ Esu!FirstCommand(frame, mode) = <<c>>
    BY <1>4, FirstIs
  <1>7. CASE powerMode = mode
    <2>1. requests' = <<c>>  BY <1>1, <1>3, <1>6, <1>7 DEF Esu!PowerOn
    <2>2. Asked(c)'  BY <1>2, <1>3, <1>6, <1>7 DEF Asked
    <2> QED  BY <1>2, <1>3, <2>1, <2>2
  <1>8. CASE powerMode # mode
    <2>1. requests' = <<r>>  BY <1>1, <1>3, <1>5, <1>8 DEF Esu!PowerOn
    <2>2. Asked(r)'  BY <1>2, <1>3, <1>5 DEF Asked
    <2> QED  BY <1>2, <1>3, <2>1, <2>2
  <1> QED  BY <1>7, <1>8

LEMMA ExecuteChain ==
    ASSUME Esu!ProgrammerAssumption, WireInv, ChainInv, Esu!Execute
    PROVE  ChainInv'
  <1> SUFFICES ASSUME ~misled' PROVE ChainInv'
    BY DEF ChainInv
  <1>0. PICK h : h = Head(requests)  OBVIOUS
  <1>1. /\ requests # <<>> /\ requests' = Tail(requests) /\ powerMode' = powerMode
        /\ \/ /\ answers' = Append(answers, Reply(h, TRUE))
              /\ actual' = IF h.what \in {"power", "off"} THEN h.mode ELSE actual
              /\ spoiled' = (spoiled \/ (h.what = "command" /\ h.mode # actual))
              /\ misled' = misled
           \/ /\ h.what \in {"power", "acknowledge", "off"}
              /\ answers' = Append(answers, Reply(h, FALSE))
              /\ misled' = (misled \/ h.what = "acknowledge")
              /\ actual' = actual /\ spoiled' = spoiled
    BY <1>0, ExecuteIs
  <1>2. ~misled  BY <1>1
  <1>3. CASE \E r : requests = <<r>> /\ answers = <<>> /\ Asked(r)
    <2>1. PICK r : requests = <<r>> /\ answers = <<>> /\ Asked(r)  BY <1>3
    <2>2. h = r /\ requests' = <<>> /\ r \in Esu!Request  BY <1>0, <1>1, <2>1 DEF Asked
    <2>3. ASSUME NEW ok \in BOOLEAN, answers' = Append(answers, Reply(r, ok)),
                 ok => actual' = IF r.what \in {"power", "off"} THEN r.mode ELSE actual,
                 ~ok => r.what \in {"power", "off"} /\ actual' = actual,
                 ~spoiled'
          PROVE  ChainInv'
      <3>1. PICK b \in Answer : /\ b = Reply(r, ok) /\ b.what = r.what /\ b.frame = r.frame
                               /\ b.mode = r.mode /\ b.ok = ok
        BY <2>2, ReplyIs
      <3>2. answers' = <<b>>  BY <2>1, <2>3, <3>1
      <3>3. r.what \in {"reset", "power", "magic", "acknowledge", "command", "off"}
        BY <2>2 DEF Esu!Request
      <3>10. Answered(b)'
        <4>1. CASE r.what = "reset"
          BY <1>1, <2>1, <2>3, <3>1, <4>1 DEF Asked, Answered
        <4>2. CASE r.what = "power"
          BY <1>1, <2>1, <2>3, <3>1, <4>2 DEF Asked, Answered
        <4>3. CASE r.what = "magic"
          BY <1>1, <2>1, <2>3, <3>1, <4>3 DEF Asked, Answered
        <4>4. CASE r.what = "acknowledge"
          BY <1>1, <2>1, <2>3, <3>1, <4>4 DEF Asked, Answered
        <4>5. CASE r.what = "command"
          BY <1>1, <2>1, <2>3, <3>1, <4>5 DEF Asked, Answered
        <4>6. CASE r.what = "off"
          BY <1>1, <2>1, <2>3, <3>1, <4>6 DEF Asked, Answered
        <4> QED  BY <3>3, <4>1, <4>2, <4>3, <4>4, <4>5, <4>6
      <3> QED  BY <2>2, <2>3, <3>2, <3>10 DEF ChainInv
    <2>4. CASE /\ answers' = Append(answers, Reply(r, TRUE))
               /\ actual' = IF r.what \in {"power", "off"} THEN r.mode ELSE actual
               /\ spoiled' = (spoiled \/ (r.what = "command" /\ r.mode # actual))
      <3>1. ~spoiled'  BY <1>2, <2>1, <2>4 DEF ChainInv, Asked
      <3> QED  BY <2>3, <2>4, <3>1
    <2>5. CASE /\ r.what \in {"power", "acknowledge", "off"}
               /\ answers' = Append(answers, Reply(r, FALSE))
               /\ misled' = (misled \/ r.what = "acknowledge")
               /\ actual' = actual /\ spoiled' = spoiled
      <3>1. ~spoiled' /\ r.what \in {"power", "off"}  BY <1>2, <2>5 DEF ChainInv
      <3> QED  BY <2>3, <2>5, <3>1
    <2> QED  BY <1>1, <2>2, <2>4, <2>5
  <1>4. CASE \E r, s : requests = <<r, s>> /\ answers = <<>> /\ Silent(r) /\ Ordered(s)
    <2>1. PICK r, s : requests = <<r, s>> /\ answers = <<>> /\ Silent(r) /\ Ordered(s)  BY <1>4
    <2>2. h = r /\ requests' = <<s>> /\ r.what = "magic"  BY <1>0, <1>1, <2>1 DEF Silent
    <2>3. r \in Esu!Request
      <3>1. requests \in Seq(Esu!Request) /\ 1 \in DOMAIN requests /\ requests[1] = r
        BY <2>1 DEF WireInv
      <3> QED  BY <3>1, ElementOfSeq
    <2>4. PICK b : b = Reply(r, TRUE) /\ b.what = "magic" /\ b.frame = Esu!Nobody
      <3>1. Reply(r, TRUE).what = "magic" /\ Reply(r, TRUE).frame = Esu!Nobody
        BY <2>1, <2>2, <2>3, ReplyIs DEF Silent
      <3> QED  BY <3>1
    <2>5. answers' = Append(answers, b) /\ actual' = actual /\ ~spoiled'
      BY <1>1, <1>2, <2>2, <2>4 DEF ChainInv
    <2>6. answers' = <<b>>  BY <2>1, <2>5
    <2>7. Ordered(s)'  BY <1>1, <2>1, <2>5 DEF Ordered, Asked
    <2>8. Silent(b)  BY <2>4 DEF Silent
    <2> QED  BY <1>2, <2>2, <2>5, <2>6, <2>7, <2>8 DEF ChainInv
  <1>5. CASE \E a, s : requests = <<s>> /\ answers = <<a>> /\ Silent(a) /\ Ordered(s)
    <2>1. PICK a, s : requests = <<s>> /\ answers = <<a>> /\ Silent(a) /\ Ordered(s)  BY <1>5
    <2>2. h = s /\ requests' = <<>> /\ s.what = "acknowledge" /\ s \in Esu!Request
      BY <1>0, <1>1, <2>1 DEF Ordered, Asked
    <2>3. PICK b \in Answer : /\ b = Reply(s, TRUE) /\ b.what = "acknowledge"
                             /\ b.frame = s.frame /\ b.mode = s.mode /\ b.ok = TRUE
      BY <2>2, ReplyIs
    <2>4. answers' = Append(answers, b) /\ actual' = actual /\ ~spoiled'
      BY <1>1, <1>2, <2>2, <2>3 DEF ChainInv
    <2>5. a \in Answer
      <3>1. answers \in Seq(Answer) /\ 1 \in DOMAIN answers /\ answers[1] = a
        BY <2>1 DEF WireInv
      <3> QED  BY <3>1, ElementOfSeq
    <2>6. answers' = <<a, b>>  BY <2>1, <2>3, <2>4, <2>5, Pair
    <2>7. Answered(b)'  BY <1>1, <2>1, <2>2, <2>3, <2>4 DEF Ordered, Asked, Answered
    <2> QED  BY <1>2, <2>1, <2>2, <2>3, <2>4, <2>6, <2>7 DEF ChainInv
  <1> QED  BY <1>1, <1>2, <1>3, <1>4, <1>5 DEF ChainInv

\* Silent answers change nothing.
LEMMA SilentIs ==
    ASSUME NEW a, Silent(a)
    PROVE  Esu!Callback(a) = Esu!Then(<<>>, powerMode, FALSE)
  BY DEF Silent, Esu!Callback

\* What the callback of an answer leads to.
LEMMA CallbackChain ==
    ASSUME Esu!ProgrammerAssumption, WireInv, NEW a, Answered(a), answers' = <<>>,
           NEW t, t = Esu!Callback(a), requests' = t.more, powerMode' = t.mode, actual' = actual
    PROVE  \/ requests' = <<>> /\ powerMode' = actual'
           \/ \E r : requests' = <<r>> /\ Asked(r)'
           \/ \E r, s : requests' = <<r, s>> /\ Silent(r) /\ Ordered(s)'
  <1>0. PICK f, m : f = a.frame /\ m = a.mode  OBVIOUS
  <1>1. /\ a.what \in {"reset", "power", "magic", "acknowledge", "command", "off"}
        /\ f \in Esu!Frames /\ m \in Esu!Modes /\ a.left \in 0..ListSize
        /\ a.ok \in BOOLEAN /\ ListSize \in Nat /\ powerMode \in Esu!Modes /\ f # Esu!Nobody
    BY <1>0 DEF Answered, Answer, Esu!ProgrammerAssumption, WireInv, Esu!Frames, Esu!Nobody
  <1>2. 0 \in 0..ListSize /\ {"Enabled", "Disabled", "Service"} \subseteq Esu!Modes
    BY <1>1 DEF Esu!Modes
  <1>3. \A more, mode, done : t = Esu!Then(more, mode, done) => t.more = more /\ t.mode = mode
    BY DEF Esu!Then
  <1>4. t = Esu!GiveUp => requests' = <<>> /\ powerMode' = powerMode
    BY <1>3 DEF Esu!GiveUp
  <1>5. ASSUME NEW what \in {"power", "magic", "acknowledge", "off"}, NEW frame \in {f, Esu!Nobody},
               NEW mode \in Esu!Modes
        PROVE  \E r \in Esu!Request : /\ Esu!Ask(what, frame, mode) = <<r>> /\ r.what = what
                                      /\ r.frame = frame /\ r.mode = mode
    <2>1. frame \in Esu!Frames \cup {Esu!Nobody} /\ 0 \in 0..ListSize  BY <1>1, <1>2
    <2>2. /\ Item(what, frame, mode, 0) \in Esu!Request /\ Item(what, frame, mode, 0).what = what
          /\ Item(what, frame, mode, 0).frame = frame /\ Item(what, frame, mode, 0).mode = mode
      <3>1. what \in {"reset", "power", "magic", "acknowledge", "command", "off"}  OBVIOUS
      <3> QED  BY <2>1, <3>1, ItemIs
    <2>3. Esu!Ask(what, frame, mode) = <<Item(what, frame, mode, 0)>>  BY AskIs
    <2> QED  BY <2>2, <2>3
  <1>6. CASE a.what = "reset"
    <2>1. PICK r \in Esu!Request : /\ Esu!Ask("power", f, m) = <<r>> /\ r.frame = f /\ r.mode = m
                                   /\ r.what = "power"
      BY <1>1, <1>5
    <2>2. t = Esu!Then(<<r>>, powerMode, FALSE)  BY <1>0, <1>1, <1>6, <2>1 DEF Esu!Callback
    <2>3. requests' = <<r>> /\ powerMode' = powerMode  BY <1>3, <2>2
    <2>4. Asked(r)'  BY <1>0, <1>1, <1>6, <2>1, <2>3 DEF Asked, Answered
    <2> QED  BY <2>3, <2>4
  <1>7. CASE a.what = "power"
    <2>0. t = IF a.ok THEN Esu!PowerAnswered(f, m) ELSE Esu!GiveUp  BY <1>0, <1>1, <1>7 DEF Esu!Callback
    <2>1. CASE ~a.ok
      <3>1. requests' = <<>> /\ powerMode' = powerMode  BY <1>4, <2>0, <2>1
      <3> QED  BY <1>7, <2>1, <3>1 DEF Answered
    <2>2. CASE a.ok /\ m = "Enabled"
      <3>1. PICK r \in Esu!Request : /\ Esu!Ask("magic", f, m) = <<r>> /\ r.frame = f /\ r.mode = m
                                     /\ r.what = "magic"
        BY <1>1, <1>5
      <3>2. t = Esu!Then(<<r>>, powerMode, FALSE)  BY <2>0, <2>2, <3>1 DEF Esu!PowerAnswered
      <3>3. requests' = <<r>>  BY <1>3, <3>2
      <3>4. Asked(r)'  BY <1>0, <1>1, <1>7, <2>2, <3>1 DEF Asked, Answered
      <3> QED  BY <3>3, <3>4
    <2>3. CASE a.ok /\ m # "Enabled"
      <3>1. PICK n \in Esu!Request : /\ Esu!Ask("magic", Esu!Nobody, m) = <<n>> /\ n.frame = Esu!Nobody
                                     /\ n.what = "magic"
        BY <1>1, <1>5
      <3>2. PICK r \in Esu!Request : /\ Esu!Ask("acknowledge", f, m) = <<r>> /\ r.frame = f /\ r.mode = m
                                     /\ r.what = "acknowledge"
        BY <1>1, <1>5
      <3>3. t = Esu!Then(<<n>> \o <<r>>, powerMode, FALSE)  BY <2>0, <2>3, <3>1, <3>2 DEF Esu!PowerAnswered
      <3>4. requests' = <<n, r>>  BY <1>3, <3>3, Pair
      <3>5. m = "Service" /\ actual = "Service"  BY <1>0, <1>7, <2>3 DEF Answered
      <3>6. Ordered(r)'  BY <1>1, <3>2, <3>5 DEF Ordered, Asked
      <3>7. Silent(n)  BY <3>1 DEF Silent
      <3> QED  BY <3>4, <3>6, <3>7
    <2> QED  BY <2>1, <2>2, <2>3
  <1>8. CASE a.what \in {"magic", "acknowledge"}
    <2>1. t = Esu!Then(Esu!FirstCommand(f, m), m, FALSE) /\ actual = m
      BY <1>0, <1>1, <1>8 DEF Esu!Callback, Answered
    <2>2. PICK c \in Esu!Request : /\ Esu!FirstCommand(f, m) = <<c>> /\ c.what = "command" /\ c.frame = f
                                   /\ c.mode = m
      BY <1>1, FirstIs
    <2>3. requests' = <<c>> /\ powerMode' = m  BY <1>3, <2>1, <2>2
    <2>4. Asked(c)'  BY <1>1, <2>1, <2>2, <2>3 DEF Asked
    <2> QED  BY <2>3, <2>4
  <1>9. CASE a.what = "command"
    <2>0. t = Esu!CommandAnswered(f, m, a.left) /\ powerMode = m /\ actual = m
      BY <1>0, <1>1, <1>9 DEF Esu!Callback, Answered
    <2>1. CASE a.left > 1
      <3>1. a.left - 1 \in 0..ListSize  BY <1>1, <2>1
      <3>2. PICK r \in Esu!Request : /\ Esu!Command(f, m, a.left - 1) = <<r>> /\ r.frame = f /\ r.mode = m
                                     /\ r.what = "command"
        <4> DEFINE x == Item("command", f, m, a.left - 1)
        <4>1. x \in Esu!Request /\ x.frame = f /\ x.mode = m /\ x.what = "command"
          BY <1>1, <3>1, ItemIs
        <4>2. Esu!Command(f, m, a.left - 1) = <<x>>  BY AskIs
        <4> HIDE DEF x
        <4> QED  BY <4>1, <4>2
      <3>3. t = Esu!Then(<<r>>, powerMode, FALSE)  BY <2>0, <2>1, <3>2 DEF Esu!CommandAnswered
      <3>4. requests' = <<r>> /\ powerMode' = powerMode  BY <1>3, <3>3
      <3>5. Asked(r)'  BY <1>1, <2>0, <3>2, <3>4 DEF Asked
      <3> QED  BY <3>4, <3>5
    <2>2. CASE ~(a.left > 1) /\ (f = "usart" \/ programming)
      <3>1. PICK r \in Esu!Request : /\ Esu!Ask("off", f, "Disabled") = <<r>> /\ r.frame = f
                                     /\ r.mode = "Disabled" /\ r.what = "off"
        BY <1>2, <1>5
      <3>2. t = Esu!Then(<<r>>, powerMode, FALSE)  BY <2>0, <2>2, <3>1 DEF Esu!CommandAnswered
      <3>3. requests' = <<r>> /\ powerMode' = powerMode  BY <1>3, <3>2
      <3>4. Asked(r)'  BY <1>1, <2>0, <3>1, <3>3 DEF Asked
      <3> QED  BY <3>3, <3>4
    <2>3. CASE ~(a.left > 1) /\ ~(f = "usart" \/ programming)
      <3>1. t = Esu!Then(<<>>, powerMode, TRUE)  BY <2>0, <2>3 DEF Esu!CommandAnswered
      <3>2. requests' = <<>> /\ powerMode' = powerMode  BY <1>3, <3>1
      <3> QED  BY <2>0, <3>2
    <2> QED  BY <2>1, <2>2, <2>3
  <1>10. CASE a.what = "off"
    <2>0. t = Esu!OffAnswered(a.ok)  BY <1>0, <1>1, <1>10 DEF Esu!Callback
    <2>1. CASE ~a.ok
      <3>1. requests' = <<>> /\ powerMode' = powerMode  BY <1>4, <2>0, <2>1 DEF Esu!OffAnswered
      <3> QED  BY <1>10, <2>1, <3>1 DEF Answered
    <2>2. CASE a.ok
      <3>1. t = Esu!Then(<<>>, "Disabled", TRUE)  BY <2>0, <2>2 DEF Esu!OffAnswered
      <3>2. requests' = <<>> /\ powerMode' = "Disabled"  BY <1>3, <3>1
      <3> QED  BY <1>10, <2>2, <3>2 DEF Answered
    <2> QED  BY <2>1, <2>2
  <1> QED  BY <1>1, <1>6, <1>7, <1>8, <1>9, <1>10

LEMMA ReceiveChain ==
    ASSUME Esu!ProgrammerAssumption, WireInv, ChainInv, Esu!Receive
    PROVE  ChainInv'
  <1> SUFFICES ASSUME ~misled PROVE ChainInv'
    BY DEF ChainInv, Esu!Receive
  <1>0. PICK h, t : h = Head(answers) /\ t = Esu!Callback(h)  OBVIOUS
  <1>1. /\ answers # <<>> /\ answers' = Tail(answers) /\ requests' = requests \o t.more
        /\ powerMode' = t.mode /\ actual' = actual /\ spoiled' = spoiled /\ misled' = misled
    BY <1>0 DEF Esu!Receive
  <1>2. ~spoiled'  BY <1>1 DEF ChainInv
  <1>3. Silent(h) => requests' = requests \o <<>> /\ powerMode' = powerMode
    <2> SUFFICES ASSUME Silent(h) PROVE requests' = requests \o <<>> /\ powerMode' = powerMode
      OBVIOUS
    <2>1. t = Esu!Then(<<>>, powerMode, FALSE)  BY <1>0, SilentIs
    <2>2. t.more = <<>> /\ t.mode = powerMode  BY <2>1 DEF Esu!Then
    <2> QED  BY <1>1, <2>2
  <1>4. CASE \E a : requests = <<>> /\ answers = <<a>> /\ Answered(a)
    <2>1. PICK a : requests = <<>> /\ answers = <<a>> /\ Answered(a)  BY <1>4
    <2>2. h = a /\ answers' = <<>>  BY <1>0, <1>1, <2>1
    <2>3. t.more \in Seq(Esu!Request)
      <3>1. a \in Answer /\ a.frame \in Esu!Frames /\ Plausible(a)
        BY <2>1 DEF Answered, Plausible, Esu!Frames, Esu!Nobody
      <3>2. CallbackOf(a, Esu!Callback(a))  BY <3>1, AnsweredAlone
      <3>5. CallbackOf(a, t)  BY <1>0, <2>2, <3>2
      <3>3. CASE t.done
        <4>1. t.more = <<>>  BY <3>1, <3>3, <3>5 DEF CallbackOf
        <4> QED  BY <4>1
      <3>4. CASE ~t.done  BY <3>1, <3>5, <3>4 DEF CallbackOf, Asking
      <3>6. t.done \in BOOLEAN  BY <3>5 DEF CallbackOf
      <3> QED  BY <3>3, <3>4, <3>6
    <2>4. requests' = t.more
      <3> DEFINE s == t.more
      <3>1. s \in Seq(Esu!Request)  BY <2>3
      <3>2. requests' = <<>> \o s  BY <1>1, <2>1
      <3> HIDE DEF s
      <3>3. <<>> \o s = s  BY <3>1, ConcatEmptySeq
      <3> QED  BY <3>2, <3>3 DEF s
    <2>5. t = Esu!Callback(a)  BY <1>0, <2>2
    <2>6. \/ requests' = <<>> /\ powerMode' = actual'
          \/ \E r : requests' = <<r>> /\ Asked(r)'
          \/ \E r, s : requests' = <<r, s>> /\ Silent(r) /\ Ordered(s)'
      BY <1>1, <2>1, <2>2, <2>4, <2>5, CallbackChain
    <2> QED  BY <1>2, <2>2, <2>6 DEF ChainInv, Silent
  <1>5. CASE \E a, s : requests = <<s>> /\ answers = <<a>> /\ Silent(a) /\ Ordered(s)
    <2>1. PICK a, s : requests = <<s>> /\ answers = <<a>> /\ Silent(a) /\ Ordered(s)  BY <1>5
    <2>2. h = a /\ answers' = <<>>  BY <1>0, <1>1, <2>1
    <2>3. requests' = <<s>> \o <<>> /\ powerMode' = powerMode  BY <1>3, <2>1, <2>2
    <2>4. s \in Esu!Request  BY <2>1 DEF Ordered, Asked
    <2>5. requests' = <<s>>  BY <2>3, <2>4
    <2>6. Asked(s)'  BY <1>1, <2>1, <2>3 DEF Ordered, Asked
    <2> QED  BY <1>2, <2>2, <2>5, <2>6 DEF ChainInv
  <1>6. CASE \E a, b : requests = <<>> /\ answers = <<a, b>> /\ Silent(a)
                       /\ b.what = "acknowledge" /\ Answered(b)
    <2>1. PICK a, b : requests = <<>> /\ answers = <<a, b>> /\ Silent(a)
                      /\ b.what = "acknowledge" /\ Answered(b)
      BY <1>6
    <2>2. h = a /\ answers' = <<b>>  BY <1>0, <1>1, <2>1
    <2>3. requests' = <<>> \o <<>> /\ powerMode' = powerMode  BY <1>3, <2>1, <2>2
    <2>4. requests' = <<>>  BY <2>3
    <2>5. Answered(b)'  BY <1>1, <2>1, <2>3 DEF Answered
    <2> QED  BY <1>2, <2>2, <2>4, <2>5 DEF ChainInv
  <1> QED  BY <1>1, <1>4, <1>5, <1>6 DEF ChainInv

-----------------------------------------------------------------------------
(* The invariant.                                                            *)

LEMMA ProgrammerInit == Esu!Init => ProgrammerInv
  <1> SUFFICES ASSUME Esu!Init PROVE ProgrammerInv
    OBVIOUS
  <1>1. requests \in Seq(Esu!Request) /\ answers \in Seq(Answer) /\ DOMAIN <<>> = {}  BY DEF Esu!Init
  <1>2. WireInv  BY <1>1 DEF Esu!Init, WireInv, Esu!Modes
  <1>3. AwaitInv  BY DEF Esu!Init, AwaitInv, Esu!State
  <1>4. ChainInv  BY DEF Esu!Init, ChainInv
  <1> QED  BY <1>2, <1>3, <1>4 DEF ProgrammerInv

LEMMA ProgrammerStep ==
    ASSUME Esu!ProgrammerAssumption, ProgrammerInv, [Esu!Next]_Esu!vars
    PROVE  ProgrammerInv'
  <1>0. WireInv /\ AwaitInv /\ ChainInv  BY DEF ProgrammerInv
  <1>1. CASE Esu!Connect
    <2>1. /\ requests' = <<>> /\ answers' = <<>> /\ enabled' = Esu!FramesFor(Esu!State')
          /\ UNCHANGED <<powerMode, programming, actual, spoiled>> /\ Esu!DropSession
      BY <1>1 DEF Esu!Connect, Esu!DropSession
    <2>2. failed' \in BOOLEAN /\ port' \in {"none", "closed", "open"}
      BY <1>0, <1>1 DEF Esu!Connect, WireInv
    <2>3. enabled' \subseteq Esu!Frames  BY <2>1 DEF Esu!FramesFor
    <2>4. requests' \in Seq(Esu!Request) /\ answers' \in Seq(Answer) /\ DOMAIN <<>> = {}  BY <2>1
    <2>5. WireInv'  BY <1>0, <2>1, <2>2, <2>3, <2>4 DEF WireInv
    <2> QED  BY <1>0, <2>1, <2>5, SessionAwait, SessionChain DEF ProgrammerInv
  <1>2. CASE Esu!Disconnect
    <2>1. /\ requests' = <<>> /\ answers' = <<>> /\ enabled' = {} /\ port' = "none"
          /\ UNCHANGED <<failed, powerMode, programming, actual, spoiled>> /\ Esu!DropSession
      BY <1>2 DEF Esu!Disconnect, Esu!DropSession
    <2>2. Esu!State' # "Connected"  BY <2>1 DEF Esu!State
    <2>4. requests' \in Seq(Esu!Request) /\ answers' \in Seq(Answer) /\ DOMAIN <<>> = {}  BY <2>1
    <2>5. WireInv'  BY <1>0, <2>1, <2>4 DEF WireInv
    <2> QED  BY <1>0, <2>1, <2>2, <2>5, SessionAwait, SessionChain DEF ProgrammerInv
  <1>3. CASE Esu!Toggle
    <2>1. /\ programming' = ~programming
          /\ UNCHANGED <<port, failed, powerMode, enabled, requests, answers, actual, misled, spoiled>>
      BY <1>3 DEF Esu!Toggle, Esu!link
    <2>2. WireInv'  BY <1>0, <2>1 DEF WireInv
    <2>3. AwaitInv'  BY <1>0, <2>1 DEF AwaitInv, Esu!State, Esu!Of, Esu!Awaited
    <2>4. ChainInv'  BY <1>0, <2>1 DEF ChainInv, Asked, Ordered, Answered
    <2> QED  BY <2>2, <2>3, <2>4 DEF ProgrammerInv
  <1>4. CASE Esu!Execute
    BY <1>0, <1>4, ExecuteAwait, ExecuteChain DEF ProgrammerInv
  <1>5. CASE Esu!Receive
    BY <1>0, <1>5, ReceiveAwait, ReceiveChain DEF ProgrammerInv
  <1>6. ASSUME NEW frame \in Esu!Frames, Esu!Press(frame) PROVE ProgrammerInv'
    <2>1. AwaitInv' /\ requests' \in Seq(Esu!Request) /\ \A i \in DOMAIN requests' : Plausible(requests'[i])
      BY <1>0, <1>6, PressAwait
    <2>2. /\ enabled' = enabled \ {frame}
          /\ UNCHANGED <<port, failed, powerMode, programming, answers, actual>>
      BY <1>6 DEF Esu!Press, Esu!link
    <2>3. WireInv'  BY <1>0, <2>1, <2>2 DEF WireInv
    <2> QED  BY <1>0, <1>6, <2>1, <2>3, PressChain DEF ProgrammerInv
  <1>7. CASE UNCHANGED Esu!vars
    <2>1. UNCHANGED <<port, failed, powerMode, enabled, programming, requests, answers, actual,
                      misled, spoiled>>
      BY <1>7 DEF Esu!vars, Esu!link
    <2>2. WireInv'  BY <1>0, <2>1 DEF WireInv
    <2>3. AwaitInv'  BY <1>0, <2>1 DEF AwaitInv, Esu!State, Esu!Of, Esu!Awaited
    <2>4. ChainInv'  BY <1>0, <2>1 DEF ChainInv, Asked, Ordered, Answered
    <2> QED  BY <2>2, <2>3, <2>4 DEF ProgrammerInv
  <1> QED  BY <1>1, <1>2, <1>3, <1>4, <1>5, <1>6, <1>7 DEF Esu!Next

LEMMA ProgrammerImplies ==
    ASSUME ProgrammerInv
    PROVE  Esu!CommandsAreDone
  <1>0. WireInv /\ AwaitInv /\ ChainInv  BY DEF ProgrammerInv
  <1>1. ASSUME ~misled PROVE ~spoiled /\ (Esu!Busy \/ powerMode = actual)
    <2>1. CASE Esu!Busy  BY <1>0, <1>1, <2>1 DEF ChainInv
    <2>2. CASE ~Esu!Busy  BY <1>0, <1>1, <2>2, IdleChain
    <2> QED  BY <2>1, <2>2
  <1>2. Esu!State = "Connected" => \A f \in Esu!Frames \ enabled : Esu!Awaited(f)
    BY <1>0 DEF AwaitInv
  <1> QED  BY <1>1, <1>2 DEF Esu!CommandsAreDone

\* Commands that did not overlap are done in the power mode they need, and leave the app
\* with the right idea of it; a frame that is disabled has one request that will end that.
THEOREM CommandsDone ==
    ASSUME Esu!ProgrammerAssumption
    PROVE  Esu!Spec => []Esu!CommandsAreDone
  <1>1. Esu!Init => ProgrammerInv  BY ProgrammerInit
  <1>2. ProgrammerInv /\ [Esu!Next]_Esu!vars => ProgrammerInv'  BY ProgrammerStep
  <1>3. ProgrammerInv => Esu!CommandsAreDone  BY ProgrammerImplies
  <1> QED  BY <1>1, <1>2, <1>3, PTL DEF Esu!Spec

-----------------------------------------------------------------------------
(* Reports of detectors: what a port tells of a train, and what is made of   *)
(* its messages.                                                             *)

State == [occupancy : {"invalid", "occupied", "free"}, sets : Seq(Detectors!VehicleSet)]

OccupancyOf(train) == IF Detectors!Occupied(train) THEN "occupied" ELSE "free"

\* The first n messages of the report of a train were taken.
Collected(s, train, n) ==
    /\ s.occupancy = OccupancyOf(train)
    /\ n > 1 => s.sets = [i \in 1 .. (n - 1) |-> Detectors!SetsOf(train)[i]]

LEMMA SetsShape ==
    ASSUME Detectors!CanAssumption, NEW t \in Detectors!AllTrains
    PROVE  /\ Detectors!Vehicles(t) \in Seq(Nat \ {0}) /\ Len(Detectors!Vehicles(t)) \in Nat
           /\ Detectors!SetsOf(t) \in Seq(Detectors!VehicleSet)
           /\ Len(Detectors!SetsOf(t)) = (Len(Detectors!Vehicles(t)) \div 2) + 1
           /\ Len(Detectors!SetsOf(t)) \in Nat \ {0}
           /\ DOMAIN Detectors!SetsOf(t) = 1 .. Len(Detectors!SetsOf(t))
           /\ \A n \in 1 .. Len(Detectors!SetsOf(t)) :
                  Detectors!SetsOf(t)[n] =
                      [type |-> n, vehicle1 |-> Detectors!At(Detectors!Vehicles(t), 2 * n - 1),
                       vehicle2 |-> Detectors!At(Detectors!Vehicles(t), 2 * n)]
  <1> DEFINE list == Detectors!Vehicles(t)
             last == (Len(list) \div 2) + 1
             SetNumber(n) == [type |-> n, vehicle1 |-> Detectors!At(list, 2 * n - 1),
                              vehicle2 |-> Detectors!At(list, 2 * n)]
  <1>1. list \in Seq(Nat \ {0})
    BY EmptySeq DEF Detectors!CanAssumption, Detectors!AllTrains, Detectors!Vehicles,
       Detectors!NoVehicle
  <1>2. Len(list) \in Nat  BY <1>1, LenProperties
  <1>3. last \in Nat \ {0}  BY <1>2
  <1>4. Detectors!SetsOf(t) = [n \in 1 .. last |-> SetNumber(n)]  BY DEF Detectors!SetsOf
  <1> HIDE DEF list
  <1>5. ASSUME NEW n \in 1 .. last
        PROVE  SetNumber(n) \in Detectors!VehicleSet
    <2>1. ASSUME NEW i \in Nat \ {0} PROVE Detectors!At(list, i) \in Nat
      <3>1. CASE i <= Len(list)  BY <1>1, <1>2, <2>1, <3>1, ElementOfSeq DEF Detectors!At
      <3>2. CASE ~(i <= Len(list))  BY <3>2 DEF Detectors!At, Detectors!NoVehicle
      <3> QED  BY <3>1, <3>2
    <2>2. 2 * n - 1 \in Nat \ {0} /\ 2 * n \in Nat \ {0} /\ n \in Nat \ {0}  BY <1>3, <1>5
    <2> QED  BY <2>1, <2>2 DEF Detectors!VehicleSet
  <1> HIDE DEF SetNumber, last
  <1>6. [n \in 1 .. last |-> SetNumber(n)] \in Seq(Detectors!VehicleSet)
        /\ Len([n \in 1 .. last |-> SetNumber(n)]) = last
    BY <1>3, <1>5
  <1> QED  BY <1>1, <1>2, <1>3, <1>4, <1>6 DEF SetNumber, last, list

LEMMA ReportShape ==
    ASSUME Detectors!CanAssumption, NEW t \in Detectors!AllTrains
    PROVE  /\ Detectors!Report(t) \in Seq(Detectors!Message)
           /\ Len(Detectors!Report(t)) = Len(Detectors!SetsOf(t)) + 1
           /\ Len(Detectors!Report(t)) \in Nat /\ Len(Detectors!Report(t)) >= 2
           /\ Detectors!Report(t)[1] = [type |-> 0, occupied |-> Detectors!Occupied(t)]
           /\ \A n \in 2 .. Len(Detectors!Report(t)) :
                  Detectors!Report(t)[n] = Detectors!SetsOf(t)[n - 1]
  <1> DEFINE first == <<[type |-> 0, occupied |-> Detectors!Occupied(t)]>>
             sets == Detectors!SetsOf(t)
  <1>1. first \in Seq(Detectors!Message) /\ Len(first) = 1
        /\ first[1] = [type |-> 0, occupied |-> Detectors!Occupied(t)]
    BY DEF Detectors!Message, Detectors!Occupied
  <1>2. sets \in Seq(Detectors!Message) /\ Len(sets) \in Nat \ {0}
    BY SetsShape, SeqMonotonic DEF Detectors!Message
  <1>3. Detectors!Report(t) = first \o sets  BY DEF Detectors!Report
  <1> HIDE DEF first, sets
  <1>4. /\ first \o sets \in Seq(Detectors!Message)
        /\ Len(first \o sets) = Len(first) + Len(sets)
        /\ \A i \in 1 .. Len(first) + Len(sets) :
               (first \o sets)[i] = IF i <= Len(first) THEN first[i] ELSE sets[i - Len(first)]
    BY <1>1, <1>2, ConcatProperties
  <1> QED  BY <1>1, <1>2, <1>3, <1>4 DEF sets

\* Each message adds to what was collected of its report.
LEMMA TakeStep ==
    ASSUME Detectors!CanAssumption, NEW t \in Detectors!AllTrains, NEW s \in State,
           NEW n \in 1 .. Len(Detectors!Report(t)), n > 1 => Collected(s, t, n - 1)
    PROVE  LET new == Detectors!With(s, Detectors!Report(t)[n])
           IN  Collected(new, t, n) /\ (n = 1 => new.sets = s.sets)
  <1> DEFINE m == Detectors!Report(t)[n]
             new == Detectors!With(s, m)
             sets == Detectors!SetsOf(t)
  <1>1. /\ Len(Detectors!Report(t)) = Len(sets) + 1 /\ Len(sets) \in Nat
        /\ sets \in Seq(Detectors!VehicleSet)
    BY ReportShape, SetsShape
  <1>2. CASE n = 1
    <2>1. m = [type |-> 0, occupied |-> Detectors!Occupied(t)]  BY <1>2, ReportShape
    <2>2. new = [s EXCEPT !.occupancy = OccupancyOf(t)]
      BY <2>1 DEF Detectors!With, OccupancyOf
    <2>3. new.occupancy = OccupancyOf(t) /\ new.sets = s.sets  BY <2>2 DEF State
    <2> QED  BY <1>2, <2>3 DEF Collected
  <1>3. CASE n > 1
    <2>1. m = sets[n - 1] /\ n - 1 \in 1 .. Len(sets)
      <3>1. n \in 2 .. Len(Detectors!Report(t)) /\ n - 1 \in 1 .. Len(sets)  BY <1>1, <1>3
      <3>2. \A i \in 2 .. Len(Detectors!Report(t)) :
                Detectors!Report(t)[i] = Detectors!SetsOf(t)[i - 1]
        BY ReportShape
      <3> QED  BY <3>1, <3>2
    <2>2. m.type = n - 1 /\ m \in Detectors!VehicleSet
      <3>1. sets[n - 1] \in Detectors!VehicleSet  BY <1>1, <2>1, ElementOfSeq
      <3>2. sets[n - 1].type = n - 1
        <4> DEFINE k == n - 1
        <4>1. k \in 1 .. Len(sets)  BY <2>1
        <4> HIDE DEF k
        <4>2. \A i \in 1 .. Len(sets) :
                  sets[i] = [type |-> i,
                             vehicle1 |-> Detectors!At(Detectors!Vehicles(t), 2 * i - 1),
                             vehicle2 |-> Detectors!At(Detectors!Vehicles(t), 2 * i)]
          BY SetsShape
        <4>3. sets[k] = [type |-> k,
                         vehicle1 |-> Detectors!At(Detectors!Vehicles(t), 2 * k - 1),
                         vehicle2 |-> Detectors!At(Detectors!Vehicles(t), 2 * k)]
          BY <4>1, <4>2, Zenon
        <4>4. sets[k].type = k  BY <4>3
        <4> QED  BY <4>4 DEF k
      <3> QED  BY <2>1, <3>1, <3>2
    <2>3. s.occupancy = OccupancyOf(t) /\ (n > 2 => s.sets = [i \in 1 .. (n - 2) |-> sets[i]])
      BY <1>3 DEF Collected
    <2>4. CASE n = 2
      <3>1. new = [s EXCEPT !.sets = <<m>>]  BY <2>2, <2>4 DEF Detectors!With
      <3>2. new.sets = <<m>> /\ new.occupancy = s.occupancy  BY <3>1 DEF State
      <3>3. <<m>> = [i \in 1 .. (n - 1) |-> sets[i]]
        <4>1. m = sets[1]  BY <2>1, <2>4
        <4>2. 1 .. (n - 1) = {1} /\ \A i \in 1 .. (n - 1) : i = 1  BY <2>4
        <4>3. <<m>> \in [{1} -> {m}] /\ <<m>>[1] = m  OBVIOUS
        <4> QED  BY <4>1, <4>2, <4>3
      <3> QED  BY <1>3, <2>3, <3>2, <3>3 DEF Collected
    <2>5. CASE n > 2
      <3>1. new = [s EXCEPT !.sets = Append(s.sets, m)]  BY <2>2, <2>5 DEF Detectors!With
      <3>2. new.sets = Append(s.sets, m) /\ new.occupancy = s.occupancy  BY <3>1 DEF State
      <3>3. s.sets \in Seq(Detectors!VehicleSet)  BY DEF State
      <3>4. s.sets = [i \in 1 .. (n - 2) |-> sets[i]] /\ n - 2 \in Nat  BY <2>3, <2>5
      <3>5. Len(s.sets) = n - 2  BY <3>3, <3>4, LenProperties
      <3>6. /\ Append(s.sets, m) \in Seq(Detectors!VehicleSet) /\ Len(Append(s.sets, m)) = n - 1
            /\ \A i \in 1 .. (n - 1) : Append(s.sets, m)[i] = IF i = n - 1 THEN m ELSE s.sets[i]
        BY <2>2, <3>3, <3>4, <3>5, AppendProperties
      <3>7. Append(s.sets, m) = [i \in 1 .. (n - 1) |-> Append(s.sets, m)[i]]
        BY <3>6, LenProperties
      <3>8. \A i \in 1 .. (n - 1) : Append(s.sets, m)[i] = sets[i]
        <4> SUFFICES ASSUME NEW i \in 1 .. (n - 1) PROVE Append(s.sets, m)[i] = sets[i]
          OBVIOUS
        <4>1. CASE i = n - 1  BY <2>1, <3>6, <4>1
        <4>2. CASE i # n - 1
          <5>1. i \in 1 .. (n - 2)  BY <4>2
          <5> QED  BY <3>4, <3>6, <4>2, <5>1
        <4> QED  BY <4>1, <4>2
      <3>9. Append(s.sets, m) = [i \in 1 .. (n - 1) |-> sets[i]]  BY <3>7, <3>8
      <3> QED  BY <1>3, <2>3, <3>2, <3>9 DEF Collected
    <2> QED  BY <1>3, <2>4, <2>5
  <1> QED  BY <1>2, <1>3

\* A state stays one, whatever message comes.
LEMMA WithIsState ==
    ASSUME NEW s \in State, NEW m \in Detectors!Message
    PROVE  Detectors!With(s, m) \in State
  <1>1. s.sets \in Seq(Detectors!VehicleSet)  BY DEF State
  <1>2. CASE m.type = 0  BY <1>2 DEF State, Detectors!With
  <1>3. ASSUME m.type # 0 PROVE m \in Detectors!VehicleSet
    BY <1>3 DEF Detectors!Message
  <1>4. CASE m.type = 1
    <2>1. <<m>> \in Seq(Detectors!VehicleSet)  BY <1>3, <1>4
    <2>2. Detectors!With(s, m) = [s EXCEPT !.sets = <<m>>]  BY <1>4 DEF Detectors!With
    <2> QED  BY <2>1, <2>2 DEF State
  <1>5. CASE m.type # 0 /\ m.type # 1
    <2>1. Append(s.sets, m) \in Seq(Detectors!VehicleSet)  BY <1>1, <1>3, <1>5, AppendProperties
    <2>2. Detectors!With(s, m) = [s EXCEPT !.sets = Append(s.sets, m)]
      BY <1>5 DEF Detectors!With
    <2> QED  BY <2>1, <2>2 DEF State
  <1> QED  BY <1>2, <1>4, <1>5

\* Places within pairs.
LEMMA Halves ==
    ASSUME NEW place \in Nat \ {0}
    PROVE  /\ (place + 1) \div 2 \in Nat \ {0}
           /\ place % 2 = 1 => 2 * ((place + 1) \div 2) - 1 = place
           /\ place % 2 # 1 => 2 * ((place + 1) \div 2) = place
           /\ 2 * ((place + 1) \div 2) - 1 <= place
           /\ \A n \in Nat : place <= 2 * n => (place + 1) \div 2 <= n
  OBVIOUS

\* The places of a whole report hold the vehicles of the train, one after the other.
LEMMA PlacesOfReport ==
    ASSUME Detectors!CanAssumption, NEW t \in Detectors!AllTrains
    PROVE  LET sets == Detectors!SetsOf(t)
               list == Detectors!Vehicles(t)
           IN  /\ Detectors!Taken(sets) = 1 .. Len(list)
               /\ \A place \in 1 .. Len(list) : Detectors!VehicleAt(sets, place) = list[place]
  <1> DEFINE sets == Detectors!SetsOf(t)
             list == Detectors!Vehicles(t)
  <1>1. /\ list \in Seq(Nat \ {0}) /\ Len(list) \in Nat /\ Len(sets) \in Nat
        /\ Len(sets) = (Len(list) \div 2) + 1
        /\ \A n \in 1 .. Len(sets) :
               sets[n] = [type |-> n, vehicle1 |-> Detectors!At(list, 2 * n - 1),
                          vehicle2 |-> Detectors!At(list, 2 * n)]
    BY SetsShape
  <1>2. Len(list) <= 2 * Len(sets)  BY <1>1
  <1> HIDE DEF sets, list
  <1>3. \A i \in Nat \ {0} : /\ i <= Len(list) => Detectors!At(list, i) = list[i]
                             /\ (Detectors!At(list, i) # Detectors!NoVehicle) <=> i <= Len(list)
    <2> SUFFICES ASSUME NEW i \in Nat \ {0}
                 PROVE  /\ i <= Len(list) => Detectors!At(list, i) = list[i]
                        /\ (Detectors!At(list, i) # Detectors!NoVehicle) <=> i <= Len(list)
      OBVIOUS
    <2>1. CASE i <= Len(list)
      <3>1. list[i] \in Nat \ {0}  BY <1>1, <2>1, ElementOfSeq
      <3> QED  BY <2>1, <3>1 DEF Detectors!At, Detectors!NoVehicle
    <2>2. CASE ~(i <= Len(list))  BY <2>2 DEF Detectors!At, Detectors!NoVehicle
    <2> QED  BY <2>1, <2>2
  <1>4. ASSUME NEW place \in 1 .. 2 * Len(sets)
        PROVE  /\ Detectors!VehicleAt(sets, place) = Detectors!At(list, place)
               /\ (place \in Detectors!Taken(sets)) <=> place <= Len(list)
    <2> DEFINE k == (place + 1) \div 2
    <2>1. place \in Nat \ {0} /\ place <= 2 * Len(sets)  BY <1>1, <1>4
    <2>2. /\ k \in Nat \ {0} /\ k <= Len(sets) /\ 2 * k - 1 <= place
          /\ place % 2 = 1 => 2 * k - 1 = place
          /\ place % 2 # 1 => 2 * k = place
      BY <1>1, <2>1, Halves
    <2>3. Detectors!SetAt(sets, place) = sets[k]  BY DEF Detectors!SetAt
    <2> HIDE DEF k
    <2>4. sets[k] = [type |-> k, vehicle1 |-> Detectors!At(list, 2 * k - 1),
                     vehicle2 |-> Detectors!At(list, 2 * k)]
      <3>1. k \in 1 .. Len(sets)  BY <1>1, <2>2
      <3> QED  BY <1>1, <3>1, Zenon
    <2>5. Detectors!SetAt(sets, place).vehicle1 = Detectors!At(list, 2 * k - 1)
          /\ Detectors!SetAt(sets, place).vehicle2 = Detectors!At(list, 2 * k)
      BY <2>3, <2>4
    <2>6. Detectors!VehicleAt(sets, place) = Detectors!At(list, place)
      <3>1. CASE place % 2 = 1
        <4>1. Detectors!VehicleAt(sets, place) = Detectors!At(list, 2 * k - 1)
          BY <2>5, <3>1 DEF Detectors!VehicleAt
        <4> QED  BY <2>2, <3>1, <4>1, Zenon
      <3>2. CASE place % 2 # 1
        <4>1. Detectors!VehicleAt(sets, place) = Detectors!At(list, 2 * k)
          BY <2>5, <3>2 DEF Detectors!VehicleAt
        <4> QED  BY <2>2, <3>2, <4>1, Zenon
      <3> QED  BY <3>1, <3>2
    <2>7. (Detectors!At(list, place) # Detectors!NoVehicle) <=> place <= Len(list)
      BY <1>3, <2>1
    <2>8. (Detectors!At(list, 2 * k - 1) # Detectors!NoVehicle) <=> 2 * k - 1 <= Len(list)
      <3> DEFINE j == 2 * k - 1
      <3>1. j \in Nat \ {0}  BY <2>2
      <3> HIDE DEF j
      <3>2. (Detectors!At(list, j) # Detectors!NoVehicle) <=> j <= Len(list)  BY <1>3, <3>1
      <3> QED  BY <3>2 DEF j
    <2>9. place \in Detectors!Taken(sets) <=>
              Detectors!SetAt(sets, place).vehicle1 # Detectors!NoVehicle
              /\ Detectors!VehicleAt(sets, place) # Detectors!NoVehicle
      BY DEF Detectors!Taken
    <2>10. place <= Len(list) => 2 * k - 1 <= Len(list)  BY <1>1, <2>1, <2>2
    <2> QED  BY <2>5, <2>6, <2>7, <2>8, <2>9, <2>10
  <1>5. Detectors!Taken(sets) \subseteq 1 .. 2 * Len(sets)  BY DEF Detectors!Taken
  <1>6. \A place \in 1 .. Len(list) : place \in 1 .. 2 * Len(sets) /\ place \in Nat \ {0}
    BY <1>1, <1>2
  <1>7. Detectors!Taken(sets) = 1 .. Len(list)
    <2>1. ASSUME NEW place \in Detectors!Taken(sets) PROVE place \in 1 .. Len(list)
      BY <1>1, <1>4, <1>5, <2>1
    <2>2. ASSUME NEW place \in 1 .. Len(list) PROVE place \in Detectors!Taken(sets)
      <3>1. place \in 1 .. 2 * Len(sets) /\ place <= Len(list)  BY <1>1, <1>6
      <3> QED  BY <1>4, <3>1
    <2> QED  BY <2>1, <2>2
  <1>8. ASSUME NEW place \in 1 .. Len(list)
        PROVE  Detectors!VehicleAt(sets, place) = list[place]
    <2>1. place \in 1 .. 2 * Len(sets) /\ place \in Nat \ {0} /\ place <= Len(list)
      BY <1>1, <1>6
    <2> QED  BY <1>3, <1>4, <2>1
  <1> QED  BY <1>7, <1>8 DEF sets, list

\* The nth place of those that are taken is the nth one.
LEMMA FirstPlaces ==
    ASSUME NEW sets, NEW last \in Nat, Detectors!Taken(sets) = 1 .. last
    PROVE  /\ Detectors!Cardinality(Detectors!Taken(sets)) = last
           /\ \A nth \in 1 .. last : Detectors!Place(sets, nth) = nth
  <1>0. ASSUME NEW n \in Nat PROVE Detectors!Cardinality(1 .. n) = n
    <2>1. Detectors!Cardinality(1 .. n) = Cardinality(1 .. n)
      BY DEF Detectors!Cardinality, Cardinality
    <2>2. Cardinality(1 .. n) = IF 1 > n THEN 0 ELSE n - 1 + 1  BY FS_Interval
    <2> QED  BY <2>1, <2>2
  <1>1. Detectors!Cardinality(Detectors!Taken(sets)) = last  BY <1>0
  <1>2. ASSUME NEW place \in 1 .. last
        PROVE  Detectors!Cardinality({other \in Detectors!Taken(sets) : other <= place}) = place
    <2>1. {other \in Detectors!Taken(sets) : other <= place} = 1 .. place  BY <1>2
    <2>2. Detectors!Cardinality(1 .. place) = place  BY <1>0
    <2> QED  BY <2>1, <2>2, Zenon
  <1>3. ASSUME NEW nth \in 1 .. last PROVE Detectors!Place(sets, nth) = nth
    <2> DEFINE Count(place) ==
                   Detectors!Cardinality({other \in Detectors!Taken(sets) : other <= place})
    <2>1. Detectors!Place(sets, nth) = CHOOSE place \in 1 .. last : Count(place) = nth
      BY DEF Detectors!Place
    <2>2. \A place \in 1 .. last : Count(place) = place  BY <1>2
    <2> HIDE DEF Count
    <2> QED  BY <2>1, <2>2
  <1> QED  BY <1>1, <1>3

\* Of a whole report, everything can be told: its end, and all vehicles.
LEMMA WholeReport ==
    ASSUME Detectors!CanAssumption, NEW t \in Detectors!AllTrains,
           NEW s \in State, s.sets = Detectors!SetsOf(t)
    PROVE  /\ Detectors!Merge(s) = [occupied |-> s.occupancy = "occupied",
                                    vehicles |-> Detectors!Vehicles(t)]
           /\ Detectors!HasVehicles(s) <=> Detectors!Vehicles(t) # <<>>
           /\ s.sets # <<>> /\ Detectors!LastSet(s).vehicle2 = Detectors!NoVehicle
  <1> DEFINE sets == Detectors!SetsOf(t)
             list == Detectors!Vehicles(t)
             last == Len(Detectors!SetsOf(t))
  <1>1. /\ list \in Seq(Nat \ {0}) /\ Len(list) \in Nat
        /\ sets \in Seq(Detectors!VehicleSet) /\ last \in Nat \ {0}
        /\ last = (Len(list) \div 2) + 1
        /\ \A n \in 1 .. last :
               sets[n] = [type |-> n, vehicle1 |-> Detectors!At(list, 2 * n - 1),
                          vehicle2 |-> Detectors!At(list, 2 * n)]
    BY SetsShape
  <1>2. Detectors!Merge(s) = [occupied |-> s.occupancy = "occupied", vehicles |-> list]
    <2>1. /\ Detectors!Taken(sets) = 1 .. Len(list)
          /\ \A place \in 1 .. Len(list) : Detectors!VehicleAt(sets, place) = list[place]
      BY PlacesOfReport
    <2>2. /\ Detectors!Cardinality(Detectors!Taken(sets)) = Len(list)
          /\ \A nth \in 1 .. Len(list) : Detectors!Place(sets, nth) = nth
      BY <1>1, <2>1, FirstPlaces
    <2>3. [nth \in 1 .. Detectors!Cardinality(Detectors!Taken(sets)) |->
               Detectors!VehicleAt(sets, Detectors!Place(sets, nth))]
              = [nth \in 1 .. Len(list) |-> list[nth]]
      BY <2>1, <2>2
    <2>4. list = [nth \in 1 .. Len(list) |-> list[nth]]  BY <1>1, LenProperties
    <2>5. Detectors!Merge(s) =
              [occupied |-> s.occupancy = "occupied",
               vehicles |-> [nth \in 1 .. Detectors!Cardinality(Detectors!Taken(sets)) |->
                                 Detectors!VehicleAt(sets, Detectors!Place(sets, nth))]]
      BY DEF Detectors!Merge
    <2> HIDE DEF list, sets
    <2> QED  BY <2>3, <2>4, <2>5, Zenon
  <1>3. sets # <<>>  BY <1>1, EmptySeq
  <1>4. /\ sets[last].type = last
        /\ sets[last].vehicle1 = Detectors!At(list, 2 * last - 1)
        /\ sets[last].vehicle2 = Detectors!At(list, 2 * last)
    <2> HIDE DEF last, list, sets
    <2>1. last \in 1 .. last  BY <1>1
    <2>2. sets[last] = [type |-> last, vehicle1 |-> Detectors!At(list, 2 * last - 1),
                        vehicle2 |-> Detectors!At(list, 2 * last)]
      BY <1>1, <2>1, Zenon
    <2> QED  BY <2>2
  <1>5. Detectors!LastSet(s) = sets[last]  BY DEF Detectors!LastSet
  <1>6. Detectors!At(list, 2 * last) = Detectors!NoVehicle
    BY <1>1 DEF Detectors!At
  <1>7. Detectors!HasVehicles(s) <=> (last # 1 \/ sets[last].vehicle1 # Detectors!NoVehicle)
    BY <1>3, <1>4, <1>5 DEF Detectors!HasVehicles
  <1>8. (last # 1 \/ sets[last].vehicle1 # Detectors!NoVehicle) <=> Len(list) # 0
    <2>1. CASE last = 1
      <3>1. Len(list) = 0 \/ Len(list) = 1
        <4>1. \A n \in Nat : (n \div 2) + 1 = 1 => n = 0 \/ n = 1  OBVIOUS
        <4> HIDE DEF list
        <4> QED  BY <1>1, <2>1, <4>1
      <3>2. sets[last].vehicle1 = Detectors!At(list, 1)  BY <1>4, <2>1
      <3>3. Len(list) = 0 => Detectors!At(list, 1) = Detectors!NoVehicle  BY DEF Detectors!At
      <3>4. Len(list) = 1 => Detectors!At(list, 1) # Detectors!NoVehicle
        <4>1. Len(list) = 1 => list[1] \in Nat \ {0}
          <5> HIDE DEF list, sets, last
          <5>1. Len(list) = 1 => 1 \in 1 .. Len(list)  OBVIOUS
          <5> QED  BY <1>1, <5>1, ElementOfSeq
        <4> QED  BY <4>1 DEF Detectors!At, Detectors!NoVehicle
      <3> QED  BY <2>1, <3>1, <3>2, <3>3, <3>4
    <2>2. CASE last # 1  BY <1>1, <2>2
    <2> QED  BY <2>1, <2>2
  <1>9. (Len(list) # 0) <=> list # <<>>  BY <1>1, EmptySeq
  <1> QED  BY <1>2, <1>3, <1>4, <1>5, <1>6, <1>7, <1>8, <1>9

\* Without its end, a report is not complete.
LEMMA PartOfReport ==
    ASSUME Detectors!CanAssumption, NEW t \in Detectors!AllTrains, NEW s \in State,
           NEW n \in 1 .. Len(Detectors!SetsOf(t)), n < Len(Detectors!SetsOf(t)),
           s.sets = [i \in 1 .. n |-> Detectors!SetsOf(t)[i]]
    PROVE  ~Detectors!IsComplete(s)
  <1> DEFINE sets == Detectors!SetsOf(t)
             list == Detectors!Vehicles(t)
  <1>1. /\ list \in Seq(Nat \ {0}) /\ Len(list) \in Nat /\ Len(sets) \in Nat
        /\ Len(sets) = (Len(list) \div 2) + 1
        /\ \A i \in 1 .. Len(sets) :
               sets[i] = [type |-> i, vehicle1 |-> Detectors!At(list, 2 * i - 1),
                          vehicle2 |-> Detectors!At(list, 2 * i)]
    BY SetsShape
  <1>2. n \in Nat /\ 2 * n \in 1 .. Len(list)  BY <1>1
  <1>3. Len(s.sets) = n
    <2>1. s.sets \in Seq(Detectors!VehicleSet)  BY DEF State
    <2> QED  BY <1>2, <2>1, LenProperties
  <1>4. Detectors!LastSet(s) = sets[n]  BY <1>2, <1>3 DEF Detectors!LastSet
  <1> HIDE DEF sets, list
  <1>5. sets[n] = [type |-> n, vehicle1 |-> Detectors!At(list, 2 * n - 1),
                   vehicle2 |-> Detectors!At(list, 2 * n)]
    <2>1. n \in 1 .. Len(sets)  BY DEF sets
    <2> QED  BY <1>1, <2>1, Zenon
  <1>6. Detectors!LastSet(s).vehicle2 = Detectors!At(list, 2 * n)  BY <1>4, <1>5
  <1>7. Detectors!At(list, 2 * n) # Detectors!NoVehicle
    <2>1. list[2 * n] \in Nat \ {0}  BY <1>1, <1>2, ElementOfSeq
    <2>2. Detectors!At(list, 2 * n) = list[2 * n]  BY <1>1, <1>2 DEF Detectors!At
    <2> QED  BY <2>1, <2>2 DEF Detectors!NoVehicle
  <1> QED  BY <1>6, <1>7 DEF Detectors!IsComplete

\* Whatever vehicles and occupancy come from, a complete state shows one train as a whole.
LEMMA CompleteIsWhole ==
    ASSUME Detectors!CanAssumption, NEW t \in Detectors!AllTrains,
           NEW u \in Detectors!AllTrains, NEW s \in State,
           s.sets = Detectors!SetsOf(t), s.occupancy = OccupancyOf(u), Detectors!IsComplete(s)
    PROVE  Detectors!Merge(s) \in {Detectors!Info(t), Detectors!Info(u)}
  <1>1. /\ Detectors!Merge(s) = [occupied |-> s.occupancy = "occupied",
                                 vehicles |-> Detectors!Vehicles(t)]
        /\ Detectors!HasVehicles(s) <=> Detectors!Vehicles(t) # <<>>
    BY WholeReport
  <1>2. (s.occupancy = "occupied") <=> Detectors!Occupied(u)  BY DEF OccupancyOf
  <1>3. Detectors!Occupied(u) <=> Detectors!Vehicles(t) # <<>>
    BY <1>1, <1>2 DEF Detectors!IsComplete, Detectors!HasVehicles
  <1>4. CASE Detectors!Vehicles(t) # <<>>
    <2>1. Detectors!Occupied(t)
      BY <1>4 DEF Detectors!Vehicles, Detectors!Occupied
    <2>2. (s.occupancy = "occupied") = TRUE /\ Detectors!Occupied(t) = TRUE
      BY <1>2, <1>3, <1>4, <2>1 DEF Detectors!Occupied
    <2> QED  BY <1>1, <2>2 DEF Detectors!Info
  <1>5. CASE Detectors!Vehicles(t) = <<>>
    <2>1. u = <<>>  BY <1>3, <1>5 DEF Detectors!Occupied
    <2>2. Detectors!Vehicles(u) = <<>>
      BY <2>1 DEF Detectors!Vehicles
    <2>3. (s.occupancy = "occupied") = FALSE /\ Detectors!Occupied(u) = FALSE
      BY <1>2, <1>3, <1>5, <2>1 DEF Detectors!Occupied
    <2> QED  BY <1>1, <1>5, <2>2, <2>3 DEF Detectors!Info
  <1> QED  BY <1>4, <1>5

\* A train with decoders is shown when its report was taken.
LEMMA CollectedIsShown ==
    ASSUME Detectors!CanAssumption, NEW t \in Trains, NEW s \in State,
           Collected(s, t, Len(Detectors!Report(t)))
    PROVE  Detectors!IsComplete(s) /\ Detectors!Merge(s).vehicles = t
  <1> DEFINE sets == Detectors!SetsOf(t)
  <1>1. t \in Detectors!AllTrains /\ t # Decoderless
    BY DEF Detectors!AllTrains, Detectors!CanAssumption
  <1>2. Detectors!Vehicles(t) = t /\ (Detectors!Occupied(t) <=> t # <<>>)
    BY <1>1 DEF Detectors!Vehicles, Detectors!Occupied
  <1>3. /\ Len(Detectors!Report(t)) = Len(sets) + 1 /\ Len(sets) \in Nat \ {0}
        /\ sets \in Seq(Detectors!VehicleSet)
    BY <1>1, ReportShape, SetsShape
  <1>4. s.occupancy = OccupancyOf(t) /\ s.sets = [i \in 1 .. Len(sets) |-> sets[i]]
    <2>1. Len(Detectors!Report(t)) > 1 /\ Len(Detectors!Report(t)) - 1 = Len(sets)  BY <1>3
    <2> QED  BY <2>1 DEF Collected
  <1>5. s.sets = sets
    <2> HIDE DEF sets
    <2> QED  BY <1>3, <1>4, LenProperties
  <1>6. /\ Detectors!Merge(s) = [occupied |-> s.occupancy = "occupied",
                                 vehicles |-> Detectors!Vehicles(t)]
        /\ Detectors!HasVehicles(s) <=> Detectors!Vehicles(t) # <<>>
        /\ s.sets # <<>> /\ Detectors!LastSet(s).vehicle2 = Detectors!NoVehicle
    BY <1>1, <1>5, WholeReport
  <1>7. s.occupancy # "invalid" /\ (s.occupancy = "occupied" <=> t # <<>>)
    BY <1>2, <1>4 DEF OccupancyOf
  <1>8. Detectors!HasVehicles(s) = (s.occupancy = "occupied")
    BY <1>2, <1>6, <1>7 DEF Detectors!HasVehicles
  <1> QED  BY <1>2, <1>6, <1>7, <1>8 DEF Detectors!IsComplete

-----------------------------------------------------------------------------
(* What is under way from the detectors.                                     *)

\* A message is named by its train and its place in the report; after the last one of a
\* report comes the first one of another.
Label == [of : Detectors!AllTrains, at : Nat]

Ending(a) == a.at = Len(Detectors!Report(a.of))

Follows(a, b) == IF Ending(a) THEN b.at = 1 ELSE b.of = a.of /\ b.at = a.at + 1

\* The messages of a list, and the one that came before them, are a succession of reports.
Succession(tags, list, trains) ==
    /\ tags \in Seq(Label) /\ Len(tags) = Len(list) + 1
    /\ \A j \in 1 .. Len(tags) : tags[j].at \in 1 .. Len(Detectors!Report(tags[j].of))
    /\ \A j \in 1 .. Len(list) :
           /\ tags[j + 1].of \in trains /\ Follows(tags[j], tags[j + 1])
           /\ list[j] = Detectors!Report(tags[j + 1].of)[tags[j + 1].at]
    /\ Ending(tags[Len(tags)])

\* The last message that was taken; the occupancy leaves the vehicles of the report before.
Got(s, a, trains) ==
    /\ a.of \in trains /\ Collected(s, a.of, a.at)
    /\ a.at = 1 => s.sets = <<>> \/ \E t \in trains : s.sets = Detectors!SetsOf(t)

InReports(p) ==
    \E tags \in Seq(Label) :
        /\ Succession(tags, canLine[p], told[p])
        /\ IF p \in DOMAIN states THEN Got(states[p], tags[1], told[p]) ELSE Ending(tags[1])

\* The messages end with a report, or with what is left of it.
Ends(list, report) ==
    \A k \in Nat : k < Len(list) /\ k < Len(report) =>
                       list[Len(list) - k] = report[Len(report) - k]

Due(p) ==
    LET report == Detectors!Report(section[p])
    IN  /\ Ends(canLine[p], report)
        /\ Len(canLine[p]) < Len(report) =>
               p \in DOMAIN states
               /\ Collected(states[p], section[p], Len(report) - Len(canLine[p]))

DetectorTypes ==
    /\ section \in [Ports -> Detectors!AllTrains]
    /\ canLine \in [Ports -> Seq(Detectors!Message)]
    /\ told \in [Ports -> SUBSET Detectors!AllTrains]
    /\ missed \subseteq Ports /\ early \subseteq Ports /\ attached \in BOOLEAN
    /\ DOMAIN states \subseteq Ports /\ DOMAIN cache \subseteq Ports
    /\ \A p \in DOMAIN states : states[p] \in State
    /\ canSpent \in [1 .. 3 -> Nat]

\* What the table shows is in the cache; what it lacks came before it was attached.
TableInv ==
    /\ ~attached => DOMAIN canRows = {}
    /\ DOMAIN canRows \subseteq DOMAIN cache
    /\ \A p \in DOMAIN canRows : canRows[p] = cache[p]
    /\ DOMAIN cache \ early \subseteq DOMAIN canRows

\* Once all are complete, everything is in the cache.
PassedOn ==
    (\A p \in DOMAIN states : Detectors!IsComplete(states[p])) =>
        \A p \in DOMAIN states : p \in DOMAIN cache /\ cache[p] = Detectors!Merge(states[p])

CacheIsTold ==
    \A p \in DOMAIN cache : \E t \in told[p] : cache[p] = Detectors!Info(t)

DetectorInv ==
    /\ DetectorTypes /\ TableInv /\ PassedOn
    /\ \A p \in Ports \ missed : Due(p)
    /\ canSpent[3] = 0 => CacheIsTold /\ \A p \in Ports : InReports(p)

-----------------------------------------------------------------------------
(* Successions of reports.                                                   *)

Labels(t) == [i \in 1 .. Len(Detectors!Report(t)) |-> [of |-> t, at |-> i]]

LEMMA LabelsShape ==
    ASSUME Detectors!CanAssumption, NEW t \in Detectors!AllTrains
    PROVE  /\ Labels(t) \in Seq(Label) /\ Len(Labels(t)) = Len(Detectors!Report(t))
           /\ \A i \in 1 .. Len(Detectors!Report(t)) : Labels(t)[i] = [of |-> t, at |-> i]
  <1>1. Len(Detectors!Report(t)) \in Nat  BY ReportShape
  <1> DEFINE n == Len(Detectors!Report(t))
  <1> HIDE DEF n
  <1>2. \A i \in 1 .. n : [of |-> t, at |-> i] \in Label  BY <1>1 DEF Label, n
  <1>3. [i \in 1 .. n |-> [of |-> t, at |-> i]] \in Seq(Label)
        /\ Len([i \in 1 .. n |-> [of |-> t, at |-> i]]) = n
    BY <1>1, <1>2 DEF n
  <1> QED  BY <1>3 DEF Labels, n

\* A list, or the names of its messages, with one more report.
LongerList(list, t) == list \o Detectors!Report(t)
LongerTags(tags, t) == tags \o Labels(t)

\* A new report continues the succession.
LEMMA SuccessionGrows ==
    ASSUME Detectors!CanAssumption, NEW list \in Seq(Detectors!Message), NEW tags, NEW trains,
           NEW more \in SUBSET Detectors!AllTrains, trains \subseteq more, NEW t \in more,
           Succession(tags, list, trains)
    PROVE  Succession(LongerTags(tags, t), LongerList(list, t), more)
  <1> DEFINE report == Detectors!Report(t)
             all == tags \o Labels(t)
             new == list \o report
             m == Len(list)
             r == Len(Detectors!Report(t))
  <1>0. t \in Detectors!AllTrains  OBVIOUS
  <1>1. /\ report \in Seq(Detectors!Message) /\ r \in Nat /\ r >= 2
        /\ Labels(t) \in Seq(Label) /\ Len(Labels(t)) = r
        /\ \A i \in 1 .. r : Labels(t)[i] = [of |-> t, at |-> i]
    BY <1>0, ReportShape, LabelsShape
  <1>2. /\ tags \in Seq(Label) /\ Len(tags) = m + 1 /\ m \in Nat
    BY LenProperties DEF Succession
  <1>3. /\ all \in Seq(Label) /\ Len(all) = m + 1 + r
        /\ \A i \in 1 .. m + 1 + r : all[i] = IF i <= m + 1 THEN tags[i] ELSE Labels(t)[i - (m + 1)]
    <2> DEFINE s == Labels(t)
    <2>1. s \in Seq(Label) /\ Len(s) = r  BY <1>1
    <2> HIDE DEF s
    <2>2. /\ tags \o s \in Seq(Label) /\ Len(tags \o s) = Len(tags) + Len(s)
          /\ \A i \in 1 .. Len(tags) + Len(s) :
                 (tags \o s)[i] = IF i <= Len(tags) THEN tags[i] ELSE s[i - Len(tags)]
      BY <1>2, <2>1, ConcatProperties
    <2> HIDE DEF m, r
    <2>3. /\ tags \o s \in Seq(Label) /\ Len(tags \o s) = m + 1 + r
          /\ \A i \in 1 .. m + 1 + r :
                 (tags \o s)[i] = IF i <= m + 1 THEN tags[i] ELSE s[i - (m + 1)]
      BY <1>2, <2>1, <2>2
    <2> QED  BY <2>3 DEF s
  <1>4. /\ new \in Seq(Detectors!Message) /\ Len(new) = m + r
        /\ \A i \in 1 .. m + r : new[i] = IF i <= m THEN list[i] ELSE report[i - m]
    BY <1>1, <1>2, ConcatProperties
  <1> HIDE DEF all, new, m, r, report
  <1>5. /\ \A i \in 1 .. m + 1 : all[i] = tags[i]
        /\ \A i \in 1 .. r : all[m + 1 + i] = [of |-> t, at |-> i]
    <2>1. \A i \in 1 .. m + 1 : all[i] = tags[i]  BY <1>1, <1>2, <1>3
    <2>2. ASSUME NEW i \in 1 .. r PROVE all[m + 1 + i] = [of |-> t, at |-> i]
      <3> DEFINE k == m + 1 + i
      <3>1. k \in 1 .. m + 1 + r /\ ~(k <= m + 1) /\ k - (m + 1) = i  BY <1>1, <1>2, <2>2
      <3> HIDE DEF k
      <3>2. all[k] = Labels(t)[i]  BY <1>3, <3>1
      <3> QED  BY <1>1, <3>2 DEF k
    <2> QED  BY <2>1, <2>2
  <1>6. ASSUME NEW j \in 1 .. Len(all)
        PROVE  all[j].at \in 1 .. Len(Detectors!Report(all[j].of))
    <2>1. CASE j \in 1 .. m + 1
      <3>1. tags[j].at \in 1 .. Len(Detectors!Report(tags[j].of))
        BY <1>2, <2>1 DEF Succession, m
      <3> QED  BY <1>5, <2>1, <3>1
    <2>2. CASE j \notin 1 .. m + 1
      <3>1. PICK i \in 1 .. r : j = m + 1 + i
        <4>1. j - (m + 1) \in 1 .. r /\ j = m + 1 + (j - (m + 1))  BY <1>1, <1>2, <1>3, <2>2
        <4> QED  BY <4>1
      <3>2. all[j] = [of |-> t, at |-> i]  BY <1>5, <3>1
      <3> QED  BY <3>2 DEF r
    <2> QED  BY <2>1, <2>2
  <1>7. ASSUME NEW j \in 1 .. Len(new)
        PROVE  /\ all[j + 1].of \in more /\ Follows(all[j], all[j + 1])
               /\ new[j] = Detectors!Report(all[j + 1].of)[all[j + 1].at]
    <2>1. CASE j \in 1 .. m
      <3>1. j \in 1 .. m + 1 /\ j + 1 \in 1 .. m + 1 /\ j \in 1 .. m + r /\ j <= m
        BY <1>1, <1>2, <2>1
      <3>2. all[j] = tags[j] /\ all[j + 1] = tags[j + 1] /\ new[j] = list[j]
        BY <1>4, <1>5, <3>1
      <3>3. /\ tags[j + 1].of \in trains /\ Follows(tags[j], tags[j + 1])
            /\ list[j] = Detectors!Report(tags[j + 1].of)[tags[j + 1].at]
        BY <2>1 DEF Succession, m
      <3> QED  BY <3>2, <3>3
    <2>2. CASE j = m + 1
      <3>1. all[j] = tags[Len(tags)]  BY <1>2, <1>5, <2>2
      <3>2. all[j + 1] = [of |-> t, at |-> 1]
        <4>1. 1 \in 1 .. r /\ j + 1 = m + 1 + 1  BY <1>1, <1>2, <2>2
        <4> QED  BY <1>5, <4>1
      <3>3. Ending(all[j])  BY <3>1 DEF Succession
      <3>4. new[j] = report[1]
        <4>1. j \in 1 .. m + r /\ ~(j <= m) /\ j - m = 1  BY <1>1, <1>2, <2>2
        <4> QED  BY <1>4, <4>1
      <3> QED  BY <3>2, <3>3, <3>4 DEF Follows, report
    <2>3. CASE j \notin 1 .. m + 1
      <3>1. PICK i \in 1 .. r : j = m + 1 + i /\ i < r
        <4>1. j - (m + 1) \in 1 .. r /\ j = m + 1 + (j - (m + 1)) /\ j - (m + 1) < r
          BY <1>1, <1>2, <1>4, <2>3
        <4> QED  BY <4>1
      <3>2. i + 1 \in 1 .. r /\ j + 1 = m + 1 + (i + 1)  BY <1>1, <1>2, <3>1
      <3>3. all[j] = [of |-> t, at |-> i] /\ all[j + 1] = [of |-> t, at |-> i + 1]
        BY <1>5, <3>1, <3>2
      <3>4. ~Ending(all[j])  BY <1>1, <3>1, <3>3 DEF Ending, r
      <3>5. new[j] = report[i + 1]
        <4>1. j \in 1 .. m + r /\ ~(j <= m) /\ j - m = i + 1  BY <1>1, <1>2, <1>4, <3>1
        <4> QED  BY <1>4, <4>1
      <3> QED  BY <3>3, <3>4, <3>5 DEF Follows, report
    <2>4. j \in 1 .. m \/ j = m + 1 \/ j \notin 1 .. m + 1  BY <1>1, <1>2, <1>4
    <2> QED  BY <2>1, <2>2, <2>3, <2>4
  <1>8. Ending(all[Len(all)])
    <2>1. r \in 1 .. r /\ Len(all) = m + 1 + r  BY <1>1, <1>3
    <2>2. all[Len(all)] = [of |-> t, at |-> r]  BY <1>5, <2>1
    <2> QED  BY <2>2 DEF Ending, r
  <1>10. Len(all) = Len(new) + 1  BY <1>1, <1>2, <1>3, <1>4
  <1>11. Succession(all, new, more)
    BY <1>3, <1>6, <1>7, <1>8, <1>10 DEF Succession, report
  <1> QED  BY <1>11 DEF LongerTags, LongerList, all, new, report

\* It starts as before.
LEMMA LongerStart ==
    ASSUME Detectors!CanAssumption, NEW tags \in Seq(Label), Len(tags) >= 1,
           NEW t \in Detectors!AllTrains
    PROVE  LongerTags(tags, t)[1] = tags[1]
  <1> DEFINE s == Labels(t)
  <1>1. s \in Seq(Label)  BY LabelsShape
  <1> HIDE DEF s
  <1>2. (tags \o s)[1] = tags[1]
    <2>1. Len(tags) \in Nat /\ Len(s) \in Nat  BY <1>1, LenProperties
    <2>2. 1 \in 1 .. Len(tags) + Len(s) /\ 1 <= Len(tags)  BY <2>1
    <2> QED  BY <1>1, <2>2, ConcatProperties
  <1> QED  BY <1>2 DEF LongerTags, s

\* Without its first message, it is one still.
LEMMA SuccessionShrinks ==
    ASSUME NEW list \in Seq(Detectors!Message), list # <<>>, NEW tags, NEW trains,
           Succession(tags, list, trains)
    PROVE  /\ Succession(Tail(tags), Tail(list), trains) /\ Tail(tags)[1] = tags[2]
           /\ tags[1] \in Label /\ tags[2] \in Label /\ tags[2].of \in trains
           /\ tags[2].at \in 1 .. Len(Detectors!Report(tags[2].of))
           /\ tags[1].at \in 1 .. Len(Detectors!Report(tags[1].of))
           /\ Follows(tags[1], tags[2])
           /\ Head(list) = Detectors!Report(tags[2].of)[tags[2].at]
  <1> DEFINE m == Len(list)
  <1>1. /\ tags \in Seq(Label) /\ Len(tags) = m + 1 /\ m \in Nat \ {0} /\ tags # <<>>
    BY LenProperties, EmptySeq DEF Succession
  <1>2. /\ Tail(tags) \in Seq(Label) /\ Len(Tail(tags)) = m
        /\ \A i \in 1 .. m : Tail(tags)[i] = tags[i + 1]
    BY <1>1, HeadTailProperties
  <1>3. /\ Tail(list) \in Seq(Detectors!Message) /\ Len(Tail(list)) = m - 1
        /\ \A i \in 1 .. (m - 1) : Tail(list)[i] = list[i + 1]
    BY <1>1, HeadTailProperties
  <1>4. Head(list) = list[1]  OBVIOUS
  <1>5. /\ \A j \in 1 .. m + 1 : tags[j].at \in 1 .. Len(Detectors!Report(tags[j].of))
        /\ \A j \in 1 .. m :
               /\ tags[j + 1].of \in trains /\ Follows(tags[j], tags[j + 1])
               /\ list[j] = Detectors!Report(tags[j + 1].of)[tags[j + 1].at]
        /\ Ending(tags[m + 1])
    BY <1>1 DEF Succession
  <1> HIDE DEF m
  <1>6. 1 \in 1 .. m /\ 1 \in 1 .. m + 1 /\ 2 \in 1 .. m + 1 /\ 1 + 1 = 2  BY <1>1
  <1>7. /\ tags[2].of \in trains /\ Follows(tags[1], tags[2])
        /\ list[1] = Detectors!Report(tags[2].of)[tags[2].at]
    BY <1>5, <1>6
  <1>8. tags[1] \in Label /\ tags[2] \in Label  BY <1>1, <1>6, ElementOfSeq
  <1>9. Tail(tags)[1] = tags[2]  BY <1>2, <1>6
  <1>10. Succession(Tail(tags), Tail(list), trains)
    <2>1. ASSUME NEW j \in 1 .. m
          PROVE  Tail(tags)[j].at \in 1 .. Len(Detectors!Report(Tail(tags)[j].of))
      <3>1. j + 1 \in 1 .. m + 1  BY <1>1
      <3> QED  BY <1>2, <1>5, <3>1
    <2>2. ASSUME NEW j \in 1 .. (m - 1)
          PROVE  /\ Tail(tags)[j + 1].of \in trains /\ Follows(Tail(tags)[j], Tail(tags)[j + 1])
                 /\ Tail(list)[j] = Detectors!Report(Tail(tags)[j + 1].of)[Tail(tags)[j + 1].at]
      <3> DEFINE k == j + 1
      <3>1. k \in 1 .. m /\ j \in 1 .. m  BY <1>1
      <3>2. Tail(tags)[j] = tags[k] /\ Tail(list)[j] = list[k]  BY <1>2, <1>3, <3>1
      <3> HIDE DEF k
      <3>3. Tail(tags)[k] = tags[k + 1]  BY <1>2, <3>1
      <3>4. /\ tags[k + 1].of \in trains /\ Follows(tags[k], tags[k + 1])
            /\ list[k] = Detectors!Report(tags[k + 1].of)[tags[k + 1].at]
        BY <1>5, <3>1
      <3>5. /\ Tail(tags)[k].of \in trains /\ Follows(Tail(tags)[j], Tail(tags)[k])
            /\ Tail(list)[j] = Detectors!Report(Tail(tags)[k].of)[Tail(tags)[k].at]
        BY <3>2, <3>3, <3>4
      <3> QED  BY <3>5 DEF k
    <2>3. Ending(Tail(tags)[m])
      <3>1. m \in 1 .. m  BY <1>1
      <3> QED  BY <1>2, <1>5, <3>1
    <2>4. Len(Tail(list)) + 1 = m  BY <1>1, <1>3
    <2> QED  BY <1>2, <1>3, <2>1, <2>2, <2>3, <2>4 DEF Succession
  <1> QED  BY <1>4, <1>5, <1>6, <1>7, <1>8, <1>9, <1>10

\* Taking the next message of a succession.
LEMMA GotNext ==
    ASSUME Detectors!CanAssumption, NEW trains \in SUBSET Detectors!AllTrains,
           NEW a \in Label, NEW b \in Label, Follows(a, b), b.of \in trains,
           a.at \in 1 .. Len(Detectors!Report(a.of)), b.at \in 1 .. Len(Detectors!Report(b.of)),
           NEW s \in State, Got(s, a, trains) \/ (Ending(a) /\ s = Detectors!Empty)
    PROVE  Got(Detectors!With(s, Detectors!Report(b.of)[b.at]), b, trains)
  <1> DEFINE new == Detectors!With(s, Detectors!Report(b.of)[b.at])
             n == b.at
  <1>1. a.of \in Detectors!AllTrains /\ b.of \in Detectors!AllTrains /\ n \in Nat /\ a.at \in Nat
    BY DEF Label
  <1>2. n > 1 => Collected(s, b.of, n - 1)
    <2>1. ASSUME n > 1 PROVE ~Ending(a) /\ b.of = a.of /\ n - 1 = a.at
      BY <1>1, <2>1 DEF Follows
    <2> QED  BY <2>1 DEF Got
  <1>3. Collected(new, b.of, n) /\ (n = 1 => new.sets = s.sets)
    <2> DEFINE t == b.of
    <2>1. t \in Detectors!AllTrains /\ n \in 1 .. Len(Detectors!Report(t))  BY <1>1
    <2>2. n > 1 => Collected(s, t, n - 1)  BY <1>2
    <2> HIDE DEF n, t
    <2>3. Collected(Detectors!With(s, Detectors!Report(t)[n]), t, n)
          /\ (n = 1 => Detectors!With(s, Detectors!Report(t)[n]).sets = s.sets)
      BY <2>1, <2>2, TakeStep
    <2> QED  BY <2>3 DEF n, t
  <1>4. ASSUME n = 1
        PROVE  s.sets = <<>> \/ \E t \in trains : s.sets = Detectors!SetsOf(t)
    <2>1. Ending(a)  BY <1>1, <1>4 DEF Follows
    <2>2. CASE s = Detectors!Empty  BY <2>2 DEF Detectors!Empty
    <2>3. CASE Got(s, a, trains)
      <3> DEFINE sets == Detectors!SetsOf(a.of)
      <3>1. /\ Len(Detectors!Report(a.of)) = Len(sets) + 1 /\ Len(sets) \in Nat \ {0}
            /\ sets \in Seq(Detectors!VehicleSet)
        BY <1>1, ReportShape, SetsShape
      <3>2. a.at > 1 /\ a.at - 1 = Len(sets)  BY <2>1, <3>1 DEF Ending
      <3>3. s.sets = [i \in 1 .. Len(sets) |-> sets[i]]  BY <2>3, <3>2 DEF Got, Collected
      <3>4. s.sets = sets
        <4> HIDE DEF sets
        <4> QED  BY <3>1, <3>3, LenProperties
      <3> QED  BY <2>3, <3>4 DEF Got
    <2> QED  BY <2>2, <2>3
  <1> QED  BY <1>3, <1>4 DEF Got

\* What is complete is a train that was told as a whole.
LEMMA CompleteIsTold ==
    ASSUME Detectors!CanAssumption, NEW trains \in SUBSET Detectors!AllTrains, NEW a \in Label,
           a.at \in 1 .. Len(Detectors!Report(a.of)), NEW s \in State,
           Got(s, a, trains), Detectors!IsComplete(s)
    PROVE  \E t \in trains : Detectors!Merge(s) = Detectors!Info(t)
  <1> DEFINE u == a.of
             sets == Detectors!SetsOf(u)
  <1>1. /\ u \in Detectors!AllTrains /\ u \in trains /\ a.at \in Nat
        /\ s.occupancy = OccupancyOf(u)
    BY DEF Label, Got, Collected
  <1>2. /\ Len(Detectors!Report(u)) = Len(sets) + 1 /\ Len(sets) \in Nat \ {0}
        /\ sets \in Seq(Detectors!VehicleSet)
    BY <1>1, ReportShape, SetsShape
  <1>3. \E t \in trains : s.sets = Detectors!SetsOf(t)
    <2>1. CASE a.at = 1
      BY <2>1 DEF Got, Detectors!IsComplete
    <2>2. CASE a.at # 1
      <3> DEFINE n == a.at - 1
      <3>1. n \in 1 .. Len(sets) /\ a.at > 1  BY <1>1, <1>2, <2>2
      <3>2. s.sets = [i \in 1 .. n |-> sets[i]]  BY <3>1 DEF Got, Collected
      <3> HIDE DEF n, u
      <3>3. ~(n < Len(sets))  BY <1>1, <3>1, <3>2, PartOfReport
      <3>4. n = Len(sets)  BY <1>2, <3>1, <3>3
      <3>5. s.sets = sets
        <4> HIDE DEF sets
        <4> QED  BY <1>2, <3>2, <3>4, LenProperties
      <3> QED  BY <1>1, <3>5
    <2> QED  BY <2>1, <2>2
  <1>4. PICK t \in trains : s.sets = Detectors!SetsOf(t)  BY <1>3
  <1>5. t \in Detectors!AllTrains  OBVIOUS
  <1> HIDE DEF u
  <1>6. Detectors!Merge(s) \in {Detectors!Info(t), Detectors!Info(u)}
    BY <1>1, <1>4, <1>5, CompleteIsWhole
  <1> QED  BY <1>1, <1>6

-----------------------------------------------------------------------------
(* The steps of the detectors.                                               *)

LEMMA DetectorsInit ==
    ASSUME Detectors!CanAssumption, Detectors!Init
    PROVE  DetectorInv
  <1> USE DEF Detectors!Init
  <1>1. DOMAIN states = {} /\ DOMAIN cache = {} /\ DOMAIN canRows = {}  OBVIOUS
  <1>2. <<>> \in Detectors!AllTrains /\ Decoderless \in Detectors!AllTrains
    BY DEF Detectors!CanAssumption, Detectors!AllTrains
  <1>3. \A p \in Ports : canLine[p] = <<>> /\ canLine[p] \in Seq(Detectors!Message)
    BY EmptySeq
  <1>4. DetectorTypes
    <2>1. section \in [Ports -> Detectors!AllTrains]  BY <1>2
    <2>2. canLine \in [Ports -> Seq(Detectors!Message)]  BY EmptySeq
    <2>3. canSpent \in [1 .. 3 -> Nat]  OBVIOUS
    <2>4. told \in [Ports -> SUBSET Detectors!AllTrains]  OBVIOUS
    <2> QED  BY <1>1, <2>1, <2>2, <2>3, <2>4 DEF DetectorTypes
  <1>5. TableInv /\ PassedOn /\ CacheIsTold
    BY <1>1 DEF TableInv, PassedOn, CacheIsTold
  <1>6. ASSUME NEW p \in Ports PROVE InReports(p)
    <2> DEFINE n == Len(Detectors!Report(<<>>))
               a == [of |-> <<>>, at |-> n]
               tags == <<a>>
    <2>1. n \in Nat /\ n >= 2  BY <1>2, ReportShape
    <2>2. a \in Label /\ Ending(a) /\ a.at \in 1 .. Len(Detectors!Report(a.of))
      BY <1>2, <2>1 DEF Label, Ending
    <2> HIDE DEF a
    <2>3. tags \in Seq(Label) /\ Len(tags) = 1 /\ tags[1] = a  BY <2>2
    <2> HIDE DEF tags
    <2>4. Succession(tags, canLine[p], told[p])
      <3>1. Len(canLine[p]) = 0  BY <1>3, EmptySeq
      <3>2. Len(tags) = Len(canLine[p]) + 1  BY <2>3, <3>1
      <3>3. \A j \in 1 .. Len(tags) : j = 1  BY <2>3
      <3>4. 1 .. Len(canLine[p]) = {}  BY <3>1
      <3> QED  BY <2>2, <2>3, <3>2, <3>3, <3>4 DEF Succession
    <2> QED  BY <1>1, <2>2, <2>3, <2>4 DEF InReports
  <1> QED  BY <1>4, <1>5, <1>6 DEF DetectorInv

\* What is passed on goes to the cache, and to the table once that is attached.
LEMMA EmitStep ==
    ASSUME DetectorTypes, TableInv, DOMAIN states' \subseteq Ports, UNCHANGED attached,
           Detectors!Emit(states')
    PROVE  /\ TableInv' /\ PassedOn' /\ early' \subseteq Ports /\ DOMAIN cache' \subseteq Ports
           /\ \A q \in DOMAIN cache' :
                  \/ q \in DOMAIN cache /\ cache'[q] = cache[q]
                  \/ /\ q \in DOMAIN states' /\ Detectors!IsComplete(states'[q])
                     /\ cache'[q] = Detectors!Merge(states'[q])
  <1> DEFINE complete == \A p \in DOMAIN states' : Detectors!IsComplete(states'[p])
             news == {p \in DOMAIN states' :
                          complete /\ (p \notin DOMAIN cache
                                       \/ cache[p] # Detectors!Merge(states'[p]))}
             infos == [p \in news |-> Detectors!Merge(states'[p])]
  <1>1. /\ cache' = Detectors!Replaced(cache, infos)
        /\ canRows' = IF attached THEN Detectors!Replaced(canRows, infos) ELSE canRows
        /\ early' = IF attached THEN early \ news ELSE early \cup news
    BY DEF Detectors!Emit
  <1>2. DOMAIN infos = news /\ \A p \in news : infos[p] = Detectors!Merge(states'[p])
    OBVIOUS
  <1>3. /\ news \subseteq DOMAIN states'
        /\ \A p \in news : complete
        /\ \A p \in DOMAIN states' : complete /\ p \notin news =>
               p \in DOMAIN cache /\ cache[p] = Detectors!Merge(states'[p])
    OBVIOUS
  <1> HIDE DEF infos, news
  <1>4. /\ DOMAIN cache' = DOMAIN cache \cup news
        /\ \A p \in news : cache'[p] = Detectors!Merge(states'[p])
        /\ \A p \in DOMAIN cache \ news : cache'[p] = cache[p]
    BY <1>1, <1>2 DEF Detectors!Replaced
  <1>5. attached => /\ DOMAIN canRows' = DOMAIN canRows \cup news
                    /\ \A p \in news : canRows'[p] = Detectors!Merge(states'[p])
                    /\ \A p \in DOMAIN canRows \ news : canRows'[p] = canRows[p]
    BY <1>1, <1>2 DEF Detectors!Replaced
  <1>6. TableInv'
    <2>1. CASE attached
      <3>1. DOMAIN canRows' \subseteq DOMAIN cache'  BY <1>4, <1>5, <2>1 DEF TableInv
      <3>2. ASSUME NEW p \in DOMAIN canRows' PROVE canRows'[p] = cache'[p]
        <4>1. CASE p \in news  BY <1>4, <1>5, <2>1, <4>1
        <4>2. CASE p \notin news
          <5>1. p \in DOMAIN canRows /\ p \in DOMAIN cache /\ canRows[p] = cache[p]
            BY <1>5, <2>1, <3>2, <4>2 DEF TableInv
          <5> QED  BY <1>4, <1>5, <2>1, <4>2, <5>1
        <4> QED  BY <4>1, <4>2
      <3>3. DOMAIN cache' \ early' \subseteq DOMAIN canRows'
        BY <1>1, <1>4, <1>5, <2>1 DEF TableInv
      <3>4. attached'  BY <2>1
      <3> QED  BY <3>1, <3>2, <3>3, <3>4 DEF TableInv
    <2>2. CASE ~attached
      <3>1. DOMAIN canRows' = {} /\ DOMAIN canRows = {}  BY <1>1, <2>2 DEF TableInv
      <3>2. DOMAIN cache' \ early' = {}  BY <1>1, <1>4, <2>2, <3>1 DEF TableInv
      <3> QED  BY <3>1, <3>2 DEF TableInv
    <2> QED  BY <2>1, <2>2
  <1>7. PassedOn'
    <2> SUFFICES ASSUME complete, NEW p \in DOMAIN states'
                 PROVE  p \in DOMAIN cache' /\ cache'[p] = Detectors!Merge(states'[p])
      BY DEF PassedOn
    <2>1. CASE p \in news  BY <1>4, <2>1
    <2>2. CASE p \notin news  BY <1>3, <1>4, <2>2
    <2> QED  BY <2>1, <2>2
  <1>8. early' \subseteq Ports /\ DOMAIN cache' \subseteq Ports
    BY <1>1, <1>3, <1>4 DEF DetectorTypes
  <1>9. ASSUME NEW q \in DOMAIN cache'
        PROVE  \/ q \in DOMAIN cache /\ cache'[q] = cache[q]
               \/ /\ q \in DOMAIN states' /\ Detectors!IsComplete(states'[q])
                  /\ cache'[q] = Detectors!Merge(states'[q])
    <2>1. CASE q \in news  BY <1>3, <1>4, <2>1
    <2>2. CASE q \notin news  BY <1>4, <1>9, <2>2
    <2> QED  BY <2>1, <2>2
  <1> QED  BY <1>6, <1>7, <1>8, <1>9

\* The first message of a list that ends with a report, or with what is left of it.
LEMMA EndsShrink ==
    ASSUME NEW list \in Seq(Detectors!Message), list # <<>>, NEW report, Len(report) \in Nat,
           Ends(list, report)
    PROVE  /\ Ends(Tail(list), report) /\ Len(Tail(list)) = Len(list) - 1 /\ Len(list) \in Nat \ {0}
           /\ Len(list) <= Len(report) =>
                  Head(list) = report[Len(report) - Len(list) + 1]
  <1> DEFINE m == Len(list)
             r == Len(report)
  <1>1. m \in Nat \ {0}  BY EmptySeq
  <1>2. /\ Len(Tail(list)) = m - 1
        /\ \A i \in 1 .. (m - 1) : Tail(list)[i] = list[i + 1]
    BY HeadTailProperties
  <1>3. \A k \in Nat : k < m /\ k < r => list[m - k] = report[r - k]  BY DEF Ends
  <1>4. Head(list) = list[1]  OBVIOUS
  <1> HIDE DEF m, r
  <1>5. ASSUME NEW k \in Nat, k < m - 1, k < r
        PROVE  Tail(list)[m - 1 - k] = report[r - k]
    <2> DEFINE i == m - 1 - k
    <2>1. i \in 1 .. (m - 1) /\ i + 1 = m - k /\ k < m  BY <1>1, <1>5
    <2> HIDE DEF i
    <2>2. Tail(list)[i] = list[i + 1]  BY <1>2, <2>1
    <2> QED  BY <1>3, <1>5, <2>1, <2>2 DEF i
  <1>6. ASSUME m <= r PROVE list[1] = report[r - m + 1]
    <2> DEFINE k == m - 1
    <2>1. k \in Nat /\ k < m /\ k < r /\ m - k = 1 /\ r - k = r - m + 1
      BY <1>1, <1>6 DEF r
    <2> HIDE DEF k
    <2> QED  BY <1>3, <2>1
  <1> QED  BY <1>1, <1>2, <1>4, <1>5, <1>6 DEF Ends, m, r

\* After a whole report, a list ends with it.
LEMMA EndsWith ==
    ASSUME NEW list \in Seq(Detectors!Message), NEW report \in Seq(Detectors!Message)
    PROVE  Ends(list \o report, report) /\ ~(Len(list \o report) < Len(report))
  <1> DEFINE all == list \o report
             m == Len(list)
             r == Len(report)
  <1>1. m \in Nat /\ r \in Nat  BY LenProperties
  <1>2. /\ Len(all) = m + r
        /\ \A i \in 1 .. m + r : all[i] = IF i <= m THEN list[i] ELSE report[i - m]
    BY ConcatProperties
  <1> HIDE DEF all, m, r
  <1>3. ASSUME NEW k \in Nat, k < Len(all), k < r
        PROVE  all[Len(all) - k] = report[r - k]
    <2> DEFINE i == m + r - k
    <2>1. i \in 1 .. m + r /\ ~(i <= m) /\ i - m = r - k /\ Len(all) - k = i
      BY <1>1, <1>2, <1>3
    <2> HIDE DEF i
    <2>2. all[i] = report[i - m]  BY <1>2, <2>1
    <2> QED  BY <2>1, <2>2
  <1> QED  BY <1>1, <1>2, <1>3 DEF Ends, all, m, r

LEMMA ArriveStep ==
    ASSUME Detectors!CanAssumption, DetectorInv, NEW p \in Ports, Detectors!Arrive(p)
    PROVE  DetectorInv'
  <1> DEFINE old == IF p \in DOMAIN states THEN states[p] ELSE Detectors!Empty
             m == Head(canLine[p])
             new == Detectors!With(old, m)
  <1>0. DetectorTypes /\ TableInv  BY DEF DetectorInv
  <1>1. /\ canLine[p] \in Seq(Detectors!Message) /\ canLine[p] # <<>>
        /\ m \in Detectors!Message /\ Tail(canLine[p]) \in Seq(Detectors!Message)
    BY <1>0, HeadTailProperties DEF Detectors!Arrive, DetectorTypes
  <1>2. /\ canLine' \in [Ports -> Seq(Detectors!Message)] /\ canLine'[p] = Tail(canLine[p])
        /\ \A q \in Ports \ {p} : canLine'[q] = canLine[q]
    BY <1>0, <1>1 DEF Detectors!Arrive, DetectorTypes
  <1>3. old \in State
    <2>1. Detectors!Empty \in State  BY EmptySeq DEF Detectors!Empty, State
    <2> QED  BY <1>0, <2>1 DEF DetectorTypes
  <1>4. new \in State  BY <1>1, <1>3, WithIsState
  <1>5. states' = Detectors!Replaced(states, [known \in {p} |-> new])
    BY DEF Detectors!Arrive
  <1> HIDE DEF new, old
  <1>6. /\ DOMAIN states' = DOMAIN states \cup {p} /\ states'[p] = new
        /\ \A q \in DOMAIN states \ {p} : states'[q] = states[q]
    BY <1>5 DEF Detectors!Replaced
  <1>7. UNCHANGED <<section, attached, told, missed, canSpent>> /\ Detectors!Emit(states')
    BY DEF Detectors!Arrive
  <1>8. DOMAIN states' \subseteq Ports /\ \A q \in DOMAIN states' : states'[q] \in State
    BY <1>0, <1>4, <1>6 DEF DetectorTypes
  <1>9. /\ TableInv' /\ PassedOn' /\ early' \subseteq Ports /\ DOMAIN cache' \subseteq Ports
        /\ \A q \in DOMAIN cache' :
               \/ q \in DOMAIN cache /\ cache'[q] = cache[q]
               \/ /\ q \in DOMAIN states' /\ Detectors!IsComplete(states'[q])
                  /\ cache'[q] = Detectors!Merge(states'[q])
    BY <1>0, <1>7, <1>8, EmitStep
  <1>10. DetectorTypes'
    BY <1>0, <1>2, <1>7, <1>8, <1>9 DEF DetectorTypes
  <1>11. ASSUME NEW q \in Ports \ missed' PROVE Due(q)'
    <2>1. Due(q)  BY <1>7, <1>11 DEF DetectorInv
    <2>2. CASE q # p
      <3>1. canLine'[q] = canLine[q] /\ (q \in DOMAIN states' <=> q \in DOMAIN states)
        BY <1>2, <1>6, <2>2
      <3>2. q \in DOMAIN states => states'[q] = states[q]  BY <1>6, <2>2
      <3> QED  BY <1>7, <2>1, <3>1, <3>2 DEF Due
    <2>3. CASE q = p
      <3> DEFINE t == section[p]
                 report == Detectors!Report(t)
                 n == Len(report) - Len(canLine[p]) + 1
      <3>1. t \in Detectors!AllTrains  BY <1>0 DEF DetectorTypes
      <3>2. Len(report) \in Nat  BY <3>1, ReportShape
      <3>3. /\ Ends(canLine[p], report)
            /\ Len(canLine[p]) < Len(report) =>
                   p \in DOMAIN states
                   /\ Collected(states[p], t, Len(report) - Len(canLine[p]))
        BY <2>1, <2>3 DEF Due
      <3> HIDE DEF t
      <3>4. /\ Ends(Tail(canLine[p]), report) /\ Len(Tail(canLine[p])) = Len(canLine[p]) - 1
            /\ Len(canLine[p]) \in Nat \ {0}
            /\ Len(canLine[p]) <= Len(report) => m = report[n]
        BY <1>1, <3>2, <3>3, EndsShrink
      <3>5. ASSUME Len(Tail(canLine[p])) < Len(report)
            PROVE  Collected(new, t, Len(report) - Len(Tail(canLine[p])))
        <4>1. Len(canLine[p]) <= Len(report) /\ n \in 1 .. Len(report)
              /\ n = Len(report) - Len(Tail(canLine[p]))
              /\ (n > 1 => Len(canLine[p]) < Len(report))
              /\ n - 1 = Len(report) - Len(canLine[p])
          <5>1. \A r \in Nat, l \in Nat \ {0} :
                    l - 1 < r => /\ l <= r /\ r - l + 1 \in 1 .. r /\ r - l + 1 = r - (l - 1)
                                 /\ (r - l + 1 > 1 => l < r) /\ (r - l + 1) - 1 = r - l
            OBVIOUS
          <5> DEFINE l == Len(canLine[p])
                     r == Len(report)
          <5>2. r \in Nat /\ l \in Nat \ {0} /\ l - 1 < r /\ Len(Tail(canLine[p])) = l - 1
            BY <3>2, <3>4, <3>5
          <5> HIDE DEF l, r
          <5>3. /\ l <= r /\ r - l + 1 \in 1 .. r /\ r - l + 1 = r - (l - 1)
                /\ (r - l + 1 > 1 => l < r) /\ (r - l + 1) - 1 = r - l
            BY <5>1, <5>2
          <5> QED  BY <5>2, <5>3 DEF l, r
        <4>2. m = report[n]  BY <3>4, <4>1
        <4> HIDE DEF n
        <4>3. n > 1 => Collected(old, t, n - 1)
          BY <3>3, <4>1 DEF old
        <4>4. Collected(Detectors!With(old, Detectors!Report(t)[n]), t, n)
          BY <1>3, <3>1, <4>1, <4>3, TakeStep
        <4> QED  BY <4>1, <4>2, <4>4 DEF new
      <3>6. section'[p] = t  BY <1>7 DEF t
      <3> QED  BY <1>2, <1>6, <2>3, <3>4, <3>5, <3>6 DEF Due
    <2> QED  BY <2>2, <2>3
  <1>12. ASSUME canSpent'[3] = 0 PROVE CacheIsTold' /\ \A q \in Ports : InReports(q)'
    <2>1. CacheIsTold /\ \A q \in Ports : InReports(q)  BY <1>7, <1>12 DEF DetectorInv
    <2>2. ASSUME NEW q \in Ports PROVE InReports(q)'
      <3>1. PICK tags \in Seq(Label) :
                /\ Succession(tags, canLine[q], told[q])
                /\ IF q \in DOMAIN states THEN Got(states[q], tags[1], told[q])
                   ELSE Ending(tags[1])
        BY <2>1, <2>2 DEF InReports
      <3>2. CASE q # p
        <4>1. canLine'[q] = canLine[q] /\ (q \in DOMAIN states' <=> q \in DOMAIN states)
          BY <1>2, <1>6, <3>2
        <4>2. q \in DOMAIN states => states'[q] = states[q]  BY <1>6, <3>2
        <4> QED  BY <1>7, <3>1, <4>1, <4>2 DEF InReports
      <3>3. CASE q = p
        <4>1. /\ Succession(Tail(tags), Tail(canLine[p]), told[p]) /\ Tail(tags)[1] = tags[2]
              /\ tags[1] \in Label /\ tags[2] \in Label /\ tags[2].of \in told[p]
              /\ tags[2].at \in 1 .. Len(Detectors!Report(tags[2].of))
              /\ tags[1].at \in 1 .. Len(Detectors!Report(tags[1].of))
              /\ Follows(tags[1], tags[2])
              /\ m = Detectors!Report(tags[2].of)[tags[2].at]
          BY <1>1, <3>1, <3>3, SuccessionShrinks
        <4>2. Got(old, tags[1], told[p]) \/ (Ending(tags[1]) /\ old = Detectors!Empty)
          BY <3>1, <3>3 DEF old
        <4>3. told[p] \in SUBSET Detectors!AllTrains  BY <1>0 DEF DetectorTypes
        <4> HIDE DEF m
        <4>4. Got(Detectors!With(old, Detectors!Report(tags[2].of)[tags[2].at]), tags[2], told[p])
          BY <1>3, <4>1, <4>2, <4>3, GotNext
        <4>5. Got(new, tags[2], told[p])  BY <4>1, <4>4 DEF new
        <4>6. Tail(tags) \in Seq(Label)  BY <4>1 DEF Succession
        <4> QED  BY <1>2, <1>6, <1>7, <3>3, <4>1, <4>5, <4>6 DEF InReports
      <3> QED  BY <3>2, <3>3
    <2>3. ASSUME NEW q \in DOMAIN cache'
          PROVE  \E t \in told'[q] : cache'[q] = Detectors!Info(t)
      <3>1. CASE q \in DOMAIN cache /\ cache'[q] = cache[q]
        BY <1>7, <2>1, <3>1 DEF CacheIsTold
      <3>2. CASE /\ q \in DOMAIN states' /\ Detectors!IsComplete(states'[q])
                 /\ cache'[q] = Detectors!Merge(states'[q])
        <4>1. q \in Ports  BY <1>8, <3>2
        <4>2. PICK tags \in Seq(Label) :
                /\ Succession(tags, canLine'[q], told'[q])
                /\ Got(states'[q], tags[1], told'[q])
          BY <2>2, <3>2, <4>1 DEF InReports
        <4>3. tags[1] \in Label /\ tags[1].at \in 1 .. Len(Detectors!Report(tags[1].of))
          <5>1. canLine'[q] \in Seq(Detectors!Message)  BY <1>2, <4>1
          <5>2. Len(canLine'[q]) \in Nat  BY <5>1, LenProperties
          <5>3. 1 \in 1 .. Len(tags)  BY <4>2, <5>2 DEF Succession
          <5> QED  BY <4>2, <5>3, ElementOfSeq DEF Succession
        <4>4. told'[q] \in SUBSET Detectors!AllTrains  BY <1>10, <4>1 DEF DetectorTypes
        <4>5. states'[q] \in State  BY <1>8, <3>2
        <4>6. \E t \in told'[q] : Detectors!Merge(states'[q]) = Detectors!Info(t)
          BY <3>2, <4>2, <4>3, <4>4, <4>5, CompleteIsTold
        <4> QED  BY <3>2, <4>6
      <3> QED  BY <1>9, <2>3, <3>1, <3>2
    <2> QED  BY <2>2, <2>3 DEF CacheIsTold
  <1> QED  BY <1>9, <1>10, <1>11, <1>12 DEF DetectorInv

LEMMA LoseStep ==
    ASSUME Detectors!CanAssumption, DetectorInv, NEW p \in Ports, Detectors!Lose(p)
    PROVE  DetectorInv'
  <1> USE DEF Detectors!Lose, Detectors!OneMore, Detectors!views
  <1>0. DetectorTypes  BY DEF DetectorInv
  <1>1. canLine[p] \in Seq(Detectors!Message) /\ Tail(canLine[p]) \in Seq(Detectors!Message)
    BY <1>0, HeadTailProperties DEF DetectorTypes
  <1>2. /\ canLine' \in [Ports -> Seq(Detectors!Message)]
        /\ \A q \in Ports \ {p} : canLine'[q] = canLine[q]
    BY <1>0, <1>1 DEF DetectorTypes
  <1>3. canSpent' \in [1 .. 3 -> Nat] /\ canSpent'[3] # 0  BY <1>0 DEF DetectorTypes
  <1>4. UNCHANGED <<section, states, cache, attached, canRows, early, told>>  OBVIOUS
  <1>5. missed' = missed \cup {p}  OBVIOUS
  <1>6. DetectorTypes'  BY <1>0, <1>2, <1>3, <1>4, <1>5 DEF DetectorTypes
  <1>7. TableInv' /\ PassedOn'  BY <1>4 DEF DetectorInv, TableInv, PassedOn
  <1>8. ASSUME NEW q \in Ports \ missed' PROVE Due(q)'
    BY <1>2, <1>4, <1>5 DEF DetectorInv, Due
  <1> QED  BY <1>3, <1>6, <1>7, <1>8 DEF DetectorInv

\* A report is added for one port: by trains that move, or by a query.
LEMMA ReportAdded ==
    ASSUME Detectors!CanAssumption, DetectorTypes, NEW p \in Ports,
           section'[p] \in Detectors!AllTrains,
           canLine'[p] = canLine[p] \o Detectors!Report(section'[p]),
           told'[p] = told[p] \cup {section'[p]}, UNCHANGED states
    PROVE  Due(p)' /\ (InReports(p) => InReports(p)')
  <1> DEFINE t == section'[p]
             report == Detectors!Report(section'[p])
  <1>1. report \in Seq(Detectors!Message) /\ Len(report) \in Nat  BY ReportShape
  <1>2. canLine[p] \in Seq(Detectors!Message) /\ told[p] \in SUBSET Detectors!AllTrains
    BY DEF DetectorTypes
  <1>3. Due(p)'
    <2>1. Ends(canLine[p] \o report, report) /\ ~(Len(canLine[p] \o report) < Len(report))
      BY <1>1, <1>2, EndsWith
    <2> QED  BY <2>1 DEF Due
  <1>4. ASSUME InReports(p) PROVE InReports(p)'
    <2>1. PICK tags \in Seq(Label) :
              /\ Succession(tags, canLine[p], told[p])
              /\ IF p \in DOMAIN states THEN Got(states[p], tags[1], told[p]) ELSE Ending(tags[1])
      BY <1>4 DEF InReports
    <2> DEFINE more == told'[p]
    <2>2. more \in SUBSET Detectors!AllTrains /\ told[p] \subseteq more /\ t \in more
      BY <1>2
    <2>3. /\ Succession(LongerTags(tags, t), LongerList(canLine[p], t), more)
          /\ LongerTags(tags, t)[1] = tags[1]
      <3>1. t \in Detectors!AllTrains  OBVIOUS
      <3>2. Len(tags) >= 1
        <4>1. Len(canLine[p]) \in Nat /\ Len(tags) = Len(canLine[p]) + 1
          BY <1>2, <2>1, LenProperties DEF Succession
        <4> QED  BY <4>1
      <3> HIDE DEF t, more
      <3>3. Succession(LongerTags(tags, t), LongerList(canLine[p], t), more)
        BY <1>2, <2>1, <2>2, SuccessionGrows
      <3>4. LongerTags(tags, t)[1] = tags[1]  BY <3>1, <3>2, LongerStart
      <3> QED  BY <3>3, <3>4
    <2>4. \A s, a : Got(s, a, told[p]) => Got(s, a, more)  BY <2>2 DEF Got
    <2>5. LongerTags(tags, t) \in Seq(Label)  BY <2>3 DEF Succession
    <2> HIDE DEF t
    <2>6. Succession(LongerTags(tags, t), canLine'[p], told'[p])  BY <2>3 DEF LongerList, t
    <2>7. IF p \in DOMAIN states' THEN Got(states'[p], LongerTags(tags, t)[1], told'[p])
          ELSE Ending(LongerTags(tags, t)[1])
      BY <2>1, <2>3, <2>4
    <2> QED  BY <2>5, <2>6, <2>7 DEF InReports
  <1> QED  BY <1>3, <1>4

LEMMA MoveStep ==
    ASSUME Detectors!CanAssumption, DetectorInv, NEW p \in Ports,
           NEW train \in Detectors!AllTrains, Detectors!Move(p, train)
    PROVE  DetectorInv'
  <1> USE DEF Detectors!Move, Detectors!OneMore, Detectors!views
  <1>0. DetectorTypes  BY DEF DetectorInv
  <1>1. /\ section'[p] = train /\ canLine'[p] = canLine[p] \o Detectors!Report(train)
        /\ told'[p] = told[p] \cup {train} /\ section' \in [Ports -> Detectors!AllTrains]
        /\ \A q \in Ports \ {p} : /\ section'[q] = section[q] /\ canLine'[q] = canLine[q]
                                  /\ told'[q] = told[q]
    BY <1>0 DEF DetectorTypes
  <1>2. UNCHANGED <<states, cache, attached, canRows, early, missed>>  OBVIOUS
  <1>3. canSpent' \in [1 .. 3 -> Nat] /\ canSpent'[3] = canSpent[3]  BY <1>0 DEF DetectorTypes
  <1>4. canLine[p] \o Detectors!Report(train) \in Seq(Detectors!Message)
    <2>1. Detectors!Report(train) \in Seq(Detectors!Message)  BY ReportShape
    <2>2. canLine[p] \in Seq(Detectors!Message)  BY <1>0 DEF DetectorTypes
    <2> QED  BY <2>1, <2>2, ConcatProperties
  <1>5. DetectorTypes'
    <2>1. canLine' \in [Ports -> Seq(Detectors!Message)]  BY <1>0, <1>4 DEF DetectorTypes
    <2>2. told' \in [Ports -> SUBSET Detectors!AllTrains]  BY <1>0 DEF DetectorTypes
    <2> QED  BY <1>0, <1>1, <1>2, <1>3, <2>1, <2>2 DEF DetectorTypes
  <1>6. TableInv' /\ PassedOn'  BY <1>2 DEF DetectorInv, TableInv, PassedOn
  <1>7. Due(p)' /\ (InReports(p) => InReports(p)')  BY <1>0, <1>1, <1>2, ReportAdded
  <1>8. ASSUME NEW q \in Ports \ missed' PROVE Due(q)'
    <2>1. CASE q = p  BY <1>7, <2>1
    <2>2. CASE q # p
      <3>1. Due(q)  BY <1>2, <1>8 DEF DetectorInv
      <3> QED  BY <1>1, <1>2, <2>2, <3>1 DEF Due
    <2> QED  BY <2>1, <2>2
  <1>9. ASSUME canSpent'[3] = 0 PROVE CacheIsTold' /\ \A q \in Ports : InReports(q)'
    <2>1. CacheIsTold /\ \A q \in Ports : InReports(q)  BY <1>3, <1>9 DEF DetectorInv
    <2>2. \A q \in Ports : told[q] \subseteq told'[q]  BY <1>1
    <2>3. CacheIsTold'
      <3>1. DOMAIN cache \subseteq Ports  BY <1>0 DEF DetectorTypes
      <3> QED  BY <1>2, <2>1, <2>2, <3>1 DEF CacheIsTold
    <2>4. ASSUME NEW q \in Ports PROVE InReports(q)'
      <3>1. CASE q = p  BY <1>7, <2>1, <3>1
      <3>2. CASE q # p  BY <1>1, <1>2, <2>1, <3>2 DEF InReports
      <3> QED  BY <3>1, <3>2
    <2> QED  BY <2>3, <2>4
  <1> QED  BY <1>5, <1>6, <1>8, <1>9 DEF DetectorInv

LEMMA QueryStep ==
    ASSUME Detectors!CanAssumption, DetectorInv, Detectors!Query
    PROVE  DetectorInv'
  <1> USE DEF Detectors!Query, Detectors!OneMore, Detectors!views
  <1>0. DetectorTypes  BY DEF DetectorInv
  <1>1. UNCHANGED <<section, states, cache, attached, canRows, early>>  OBVIOUS
  <1>2. missed' = {}  OBVIOUS
  <1>3. canSpent' \in [1 .. 3 -> Nat] /\ canSpent'[3] = canSpent[3]  BY <1>0 DEF DetectorTypes
  <1>4. ASSUME NEW q \in Ports
        PROVE  /\ section'[q] \in Detectors!AllTrains /\ section'[q] = section[q]
               /\ canLine'[q] = canLine[q] \o Detectors!Report(section'[q])
               /\ told'[q] = told[q] \cup {section'[q]}
               /\ canLine[q] \o Detectors!Report(section'[q]) \in Seq(Detectors!Message)
    <2>1. section'[q] = section[q] /\ section[q] \in Detectors!AllTrains
      BY <1>0, <1>1 DEF DetectorTypes
    <2>2. Detectors!Report(section[q]) \in Seq(Detectors!Message)  BY <2>1, ReportShape
    <2>3. canLine[q] \in Seq(Detectors!Message)  BY <1>0 DEF DetectorTypes
    <2>4. canLine[q] \o Detectors!Report(section[q]) \in Seq(Detectors!Message)
      BY <2>2, <2>3, ConcatProperties
    <2> QED  BY <2>1, <2>4
  <1>5. DetectorTypes'
    <2>1. canLine' \in [Ports -> Seq(Detectors!Message)]  BY <1>4
    <2>2. told' \in [Ports -> SUBSET Detectors!AllTrains]  BY <1>0, <1>4 DEF DetectorTypes
    <2> QED  BY <1>0, <1>1, <1>2, <1>3, <2>1, <2>2 DEF DetectorTypes
  <1>6. TableInv' /\ PassedOn'  BY <1>1 DEF DetectorInv, TableInv, PassedOn
  <1>7. \A q \in Ports : Due(q)' /\ (InReports(q) => InReports(q)')
    BY <1>0, <1>1, <1>4, ReportAdded
  <1>8. ASSUME canSpent'[3] = 0 PROVE CacheIsTold' /\ \A q \in Ports : InReports(q)'
    <2>1. CacheIsTold /\ \A q \in Ports : InReports(q)  BY <1>3, <1>8 DEF DetectorInv
    <2>2. \A q \in Ports : told[q] \subseteq told'[q]  BY <1>4
    <2>3. CacheIsTold'
      <3>1. DOMAIN cache \subseteq Ports  BY <1>0 DEF DetectorTypes
      <3> QED  BY <1>1, <2>1, <2>2, <3>1 DEF CacheIsTold
    <2> QED  BY <1>7, <2>1, <2>3
  <1> QED  BY <1>5, <1>6, <1>7, <1>8 DEF DetectorInv

\* Nothing changes, or only that the table is attached.
LEMMA AttachStep ==
    ASSUME DetectorInv,
           UNCHANGED <<section, canLine, states, cache, canRows, early, told, missed, canSpent>>,
           attached' = attached \/ attached' = TRUE
    PROVE  DetectorInv'
  <1>1. DetectorTypes /\ DetectorTypes'  BY DEF DetectorInv, DetectorTypes
  <1>2. TableInv' /\ PassedOn'  BY <1>1 DEF DetectorInv, TableInv, PassedOn, DetectorTypes
  <1>3. \A p \in Ports \ missed' : Due(p)'  BY DEF DetectorInv, Due
  <1>4. canSpent'[3] = 0 => CacheIsTold' /\ \A p \in Ports : InReports(p)'
    BY DEF DetectorInv, CacheIsTold, InReports
  <1> QED  BY <1>1, <1>2, <1>3, <1>4 DEF DetectorInv

LEMMA DetectorStep ==
    ASSUME Detectors!CanAssumption, DetectorInv, [Detectors!Next]_Detectors!vars
    PROVE  DetectorInv'
  <1>1. ASSUME NEW p \in Ports, Detectors!Arrive(p) PROVE DetectorInv'  BY <1>1, ArriveStep
  <1>2. ASSUME NEW p \in Ports, Detectors!Lose(p) PROVE DetectorInv'  BY <1>2, LoseStep
  <1>3. ASSUME NEW p \in Ports, NEW train \in Detectors!AllTrains, Detectors!Move(p, train)
        PROVE  DetectorInv'
    BY <1>3, MoveStep
  <1>4. CASE Detectors!Query  BY <1>4, QueryStep
  <1>5. CASE Detectors!Attach  BY <1>5, AttachStep DEF Detectors!Attach
  <1>6. CASE UNCHANGED Detectors!vars
    BY <1>6, AttachStep DEF Detectors!vars, Detectors!views
  <1> QED  BY <1>1, <1>2, <1>3, <1>4, <1>5, <1>6 DEF Detectors!Next, Detectors!AllTrains

LEMMA DetectorImplies ==
    ASSUME Detectors!CanAssumption, DetectorInv
    PROVE  Detectors!DetectorsFollow
  <1>0. DetectorTypes /\ TableInv /\ PassedOn  BY DEF DetectorInv
  <1>1. ASSUME canSpent[3] = 0, NEW p \in DOMAIN canRows
        PROVE  \E train \in told[p] : canRows[p] = Detectors!Info(train)
    <2>1. p \in DOMAIN cache /\ canRows[p] = cache[p]  BY <1>0 DEF TableInv
    <2> QED  BY <1>1, <2>1 DEF DetectorInv, CacheIsTold
  <1>2. ASSUME missed = {},
               \A p \in Ports : canLine[p] = <<>> /\ section[p] # Decoderless,
               NEW p \in Ports \ early
        PROVE  p \in DOMAIN canRows /\ canRows[p].vehicles = section[p]
    <2>1. ASSUME NEW q \in Ports
          PROVE  /\ q \in DOMAIN states /\ Detectors!IsComplete(states[q])
                 /\ Detectors!Merge(states[q]).vehicles = section[q]
      <3>1. section[q] \in Trains /\ section[q] \in Detectors!AllTrains
        BY <1>0, <1>2 DEF DetectorTypes, Detectors!AllTrains
      <3>2. Len(Detectors!Report(section[q])) \in Nat /\ Len(Detectors!Report(section[q])) >= 2
        BY <3>1, ReportShape
      <3>3. Len(canLine[q]) = 0  BY <1>2, EmptySeq
      <3>4. q \in DOMAIN states
            /\ Collected(states[q], section[q], Len(Detectors!Report(section[q])))
        <4> DEFINE n == Len(Detectors!Report(section[q]))
                   l == Len(canLine[q])
        <4>1. Due(q)  BY <1>2 DEF DetectorInv
        <4>2. l < n => q \in DOMAIN states /\ Collected(states[q], section[q], n - l)
          BY <4>1 DEF Due
        <4>3. n \in Nat /\ n >= 2 /\ l = 0  BY <3>2, <3>3
        <4> HIDE DEF n, l
        <4>4. l < n /\ n - l = n  BY <4>3
        <4> QED  BY <4>2, <4>4 DEF n
      <3>5. states[q] \in State  BY <1>0, <3>4 DEF DetectorTypes
      <3> QED  BY <3>1, <3>4, <3>5, CollectedIsShown
    <2>2. DOMAIN states \subseteq Ports  BY <1>0 DEF DetectorTypes
    <2>3. p \in DOMAIN cache /\ cache[p] = Detectors!Merge(states[p])
      BY <1>0, <2>1, <2>2 DEF PassedOn
    <2>4. p \in DOMAIN canRows /\ canRows[p] = cache[p]  BY <1>0, <1>2, <2>3 DEF TableInv
    <2> QED  BY <2>1, <2>3, <2>4
  <1> QED  BY <1>1, <1>2 DEF Detectors!DetectorsFollow

\* The table of detectors shows trains as a whole, never the vehicles of two, and follows
\* what stands on the sections, for any number of ports, any trains however long, and
\* messages of all ports in any order.
THEOREM DetectorsAreFollowed ==
    ASSUME Detectors!CanAssumption
    PROVE  Detectors!Spec => []Detectors!DetectorsFollow
  <1>1. Detectors!Init => DetectorInv  BY DetectorsInit
  <1>2. DetectorInv /\ [Detectors!Next]_Detectors!vars => DetectorInv'  BY DetectorStep
  <1>3. DetectorInv => Detectors!DetectorsFollow  BY DetectorImplies
  <1> QED  BY <1>1, <1>2, <1>3, PTL DEF Detectors!Spec

-----------------------------------------------------------------------------
(* All parts together.                                                       *)

\* Whatever the parts do between its steps, each of them behaves as it does alone.
LEMMA PartsAlone ==
    /\ DevicesSpec => Meter!Spec
    /\ DevicesSpec => Esu!Spec
    /\ DevicesSpec => Detectors!Spec
  <1> DEFINE all == <<vars, meter, esu, detectors>>
  <1>1. DevicesInit => Meter!Init /\ Esu!Init /\ Detectors!Init
    BY DEF DevicesInit
  <1>2. [DevicesNext]_all => [Meter!Next]_Meter!vars
    BY DEF DevicesNext, meter, Meter!vars, Meter!ring
  <1>3. [DevicesNext]_all => [Esu!Next]_Esu!vars
    BY DEF DevicesNext, esu, Esu!vars, Esu!link
  <1>4. [DevicesNext]_all => [Detectors!Next]_Detectors!vars
    BY DEF DevicesNext, detectors, Detectors!vars, Detectors!views
  <1> QED
    BY <1>1, <1>2, <1>3, <1>4, PTL DEF DevicesSpec, Meter!Spec, Esu!Spec, Detectors!Spec

\* The speed that is shown is the mean of samples of this session.
THEOREM SpeedIsMeasuredInDevices == DevicesSpec => []SpeedIsOfThisSession
  <1>1. Meter!SpeedIsOfThisSession => SpeedIsOfThisSession  BY DEF SpeedIsOfThisSession
  <1>2. Meter!SpeedCatAssumption  BY DevicesAssumption DEF DevicesAssumption
  <1>3. Meter!Spec => []Meter!SpeedIsOfThisSession  BY <1>2, SpeedIsMeasured
  <1> QED  BY <1>1, <1>3, PartsAlone, PTL

\* Commands are done in the power mode they need, the programmer is in the mode the app
\* believes in when all is done, and no frame stays disabled without a request that will
\* enable it.
THEOREM CommandsDoneInDevices == DevicesSpec => []CommandsAreDone
  <1>1. Esu!CommandsAreDone => CommandsAreDone  BY DEF CommandsAreDone
  <1>2. Esu!ProgrammerAssumption  BY DevicesAssumption DEF DevicesAssumption
  <1>3. Esu!Spec => []Esu!CommandsAreDone  BY <1>2, CommandsDone
  <1> QED  BY <1>1, <1>3, PartsAlone, PTL

\* The table of detectors shows trains as a whole, and follows what stands on the sections.
THEOREM DetectorsAreFollowedInDevices == DevicesSpec => []DetectorsFollow
  <1>1. Detectors!DetectorsFollow => DetectorsFollow  BY DEF DetectorsFollow
  <1>2. Detectors!CanAssumption  BY DevicesAssumption DEF DevicesAssumption
  <1>3. Detectors!Spec => []Detectors!DetectorsFollow  BY <1>2, DetectorsAreFollowed
  <1> QED  BY <1>1, <1>3, PartsAlone, PTL
=============================================================================
