---------------------------- MODULE EsuProgrammer ----------------------------
(* The ESU programmer application: two debug frames that send DCC and USART  *)
(* commands (apps/esuprogrammer/mainwindow.cpp) through a LokProgrammer that *)
(* switches the power mode first (apps/esuprogrammer/lokprogrammer.cpp).     *)
(*                                                                           *)
(* Abstractions.  The LokProgrammer answers its requests in order, and does  *)
(* or refuses what it is asked; what Reset and the magic requests do is not  *)
(* known.  The lists of requests behind the USART button are one list, with  *)
(* no answer that is looked at.  Requests have numbers of their own, writing *)
(* a frame does not fail, and the recordings and their parser are left out.  *)
EXTENDS Integers, SequencesExt

CONSTANTS
    ListSize,       \* requests of the USART button
    MaxClicks,      \* bound: buttons pressed, the check box included
    MaxRefusals     \* bound: requests that are refused

ProgrammerAssumption == ListSize \in Nat \ {0} /\ {MaxClicks, MaxRefusals} \subseteq Nat

Frames == {"dcc", "usart"}
Modes  == {"Disabled", "Enabled", "Service"}
Nobody == "nobody"      \* a request without callback

VARIABLES
    port,           \* "none", "closed" or "open": LokProgrammer::Private::serialPort
    failed,         \* errorString is not empty
    powerMode,      \* Private::powerMode
    enabled,        \* the frames that are enabled
    programming,    \* debugDccProgrammingModeBox
    requests,       \* requests the LokProgrammer has not seen
    answers,        \* answers not received, each with the callback of its request
    actual,         \* the power mode of the LokProgrammer
    misled,         \* history: powerMode may be wrong
    spoiled,        \* history: a command was done in another mode than asked for
    spent           \* history: <<clicks, refusals>>

link == <<port, failed>>
vars == <<link, powerMode, enabled, programming, requests, answers, actual, misled, spoiled, spent>>

OneMore(i, bound) == spent[i] < bound /\ spent' = [spent EXCEPT ![i] = @ + 1]
Click == OneMore(1, MaxClicks)

Init ==
    /\ port = "none" /\ failed = FALSE /\ powerMode = "Disabled" /\ enabled = {}
    /\ programming = FALSE /\ requests = <<>> /\ answers = <<>> /\ actual = "Disabled"
    /\ misled = FALSE /\ spoiled = FALSE /\ spent = <<0, 0>>

State ==
    CASE port = "none"   -> "Disconnected"
      [] port # "none" /\ failed -> "Error"
      [] port = "closed" /\ ~failed -> "Connecting"
      [] OTHER -> "Connected"

\* onProgrammerStateChanged()
FramesFor(state) == IF state = "Connected" THEN Frames ELSE {}

\* disconnectFromDevice(): neither the pending requests, nor the power mode, nor the
\* error are reset.
DropSession ==
    /\ requests' = <<>> /\ answers' = <<>>
    /\ misled' = (misled \/ requests \o answers # <<>>)

\* onConnectButtonPressed(), connectToDevice(): the port opens or not.
Connect ==
    /\ State = "Disconnected" /\ Click
    /\ \/ port' = "open" /\ UNCHANGED failed
       \/ port' = "closed" /\ failed' = TRUE
    /\ enabled' = FramesFor(State')
    /\ DropSession
    /\ UNCHANGED <<powerMode, programming, actual, spoiled>>

Disconnect ==
    /\ State # "Disconnected" /\ Click
    /\ port' = "none" /\ enabled' = {}
    /\ DropSession
    /\ UNCHANGED <<failed, powerMode, programming, actual, spoiled>>

Toggle ==
    /\ "dcc" \in enabled /\ Click
    /\ programming' = ~programming
    /\ UNCHANGED <<link, powerMode, enabled, requests, answers, actual, misled, spoiled>>

(***************************************************************************)
(* Requests: what is asked, by which frame, for which power mode.          *)
(***************************************************************************)

Ask(what, frame, mode) == <<[what |-> what, frame |-> frame, mode |-> mode, left |-> 0]>>

\* DCC sends one command, USART a list, one after the other.
Command(frame, mode, left) ==
    <<[what |-> "command", frame |-> frame, mode |-> mode, left |-> left]>>

FirstCommand(frame, mode) == Command(frame, mode, IF frame = "dcc" THEN 1 ELSE ListSize)

\* powerOn(): nothing to do in the mode we believe in.
PowerOn(frame, mode) ==
    IF powerMode = mode THEN FirstCommand(frame, mode) ELSE Ask("reset", frame, mode)

Busy == requests \o answers # <<>>

\* onDebugDccSendButtonPressed() and onDebugUsartSendButtonPressed().
Press(frame) ==
    /\ frame \in enabled /\ Click
    /\ enabled' = enabled \ {frame}
    /\ requests' = requests \o
            PowerOn(frame, IF frame = "usart" \/ programming THEN "Service" ELSE "Enabled")
    /\ misled' = (misled \/ Busy)
    /\ UNCHANGED <<link, powerMode, programming, answers, actual, spoiled>>

(***************************************************************************)
(* The answers and their callbacks.                                        *)
(***************************************************************************)

\* What a callback does: the requests it sends, the mode it believes in then, and
\* whether its frame is enabled again.
Then(more, mode, done) == [more |-> more, mode |-> mode, done |-> done]
GiveUp == Then(<<>>, powerMode, TRUE)

PowerAnswered(frame, mode) ==
    IF mode = "Enabled"
    THEN Then(Ask("magic", frame, mode), powerMode, FALSE)
    ELSE Then(Ask("magic", Nobody, mode) \o Ask("acknowledge", frame, mode), powerMode, FALSE)

CommandAnswered(frame, mode, left) ==
    IF left > 1 THEN Then(Command(frame, mode, left - 1), powerMode, FALSE)
    ELSE IF frame = "usart" \/ programming
         THEN Then(Ask("off", frame, "Disabled"), powerMode, FALSE)
         ELSE Then(<<>>, powerMode, TRUE)

\* A slip of powerOff(): the mode we believe in stays.
OffForgotten(ok) == GiveUp
\* powerOff()
OffAnswered(ok) == IF ok THEN Then(<<>>, "Disabled", TRUE) ELSE GiveUp

Callback(a) ==
    CASE a.frame = Nobody   -> Then(<<>>, powerMode, FALSE)
      [] a.what = "reset"   -> Then(Ask("power", a.frame, a.mode), powerMode, FALSE)
      [] a.what = "command" -> CommandAnswered(a.frame, a.mode, a.left)
      [] a.what = "magic" /\ a.frame # Nobody -> Then(FirstCommand(a.frame, a.mode), "Enabled", FALSE)
      [] a.what = "power"   -> IF a.ok THEN PowerAnswered(a.frame, a.mode) ELSE GiveUp
      [] a.what = "acknowledge" ->
            IF a.ok THEN Then(FirstCommand(a.frame, a.mode), "Service", FALSE) ELSE GiveUp
      [] a.what = "off" -> OffAnswered(a.ok)

\* parseMessage()
Receive ==
    /\ answers # <<>> /\ answers' = Tail(answers)
    /\ LET a == Head(answers)
           then == Callback(a)
       IN  /\ requests' = requests \o then.more
           /\ powerMode' = then.mode
           /\ enabled' = IF then.done THEN enabled \cup {a.frame} ELSE enabled
    /\ UNCHANGED <<link, programming, actual, misled, spoiled, spent>>

\* The LokProgrammer does what it is asked, or refuses.
Execute ==
    /\ requests # <<>> /\ requests' = Tail(requests)
    /\ LET r == Head(requests)
           answer(ok) == [what |-> r.what, frame |-> r.frame, mode |-> r.mode,
                          left |-> r.left, ok |-> ok]
       IN  \/ /\ answers' = Append(answers, answer(TRUE))
              /\ actual' = IF r.what \in {"power", "off"} THEN r.mode ELSE actual
              /\ spoiled' = (spoiled \/ (r.what = "command" /\ r.mode # actual))
              /\ UNCHANGED <<misled, spent>>
           \/ /\ r.what \in {"power", "acknowledge", "off"} /\ OneMore(2, MaxRefusals)
              /\ answers' = Append(answers, answer(FALSE))
              /\ misled' = (misled \/ r.what = "acknowledge")
              /\ UNCHANGED <<actual, spoiled>>
    /\ UNCHANGED <<link, powerMode, enabled, programming>>

Next ==
    \/ Connect \/ Disconnect \/ Toggle \/ Execute \/ Receive
    \/ \E frame \in Frames : Press(frame)

Spec == Init /\ [][Next]_vars

-----------------------------------------------------------------------------

Request == [what : {"reset", "power", "magic", "acknowledge", "command", "off"},
            frame : Frames \cup {Nobody}, mode : Modes, left : 0..ListSize]

TypeOK ==
    /\ port \in {"none", "closed", "open"} /\ {failed, programming, misled, spoiled} \subseteq BOOLEAN
    /\ powerMode \in Modes /\ actual \in Modes /\ enabled \subseteq Frames
    /\ requests \in Seq(Request) /\ Len(answers) <= 6

\* The places of what a frame has asked for.
Of(f, s) == {i \in DOMAIN s : s[i].frame = f}

\* One request of the frame is under way, or its answer.
Awaited(f) ==
    \/ Of(f, answers) = {} /\ \E i \in DOMAIN requests : Of(f, requests) = {i}
    \/ Of(f, requests) = {} /\ \E i \in DOMAIN answers : Of(f, answers) = {i}

\* Of commands that did not overlap with those of the other frame, with the end of a
\* session or with a refused acknowledge mode, each was done in the power mode it needs,
\* and when all is done the programmer is in the mode the app believes in.  A frame that
\* is disabled while connected waits for one request that will enable it again.
\* See powerOn(), powerOff() and onDebugDccSendButtonPressed().
CommandsAreDone ==
    /\ ~misled => ~spoiled /\ (Busy \/ powerMode = actual)
    /\ State = "Connected" => \A f \in Frames \ enabled : Awaited(f)
=============================================================================
