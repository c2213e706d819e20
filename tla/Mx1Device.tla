----------------------------- MODULE Mx1Device -----------------------------
(* The ZIMO MX1: lmrs::zimo::mx1::Device (lmrs/zimo/mx1device.cpp) with its  *)
(* power, variable and vehicle controls, the serial line and the command     *)
(* station (external).                                                       *)
(*                                                                           *)
(* Requests wait in a queue, whose head is under way: any primary response   *)
(* removes it and sends the next one.  Observers wait for the responses with *)
(* the sequence number and code of their request.  Nothing is sent twice and *)
(* no request times out.                                                     *)
(*                                                                           *)
(* Abstractions.  The number of a request is its sequence number, which has  *)
(* eight bits: the bounds stay below 256.  Writing to the open port          *)
(* succeeds.  A frame that arrives damaged counts as lost (see FrameStream). *)
(* The callbacks that queue requests never find so many observers that the   *)
(* hash they are called from grows.  The station has one vehicle and one     *)
(* host, and answers every request it gets.                                  *)
EXTENDS Integers, SequencesExt, Functions

CONSTANTS
    Bursts,         \* how many frames one chunk from the line may complete
    MaxEvents       \* bound: sessions, requests of the views and frames lost

ASSUME Mx1Assumption ==
    Bursts \subseteq Nat \ {0} /\ MaxEvents \in Nat /\ 5 * MaxEvents < 255

Power == {"PowerOff", "PowerOn", "EmergencyStop"}
Speed == {"halt", "run"}
Unset == "unset"

\* Request codes, with what distinguishes requests of the same code.
Kind == {"reset", "start", "query", "equipment", "status",
         "power", "variable", "vehicle"}
Request == [id: 1..255, kind: Kind, arg: Power \union Speed \union {Unset}]
\* "data" is a response of another length than a mere status has.
Response == [primary: BOOLEAN, id: 1..255, kind: Kind,
             status: {"succeeded", "failed", "data"}, value: Power \union {Unset}]

VARIABLES
    open,       \* the serial port is open
    host,       \* Device::Private and its controls, see Init
    toHost,     \* responses on the line
    later,      \* secondary responses the station still has to send
    power,      \* the track power of the station
    speed,      \* the speed of the vehicle in the station
    burst,      \* the most frames a chunk completes
    connects, asked, lost,
    cut         \* history: a session ended with a request under way

vars == <<open, host, toHost, later, power, speed, burst, connects, asked, lost, cut>>

Init ==
    /\ open = FALSE
    /\ host = [known     |-> FALSE,         \* deviceInfo is not empty; it is never cleared
               timer     |-> FALSE,         \* connectTimeoutId is not zero
               slots     |-> 0,             \* connections of readyRead() to onReadyRead()
               queue     |-> <<>>,          \* requestQueue
               observers |-> {},            \* observers, by their requests
               buffer    |-> <<>>,          \* the frames in the buffer of streamReader
               power     |-> "PowerOff",    \* PowerControl::currentState
               speed     |-> Unset,         \* the vehicle in VehicleControl::vehicles
               next      |-> 1,             \* nextSequence
               line      |-> <<>>,          \* requests on the line
               sent      |-> <<>>,          \* history: numbers of the requests written
               told      |-> <<>>]          \* history: numbers of the calls that got a result
    /\ toHost = <<>> /\ later = {}
    /\ power \in Power /\ speed = "halt" /\ burst \in Bursts
    /\ connects = 0 /\ asked = 0 /\ lost = 0 /\ cut = FALSE

\* What happens to the device from outside shares one bound.
Eventful == connects + asked + lost < MaxEvents

State(o, h) == IF ~o THEN "Disconnected" ELSE IF h.known THEN "Connected" ELSE "Connecting"

-----------------------------------------------------------------------------
(* The device, as functions of its state h.                                  *)

\* Vehicles are controlled without an observer.
FlushQueue(h) ==
    IF h.queue = <<>> THEN h
    ELSE LET request == Head(h.queue)
         IN  [h EXCEPT !.line = Append(@, request),
                       !.sent = Append(@, request.id),
                       !.observers = IF request.kind = "vehicle" THEN @ ELSE @ \union {request}]

\* A slip: every request is sent at once.
QueueEager(h, kind, arg) ==
    FlushQueue([h EXCEPT !.queue = Append(@, [id |-> h.next, kind |-> kind, arg |-> arg]),
                         !.next = @ + 1])
\* queueRequest() with a request that was just made.
QueueRequest(h, kind, arg) ==
    LET g == [h EXCEPT !.queue = Append(@, [id |-> h.next, kind |-> kind, arg |-> arg]),
                       !.next = @ + 1]
    IN  IF Len(g.queue) = 1 THEN FlushQueue(g) ELSE g

UpdateDeviceInfo(h) ==
    QueueRequest(QueueRequest(QueueRequest(h, "query", Unset), "equipment", Unset),
                 "status", Unset)

Forget(h, request) == [h EXCEPT !.observers = @ \ {request}]
Tell(h, request)   == [Forget(h, request) EXCEPT !.told = Append(@, request.id)]

\* The callbacks: Proceed keeps the observer, Done and Abort forget it.
Observe(h, request, response) ==
    CASE request.kind = "reset" -> Forget(QueueRequest(h, "start", Unset), request)
      [] request.kind = "start" ->
            Forget(UpdateDeviceInfo([h EXCEPT !.timer = FALSE, !.known = TRUE]), request)
      [] request.kind = "query" -> Forget([h EXCEPT !.power = response.value], request)
      [] request.kind = "equipment" ->
            IF response.status = "data" THEN Forget(h, request) ELSE h
      [] request.kind = "status" -> Forget(h, request)
      [] request.kind = "power" ->
            Tell(IF response.status = "succeeded" THEN [h EXCEPT !.power = request.arg] ELSE h,
                 request)
      [] request.kind = "variable" ->
            IF response.status = "succeeded" THEN h ELSE Tell(h, request)

\* A slip: every response is taken for that to the head.
TakeAny(h, response) ==
    IF h.queue # <<>> THEN FlushQueue([h EXCEPT !.queue = Tail(@)]) ELSE h
\* A slip: the next request is not sent.
TakeOnly(h, response) ==
    IF response.primary /\ h.queue # <<>> THEN [h EXCEPT !.queue = Tail(@)] ELSE h
\* A primary response completes the head, whatever it responds to.
TakePrimary(h, response) ==
    IF response.primary /\ h.queue # <<>>
    THEN FlushQueue([h EXCEPT !.queue = Tail(@)]) ELSE h

HandleResponse(h, response) ==
    LET g     == TakePrimary(h, response)
        found == {r \in g.observers : r.id = response.id /\ r.kind = response.kind}
    IN  IF found = {} THEN g ELSE Observe(g, CHOOSE r \in found : TRUE, response)

\* One call reads one frame only; more stay in the buffer.
OnReadyRead(h) ==
    IF h.buffer = <<>> THEN h
    ELSE HandleResponse([h EXCEPT !.buffer = Tail(@)], Head(h.buffer))

\* The signal calls the slot once for each connection.
ReadyRead(h) ==
    LET after[n \in 0..h.slots] == IF n = 0 THEN h ELSE OnReadyRead(after[n - 1])
    IN  after[h.slots]

-----------------------------------------------------------------------------
(* Sessions.  Disconnecting misses the connections of readyRead(), and keeps *)
(* the queue, the observers and what is known of the device.                 *)

environment == <<later, power, speed, burst>>

\* A slip: readyRead() is not connected.
ConnectDeaf(h) == QueueRequest([h EXCEPT !.timer = TRUE, !.buffer = <<>>], "reset", Unset)
\* connectToDevice() once the port is open, with startCommunication().
Start(h) ==
    QueueRequest([h EXCEPT !.timer = TRUE, !.slots = @ + 1, !.buffer = <<>>], "reset", Unset)

ConnectToDevice ==
    /\ ~open /\ Eventful
    /\ open' = TRUE /\ connects' = connects + 1
    /\ host' = Start(host)
    /\ UNCHANGED <<toHost, environment, asked, lost, cut>>

\* Closing the port discards what was not read.
Close ==
    /\ open' = FALSE /\ toHost' = <<>>
    /\ host' = [host EXCEPT !.timer = FALSE, !.buffer = <<>>]
    /\ cut' = (cut \/ host.queue # <<>>)
    /\ UNCHANGED <<environment, connects, asked, lost>>

DisconnectFromDevice == open /\ Close

\* timerEvent() and reportError().
ConnectTimeout == host.timer /\ Close

-----------------------------------------------------------------------------
(* The views, which use the controls of connected devices only.              *)

Ask(h) ==
    /\ State(open, host) = "Connected" /\ Eventful
    /\ asked' = asked + 1 /\ host' = h
    /\ UNCHANGED <<open, toHost, environment, connects, lost, cut>>

SwitchPower(on) == Ask(QueueRequest(host, "power", IF on THEN "PowerOn" ELSE "PowerOff"))
AccessVariable  == Ask(QueueRequest(host, "variable", Unset))
SetSpeed(s)     == Ask(QueueRequest([host EXCEPT !.speed = s], "vehicle", s))
AskDeviceInfo   == Ask(UpdateDeviceInfo(host))

-----------------------------------------------------------------------------
(* The line and the station.                                                 *)

Respond(request, status, value) ==
    [primary |-> TRUE, id |-> request.id, kind |-> request.kind,
     status |-> status, value |-> value]

\* What a closed port gets is gone.
Send(frames) == toHost' = IF open THEN toHost \o frames ELSE toHost

\* The station executes the next request; the value of a variable and a long
\* description of the equipment may come later.
Execute ==
    /\ host.line # <<>>
    /\ host' = [host EXCEPT !.line = Tail(@)]
    /\ LET request == Head(host.line)
           answer(status, value) == Send(<<Respond(request, status, value)>>)
       IN  \/ /\ request.kind \in {"reset", "start", "status"}
              /\ answer("data", Unset) /\ UNCHANGED <<later, power, speed>>
           \/ /\ request.kind = "query"
              /\ answer("data", power) /\ UNCHANGED <<later, power, speed>>
           \/ /\ request.kind = "equipment"
              /\ answer("data", Unset) /\ UNCHANGED <<later, power, speed>>
           \/ /\ request.kind \in {"equipment", "variable"}
              /\ answer("succeeded", Unset) /\ UNCHANGED <<power, speed>>
              /\ later' = later \union {[Respond(request, "data", Unset) EXCEPT !.primary = FALSE]}
           \/ /\ request.kind \in {"power", "variable"}
              /\ answer("failed", Unset) /\ UNCHANGED <<later, power, speed>>
           \/ /\ request.kind = "power"
              /\ power' = request.arg
              /\ answer("succeeded", Unset) /\ UNCHANGED <<later, speed>>
           \/ /\ request.kind = "vehicle"
              /\ speed' = request.arg
              /\ answer("succeeded", Unset) /\ UNCHANGED <<later, power>>
    /\ UNCHANGED <<open, burst, connects, asked, lost, cut>>

SendLater ==
    /\ \E response \in later : Send(<<response>>) /\ later' = later \ {response}
    /\ UNCHANGED <<open, host, power, speed, burst, connects, asked, lost, cut>>

LoseRequest ==
    /\ Eventful /\ host.line # <<>>
    /\ host' = [host EXCEPT !.line = Tail(@)] /\ lost' = lost + 1
    /\ UNCHANGED <<open, toHost, environment, connects, asked, cut>>

LoseResponse ==
    /\ Eventful /\ toHost # <<>>
    /\ toHost' = Tail(toHost) /\ lost' = lost + 1
    /\ UNCHANGED <<open, host, environment, connects, asked, cut>>

\* A chunk completes n frames; with none it has a part of the next one.
Receive(n) ==
    /\ open /\ toHost # <<>> /\ n <= Len(toHost)
    /\ toHost' = SubSeq(toHost, n + 1, Len(toHost))
    /\ host' = ReadyRead([host EXCEPT !.buffer = @ \o SubSeq(toHost, 1, n)])
    /\ UNCHANGED <<open, environment, connects, asked, lost, cut>>

-----------------------------------------------------------------------------

People ==
    \/ ConnectToDevice \/ DisconnectFromDevice
    \/ \E on \in BOOLEAN : SwitchPower(on)
    \/ AccessVariable
    \/ \E s \in Speed : SetSpeed(s)
    \/ AskDeviceInfo

System ==
    \/ ConnectTimeout
    \/ Execute \/ SendLater
    \/ \E n \in 1..burst : Receive(n)

Next == People \/ System \/ LoseRequest \/ LoseResponse \/ Receive(0)

Spec == Init /\ [][Next]_vars

\* The timer fires, the station responds and the line delivers.  People need
\* not do anything.
Fairness ==
    /\ WF_vars(ConnectTimeout)
    /\ WF_vars(Execute)
    /\ WF_vars(SendLater)
    /\ WF_vars(\E n \in 1..burst : Receive(n))

FairSpec == Spec /\ Fairness

-----------------------------------------------------------------------------
(* Properties.                                                               *)

\* Types, and that requests are under way only once they were queued.
TypeOK ==
    /\ open \in BOOLEAN /\ cut \in BOOLEAN
    /\ host.known \in BOOLEAN /\ host.timer \in BOOLEAN /\ host.slots = connects
    /\ host.queue \in Seq(Request) /\ host.observers \subseteq Request
    /\ host.buffer \in Seq(Response) /\ toHost \in Seq(Response) /\ later \subseteq Response
    /\ host.power \in Power /\ host.speed \in Speed \union {Unset}
    /\ host.line \in Seq(Request) /\ host.next \in 1..255
    /\ power \in Power /\ speed \in Speed /\ burst \in Bursts
    /\ {connects, asked, lost} \subseteq 0..MaxEvents

\* When the queue is drained, the station has the power state the power control
\* reports and the speed that was set last, whatever was lost and however
\* sessions were cut: a lost request keeps the queue from draining.
StationAgrees ==
    open /\ host.known /\ host.queue = <<>> =>
        /\ host.power = power
        /\ host.speed \in {speed, Unset}

\* The queue keeps the promises of RequestQueue: onReadyRead() completes and
\* sends requests in order and one at a time, and calls no observer twice.
Promised == INSTANCE RequestQueue WITH
    queued      <- host.next - 1,
    transmitted <- host.sent,
    answered    <- host.next - 1 - Len(host.queue),
    told        <- host.told
KeepsPromises == Promised!Spec

\* Connecting does not last: either the station responds or the timer ends it.
ConnectingEnds == []<>(State(open, host) # "Connecting")

\* As long as nothing is lost, no session is cut and every frame comes in a
\* chunk of its own, all requests get their responses.  (Two frames in a chunk
\* leave one behind in the buffer, and the queue stops.)
QueueDrains ==
    []<>(host.queue = <<>> \/ lost > 0 \/ cut \/ burst > 1 \/ ~open)

\* The two together: nobody waits for the station for ever.  See timerEvent() and
\* onReadyRead().
NothingHangs == ConnectingEnds /\ QueueDrains
=============================================================================
