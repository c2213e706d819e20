----------------------------- MODULE Lp2Device -----------------------------
(* The ESU LokProgrammer: lmrs::esu::lp2::Device (lmrs/esu/lp2device.cpp)    *)
(* with its power and variable controls, the serial line and the programmer  *)
(* with the decoder on its track (external).                                 *)
(*                                                                           *)
(* Everything is a chain of requests: each is sent by the callback of the    *)
(* one before.  Chains of different callers share the line and the           *)
(* programmer and interleave request by request.  A variable is read bit by  *)
(* bit: in service mode the decoder is asked whether a bit is zero, at the   *)
(* end whether the value put together is right, and it answers by a pulse of *)
(* current only.                                                             *)
(*                                                                           *)
(* Abstractions.  A request on the line carries its callback; in the code    *)
(* pendingRequests finds it by the sequence number, which is unambiguous for *)
(* less than 256 requests under way.  Writing to the open port succeeds, and *)
(* closing it discards what is under way.  One query stands for the queries  *)
(* of readDeviceInformation(), one drive request for those of a timer event. *)
(* Drive requests have no callback: their responses are left out.            *)
EXTENDS Integers, SequencesExt

CONSTANTS
    Tasks,          \* calls of the views
    Variables,      \* Task -> the variables it reads one after the other
    Bits,           \* bits of a variable: 8
    Decoders,       \* what a decoder may have stored: variable -> the bits that are set
    RetryLimit,     \* ContinuationCallback::DefaultRetryLimit
    MaxDriving,     \* bound: drive requests under way
    MaxEvents       \* bound: connects, disconnects, switching the power, errors and misreads

ASSUME Lp2Assumption ==
    /\ Variables \in [Tasks -> Seq(STRING) \ {<<>>}]
    /\ Bits \in Nat \ {0}
    /\ \A d \in Decoders : \A v \in DOMAIN d : d[v] \subseteq 0..(Bits - 1)
    /\ \A d \in Decoders : DOMAIN d = UNION {ToSet(Variables[t]) : t \in Tasks}
    /\ {RetryLimit, MaxDriving, MaxEvents} \subseteq Nat

Nobody == "nobody"
Value  == SUBSET (0..(Bits - 1))    \* the positions of the bits that are set
Read   == UNION {ToSet(Variables[t]) : t \in Tasks}

\* A slip: the programmer is reset when its power is on already.
ResetLast == [info    |-> <<"reset", "query">>,
              service |-> <<"power", "reset", "magic", "ackMode">>,
              enable  |-> <<"power", "reset", "magic">>,
              disable |-> <<"power">>]
\* The requests of a chain.
Steps == [info    |-> <<"reset", "query">>,
          service |-> <<"reset", "power", "magic", "ackMode">>,
          enable  |-> <<"reset", "power", "magic">>,
          disable |-> <<"power">>]

\* What power settings a chain asks for, and the state it ends in.
Mode  == [service |-> "service", enable |-> "driving", disable |-> "off"]
State == [service |-> "ServiceMode", enable |-> "PowerOn", disable |-> "PowerOff"]

\* A request with its callback: index counts the steps of a chain; the closure
\* of a read keeps its state, the current bit and value and its callback.
Chained == [chain: DOMAIN Steps, index: 1..4, task: Tasks \union {Nobody}]
Reading == [chain: {"read"}, step: {"reset", "bit", "byte"}, task: Tasks,
            bit: 0..Bits, value: Value, retries: 0..RetryLimit]
Driving == [chain: {"drive"}]
Request == Chained \union Reading \union Driving

VARIABLES
    open,           \* the serial port is open
    connectTimer,   \* connectTimeoutId is not zero
    identified,     \* deviceInfo is not empty; it is never cleared
    state,          \* PowerControl::m_state; the drive timer runs in "PowerOn"
    toProgrammer,   \* requests on the line or waiting in the programmer
    toClient,       \* responses on the line
    mode,           \* what the programmer does to its track
    decoder,        \* Variable -> its value
    started,        \* tasks that were called
    at,             \* Task -> how many of its variables it was done with
    results,        \* Task -> variables and values its callback got
    told,           \* tasks whose callback got anything
    gaveUp,         \* history: a read was not retried any more
    overlapped,     \* history: a chain was begun while another was under way
    disrupted,      \* history: switching the power failed, or a session ended
    happened        \* how often there was each event

callers == <<started, at, results, told, gaveUp>>
session == <<open, connectTimer, identified>>
station == <<mode, decoder>>
vars    == <<session, state, toProgrammer, toClient, station, callers, overlapped,
             disrupted, happened>>

Events == {"connect", "disconnect", "call", "error", "misread"}

\* What happens to the device from outside shares one bound.
Event(kind) ==
    /\ FoldSet(LAMBDA k, sum : happened[k] + sum, 0, Events) < MaxEvents
    /\ happened' = [happened EXCEPT ![kind] = @ + 1]

Init ==
    /\ open = FALSE /\ connectTimer = FALSE /\ identified = FALSE /\ state = "PowerOff"
    /\ toProgrammer = <<>> /\ toClient = <<>>
    /\ mode = "off" /\ decoder \in Decoders
    /\ started = {} /\ told = {} /\ gaveUp = FALSE
    /\ at = [t \in Tasks |-> 0] /\ results = [t \in Tasks |-> {}]
    /\ overlapped = FALSE /\ disrupted = FALSE
    /\ happened = [k \in Events |-> 0]

-----------------------------------------------------------------------------
(* What callbacks do, as functions of the state they change.                 *)

Working == [state |-> state, sent |-> <<>>, at |-> at, results |-> results,
            told |-> told, gaveUp |-> gaveUp, disrupted |-> disrupted]

SendRequest(s, request) == [s EXCEPT !.sent = Append(@, request)]

Begin(s, chain, task) == SendRequest(s, [chain |-> chain, index |-> 1, task |-> task])

\* VariableControl::readVariable() for the next variable of the task.
ReadVariable(s, t) == Begin(s, "service", t)

\* Closure::start(), once the programmer is in service mode.
StartReading(t) == [chain |-> "read", step |-> "reset", task |-> t,
                    bit |-> 0, value |-> {}, retries |-> 0]

\* The chain is through and sets the state.
Ends(request) == request.index = Len(Steps[request.chain])

\* A slip: the status of a response is not checked.
Unchecked(request, ok) == FALSE
\* Only the power and the acknowledge mode are checked for errors.
Failed(request, ok) == ~ok /\ Steps[request.chain][request.index] \in {"power", "ackMode"}

\* The callbacks of the power control.  The caller's answer to an error is not
\* looked at, a read that did not get into service mode says nothing.
PowerResponse(s, request, ok) ==
    IF Failed(request, ok) THEN [s EXCEPT !.disrupted = TRUE]
    ELSE LET r == IF Ends(request) THEN [s EXCEPT !.state = State[request.chain]] ELSE s
         IN  IF request.index < Len(Steps[request.chain])
                 THEN SendRequest(r, [request EXCEPT !.index = @ + 1])
             ELSE IF request.chain = "service"
                 THEN SendRequest(r, StartReading(request.task))
             ELSE r

\* Closure::reportResult(): where a retry continues.  The bits read so far stay.
RetryStep(request) == IF request.step = "bit" THEN "reset" ELSE request.step

\* A slip of operator(): an error is not reported.
DropError(s, request) == s
\* reportResult() of an error: the views answer Retry.
ReportError(s, request) ==
    IF request.retries < RetryLimit
        THEN SendRequest([s EXCEPT !.told = @ \union {request.task}],
                         [request EXCEPT !.step = RetryStep(request), !.retries = @ + 1])
        ELSE [s EXCEPT !.told = @ \union {request.task}, !.gaveUp = TRUE]

\* reportResult() of a value: the views answer Proceed, and a list goes on.
ReportValue(s, request) ==
    LET t    == request.task
        entry == [variable |-> Variables[t][s.at[t] + 1], value |-> request.value]
        done == [s EXCEPT !.told = @ \union {t}, !.at = [s.at EXCEPT ![t] = @ + 1],
                          !.results = [s.results EXCEPT ![t] = @ \union {entry}]]
    IN  IF done.at[t] < Len(Variables[t]) THEN ReadVariable(done, t) ELSE done

\* disableTrackPower() once the value is known, before it is reported.
PowerOff(s) == Begin(s, "disable", Nobody)

\* The decoder acknowledges bits that are zero.
BitRead(request, ack) ==
    IF ack = "negative" THEN request.value \union {request.bit} ELSE request.value

\* A slip: any answer verifies the value.
AnswerVerifies(ok, ack) == ok
\* The value is right if the decoder acknowledges it.
Verified(ok, ack) == ok /\ ack = "positive"

\* Closure::operator(): the response to a request of a read.
ReadResponse(s, request, ok, ack) ==
    CASE request.step = "reset" /\ ok -> SendRequest(s, [request EXCEPT !.step = "bit"])
      [] request.step = "bit" /\ ok ->
             SendRequest(s, [request EXCEPT !.value = BitRead(request, ack), !.bit = @ + 1,
                                            !.step = IF request.bit + 1 < Bits THEN "reset" ELSE "byte"])
      [] request.step = "byte" /\ Verified(ok, ack) -> ReportValue(PowerOff(s), request)
      [] OTHER -> ReportError(s, request)

-----------------------------------------------------------------------------
(* The steps of the device.                                                  *)

Chains == {r \in ToSet(toProgrammer) : r.chain # "drive"}
              \union {a.request : a \in ToSet(toClient)}

Apply(s) ==
    /\ state' = s.state /\ toProgrammer' = toProgrammer \o s.sent
    /\ at' = s.at /\ results' = s.results /\ told' = s.told /\ gaveUp' = s.gaveUp
    /\ disrupted' = s.disrupted

\* disconnectFromDevice()
Close ==
    /\ open' = FALSE /\ connectTimer' = FALSE
    /\ toProgrammer' = <<>> /\ toClient' = <<>>
    /\ disrupted' = (disrupted \/ open)
    /\ UNCHANGED <<identified, state, station, callers, overlapped>>

\* connectToDevice(): the timeout is started, the device is asked who it is.  A
\* port that is open already cannot be opened, which is an error.
Connect ==
    /\ Event("connect")
    /\ IF open THEN Close
       ELSE /\ open' = TRUE /\ connectTimer' = TRUE
            /\ Apply(Begin(Working, "info", Nobody))
            /\ UNCHANGED <<identified, toClient, station, started, overlapped>>

Disconnect == Event("disconnect") /\ Close

\* timerEvent() of connectTimeoutId
Timeout == Close
ConnectTimeout == connectTimer /\ Timeout /\ UNCHANGED happened

\* A view reads a list of variables.  On a closed port every request fails at
\* once, the read with it.
Start(t) ==
    /\ t \notin started /\ started' = started \union {t}
    /\ IF open
           THEN /\ Apply(ReadVariable(Working, t))
                /\ overlapped' = (overlapped \/ Chains # {})
           ELSE /\ disrupted' = TRUE
                /\ UNCHANGED <<state, toProgrammer, at, results, told, gaveUp, overlapped>>
    /\ UNCHANGED <<session, toClient, station, happened>>

\* The user switches the power.
Call(chain) ==
    /\ Event("call") /\ open
    /\ Apply(Begin(Working, chain, Nobody))
    /\ overlapped' = (overlapped \/ Chains # {})
    /\ UNCHANGED <<session, toClient, station, started>>

\* VehicleControl::timerEvent(): the timer runs while the state is "PowerOn".
Drive ==
    /\ state = "PowerOn" /\ open
    /\ Cardinality({i \in DOMAIN toProgrammer : toProgrammer[i].chain = "drive"}) < MaxDriving
    /\ toProgrammer' = Append(toProgrammer, [chain |-> "drive"])
    /\ UNCHANGED <<session, state, toClient, station, callers, overlapped, disrupted, happened>>

\* updateDeviceInfo(): the callbacks of readDeviceInformation().  If something could
\* not be read, it may be what the device is identified by.
InfoResponse(request, ok) ==
    IF ~Ends(request)
        THEN /\ Apply(SendRequest(Working, [request EXCEPT !.index = @ + 1]))
             /\ UNCHANGED <<session, station, started, overlapped>>
             /\ toClient' = Tail(toClient)
    ELSE \/ /\ identified' = TRUE /\ connectTimer' = FALSE
            /\ toClient' = Tail(toClient)
            /\ UNCHANGED <<open, state, toProgrammer, station, callers, overlapped, disrupted>>
         \/ ~ok /\ Close

\* onReadyRead() and parseMessage(): the callback of the request is called.
ParseMessage ==
    /\ toClient # <<>>
    /\ LET a == Head(toClient)
       IN  IF a.request.chain = "info" THEN InfoResponse(a.request, a.ok)
           ELSE /\ Apply(CASE a.request.chain = "read"  -> ReadResponse(Working, a.request, a.ok, a.ack)
                           [] OTHER -> PowerResponse(Working, a.request, a.ok))
                /\ toClient' = Tail(toClient)
                /\ UNCHANGED <<session, station, started, overlapped>>
    /\ UNCHANGED happened

-----------------------------------------------------------------------------
(* The programmer and the decoder (external).                                *)

\* What the decoder makes of a request: it acknowledges in service mode, bits
\* that are zero and bytes that are right.
Pulse(r) ==
    LET v == decoder[Variables[r.task][at[r.task] + 1]]
    IN  /\ mode = "service"
        /\ \/ r.step = "bit" /\ r.bit \notin v
           \/ r.step = "byte" /\ r.value = v

Acknowledge(r) == IF r.chain = "read" /\ Pulse(r) THEN "positive" ELSE "negative"

ModeAfter(r) ==
    IF r.chain \notin DOMAIN Steps THEN mode
    ELSE CASE Steps[r.chain][r.index] = "reset" -> "off"
           [] Steps[r.chain][r.index] = "power" -> Mode[r.chain]
           [] OTHER -> mode

Respond(ok, ack) ==
    /\ toProgrammer # <<>>
    /\ toProgrammer' = Tail(toProgrammer)
    /\ toClient' = IF Head(toProgrammer).chain = "drive" THEN toClient
                    ELSE Append(toClient, [request |-> Head(toProgrammer), ok |-> ok, ack |-> ack])
    /\ UNCHANGED <<session, state, decoder, callers, overlapped, disrupted>>

Execute ==
    /\ Respond(TRUE, Acknowledge(Head(toProgrammer)))
    /\ mode' = ModeAfter(Head(toProgrammer))
    /\ UNCHANGED happened

\* The request is not executed: a short circuit, a garbled frame.
Refuse == Event("error") /\ Respond(FALSE, "none") /\ UNCHANGED mode

\* The pulse is missed, or something else is taken for it.
Misread ==
    /\ Event("misread")
    /\ toProgrammer # <<>> /\ Head(toProgrammer).chain = "read"
    /\ \E ack \in {"positive", "negative", "none"} \ {Acknowledge(Head(toProgrammer))} :
           Respond(TRUE, ack)
    /\ UNCHANGED mode

-----------------------------------------------------------------------------
Next ==
    \/ Connect \/ Disconnect \/ ConnectTimeout
    \/ \E t \in Tasks : Start(t)
    \/ \E chain \in {"enable", "disable"} : Call(chain)
    \/ Drive \/ ParseMessage
    \/ Execute \/ Refuse \/ Misread

Spec == Init /\ [][Next]_vars

\* The programmer answers whatever it gets and the event loop reads it; nobody
\* has to call anything, and the drive timer does not have to keep pace.
Fairness == WF_vars(ParseMessage) /\ WF_vars(Execute)

FairSpec == Spec /\ Fairness

-----------------------------------------------------------------------------
(* Properties.                                                               *)

\* Every variable has its type.
TypeOK ==
    /\ {open, connectTimer, identified, gaveUp, overlapped, disrupted} \subseteq BOOLEAN
    /\ state \in {State[c] : c \in DOMAIN State}
    /\ toProgrammer \in Seq(Request)
    /\ toClient \in Seq([request: Request \ Driving, ok: BOOLEAN, ack: {"positive", "negative", "none"}])
    /\ mode \in {Mode[c] : c \in DOMAIN Mode} /\ decoder \in Decoders
    /\ told \subseteq started /\ started \subseteq Tasks
    /\ at \in [Tasks -> Nat]
    /\ results \in [Tasks -> SUBSET [variable: Read, value: Value]]
    /\ happened \in [Events -> Nat]

\* A value that is reported is the value in the decoder, whatever fails, is
\* retried or switches the power meanwhile: a read can fail, but not succeed
\* with a wrong value.  One pulse that is missed or made up does no harm either
\* if nobody else uses the programmer, as the byte is verified in the end.  (If
\* the power goes meanwhile, all bits are silent and one wrong pulse is enough.)
ReadValueIsRight ==
    happened["misread"] = 0 \/ (happened["misread"] = 1 /\ ~overlapped)
    => \A t \in Tasks : \A r \in results[t] : r.value = decoder[r.variable]

\* Packets for programming leave the programmer in service mode only, and not
\* while it drives the layout: as long as nobody begins a chain while another
\* one is under way, also from variable to variable of a list.
ProgramsInServiceMode ==
    /\ toProgrammer # <<>> /\ Head(toProgrammer).chain = "read"
    /\ ~overlapped
    => mode = "service"

\* PowerControl::state() is what the programmer does, once the chains are
\* through: it cannot be asked for, what has been sent is all that is known.
StateFollows ==
    open /\ Chains = {} /\ ~overlapped /\ ~disrupted
    => \E c \in DOMAIN State : state = State[c] /\ mode = Mode[c]

\* Again and again all callers of reads have been told something, unless the
\* power could not be switched or the session ended: no read is forgotten.
EveryReadIsTold == []<>(told = started \/ disrupted)

\* The track does not stay in service mode, unless a read failed for good.
ServiceModeEnds == []<>(mode # "service" \/ disrupted \/ gaveUp)

\* Reading comes to an end, for its callers and for the track.
ReadsEnd == EveryReadIsTold /\ ServiceModeEnds
=============================================================================
