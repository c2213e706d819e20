--------------------------- MODULE Z21Programming ---------------------------
(* Reading and writing decoder variables through a Z21 station:              *)
(* readVariable() and writeVariable() of lmrs::roco::z21::Client (lmrs/roco/ *)
(* z21client.cpp), with the retries of z21::VariableControl (z21device.cpp), *)
(* within one session (the session itself is the module Z21Client).          *)
(*                                                                           *)
(* A read arms the one programming timeout of the client and leaves an       *)
(* observer.  A result is shown to every observer; a programming error names *)
(* no variable and resolves them all.  The timeout tells the callback, but   *)
(* the observer stays; what is unanswered is requested again every 2 s.  A   *)
(* write gets no answer: 100 ms later the variable is read and compared.  In *)
(* direct mode the station leaves normal operation for a read or write, and  *)
(* the client switches the track on afterwards.                              *)
(*                                                                           *)
(* Abstractions.  m_sendBuffer and the datagrams under way are one FIFO      *)
(* stream that may lose requests.  The observers of enableTrackPower() are   *)
(* resolved by the same broadcast: one Boolean stands for them.              *)
EXTENDS Integers, SequencesExt

CONSTANTS
    Tasks,      \* calls of VariableControl::readVariable() and writeVariable()
    Variable,   \* Task -> the variable it accesses
    Written,    \* Task -> the value it writes, or NoValue if it reads
    Values, NoValue,
    Direct,     \* address 0: the decoder is on the programming track
    RetryLimit, \* ContinuationCallback::DefaultRetryLimit
    MaxLostRequests, MaxLostAnswers, MaxEarlyResends, MaxErrors \* bounds: how often

Variables == {Variable[t] : t \in Tasks}

ASSUME ProgrammingAssumption ==
    /\ Written \in [Tasks -> Values \union {NoValue}]
    /\ NoValue \notin Values
    /\ Direct \in BOOLEAN
    /\ {RetryLimit, MaxLostRequests, MaxLostAnswers, MaxEarlyResends, MaxErrors} \subseteq Nat

\* An access with its callback, and how often that has been retried.
Call == [task: Tasks, retries: 0..RetryLimit]

Request == [type: {"read", "write"}, variable: Variables, value: Values \union {NoValue}]
             \union [type: {"powerOn"}]
Answer  == [type: {"result"}, variable: Variables, value: Values]
             \union [type: {"error", "powerOn"}]

VARIABLES
    pending,    \* observers of readVariable() in m_pendingRequests
    powering,   \* an observer of enableTrackPower() is pending
    armed,      \* m_programmingCallback, while m_programmingTimeout is running
    verifying,  \* QTimer::singleShot()s of writeVariable()
    toStation,  \* requests queued or on the way to the station
    toClient,   \* messages on the way to the client
    decoder,    \* Variable -> its value in the decoder
    mode,       \* the station: "normal" operation or "programming"
    results,    \* Task -> how often its callback got a success
    told,       \* tasks whose callback got anything
    started,    \* tasks that were called
    held,       \* history: Task -> values of its variable since its last read
    stale,      \* history: a callback got a value that none of these was
    duplicated, \* history: a variable was requested while its answer was due
    timeouts,   \* history: Task -> timeouts of its reads
    spent       \* how much of each bound is used up

client  == <<pending, powering, armed, verifying>>
station == <<decoder, mode>>
history == <<held, stale, duplicated, timeouts>>
vars    == <<client, station, history, toStation, toClient, results, told, started, spent>>

Budgets == {"request", "answer", "early", "error"}
Limit   == [request |-> MaxLostRequests, answer |-> MaxLostAnswers,
            early |-> MaxEarlyResends, error |-> MaxErrors]

Spend(budget) ==
    /\ spent[budget] < Limit[budget]
    /\ spent' = [spent EXCEPT ![budget] = @ + 1]

Init ==
    /\ pending = <<>> /\ powering = FALSE /\ armed = <<>> /\ verifying = <<>>
    /\ toStation = <<>> /\ toClient = <<>>
    /\ decoder \in [Variables -> Values] /\ mode = "normal"
    /\ results = [t \in Tasks |-> 0] /\ told = {} /\ started = {}
    /\ held = [t \in Tasks |-> {}] /\ stale = FALSE /\ duplicated = FALSE
    /\ timeouts = [t \in Tasks |-> 0]
    /\ spent = [b \in Budgets |-> 0]

-----------------------------------------------------------------------------
(* What a handler does, callbacks included, as a function of the state of    *)
(* the client: callbacks run while the handler goes through its observers.   *)

\* The state a handler works on; kept are the observers that stay.
Working == [kept |-> <<>>, added |-> <<>>, powering |-> powering, armed |-> armed,
            verifying |-> verifying, sent |-> <<>>, results |-> results, told |-> told,
            held |-> held, stale |-> stale]

ReadRequest(t)  == [type |-> "read", variable |-> Variable[t], value |-> NoValue]
WriteRequest(t) == [type |-> "write", variable |-> Variable[t], value |-> Written[t]]
PowerOn         == [type |-> "powerOn"]

\* Client::readVariable(): the timeout now belongs to this call.
ReadVariable(s, call) ==
    [s EXCEPT !.armed = <<call>>,
              !.sent  = Append(@, ReadRequest(call.task)),
              !.added = Append(@, call),
              !.held[call.task] = {decoder[Variable[call.task]]}]

\* Client::writeVariable(): the request, and the check to come.
WriteVariable(s, call) ==
    [s EXCEPT !.sent = Append(@, WriteRequest(call.task)),
              !.verifying = Append(@, call)]

\* VariableControl::readVariable() and writeVariable().
Perform(s, call) ==
    IF Written[call.task] = NoValue THEN ReadVariable(s, call) ELSE WriteVariable(s, call)

\* The views answer Retry to an error.
Retry(s, call) ==
    IF call.retries < RetryLimit THEN Perform(s, [call EXCEPT !.retries = @ + 1]) ELSE s

\* The callback of a read is called with an error, that of the task as well.
CallbackError(s, call) == Retry([s EXCEPT !.told = @ \union {call.task}], call)

\* A slip of the check: what is read is not compared.
ReadSuffices(t, value) == TRUE
\* The callback of the read writeVariable() makes compares; reads do not.
Verified(t, value) == Written[t] \in {NoValue, value}

\* The callback of a read is called with a value.
CallbackValue(s, call, value) ==
    LET t        == call.task
        reported == IF Written[t] = NoValue THEN value ELSE Written[t]
    IN  IF Verified(t, value)
            THEN [s EXCEPT !.told = @ \union {t}, !.results[t] = @ + 1,
                           !.stale = @ \/ reported \notin s.held[t]]
            ELSE CallbackError(s, call)

\* stopProgrammingTimeout()
StopTimeout(s) == [s EXCEPT !.armed = <<>>]

\* After direct programming the track is switched on: enableTrackPower().
RestorePower(s) ==
    IF Direct THEN [s EXCEPT !.sent = Append(@, PowerOn), !.powering = TRUE] ELSE s

\* The result is the one the call waits for.
Concerns(call, m) == m.variable = Variable[call.task]

\* A slip of the observer of readVariable(): it answers false.
KeepObserver(s, call) == [s EXCEPT !.kept = Append(@, call)]
\* The observer of readVariable() answers true, parseDatagrams() erases it.
DropObserver(s, call) == s

\* The observer of readVariable() sees a programming error ...
ObserveError(s, call) == CallbackError(RestorePower(StopTimeout(s)), call)

\* ... and a result: any result stops the timeout.
ObserveResult(s, call, m) ==
    IF Concerns(call, m)
        THEN DropObserver(CallbackValue(RestorePower(StopTimeout(s)), call, m.value), call)
        ELSE [StopTimeout(s) EXCEPT !.kept = Append(@, call)]

\* The observer of readVariable(), shown a message.
Observe(s, call, m) ==
    IF m.type = "error" THEN ObserveError(s, call) ELSE ObserveResult(s, call, m)

-----------------------------------------------------------------------------
(* The steps of the client.                                                  *)

\* Requests and answers under way that concern variable v.
Due(v) == \/ \E i \in DOMAIN toStation : toStation[i].type = "read" /\ toStation[i].variable = v
          \/ \E i \in DOMAIN toClient : toClient[i].type = "result" /\ toClient[i].variable = v

\* An answer to a read of v is due, or an error that will be taken for one.
Late(v) == Due(v) \/ [type |-> "error"] \in ToSet(toClient)

\* A handler has done its work on s.
Apply(s) ==
    /\ pending' = s.kept \o s.added
    /\ powering' = s.powering /\ armed' = s.armed /\ verifying' = s.verifying
    /\ toStation' = toStation \o s.sent
    /\ results' = s.results /\ told' = s.told
    /\ held' = s.held /\ stale' = s.stale
    /\ duplicated' = (duplicated \/ \E i \in DOMAIN s.sent :
                          s.sent[i].type = "read" /\ Due(s.sent[i].variable))

\* A view calls readVariable() or writeVariable().
Start(t) ==
    /\ t \notin started
    /\ started' = started \union {t}
    /\ Apply(Perform([Working EXCEPT !.kept = pending], [task |-> t, retries |-> 0]))
    /\ UNCHANGED <<station, toClient, timeouts, spent>>

\* The single shot timer of writeVariable() fires.
Verify ==
    /\ verifying # <<>>
    /\ Apply(ReadVariable([Working EXCEPT !.kept = pending, !.verifying = Tail(@)],
                          Head(verifying)))
    /\ UNCHANGED <<station, toClient, timeouts, started, spent>>

\* timerEvent() of m_programmingTimeout: no observer is removed.
ProgrammingTimeout ==
    /\ armed # <<>>
    /\ timeouts' = [timeouts EXCEPT ![armed[1].task] = @ + 1]
    /\ Apply(CallbackError(RestorePower(StopTimeout([Working EXCEPT !.kept = pending])),
                           armed[1]))
    /\ UNCHANGED <<station, toClient, started, spent>>

\* A slip in resendStarvedRequests(): the timestamp is renewed, nothing is sent.
Forgotten(request) == <<>>
\* What resendStarvedRequests() queues.
Again(request) == <<request>>

\* resendStarvedRequests(): what is not lost may be late all the same.
ResendRead ==
    \E i \in DOMAIN pending :
        LET v == Variable[pending[i].task]
        IN  /\ IF Late(v) THEN Spend("early") ELSE UNCHANGED spent
            /\ toStation' = toStation \o Again(ReadRequest(pending[i].task))
            /\ duplicated' = (duplicated \/ Due(v))
    /\ UNCHANGED <<client, station, held, stale, timeouts, toClient, results, told, started>>

ResendPower ==
    /\ powering
    /\ IF PowerOn \in ToSet(toStation) \/ PowerOn \in ToSet(toClient)
           THEN Spend("early") ELSE UNCHANGED spent
    /\ toStation' = toStation \o Again(PowerOn)
    /\ UNCHANGED <<client, station, history, toClient, results, told, started>>

\* parseDatagrams(): the message is shown to every observer, in order.
ParseMessage ==
    /\ toClient # <<>>
    /\ LET m == Head(toClient)
       IN  Apply(IF m.type = "powerOn"
                     THEN [Working EXCEPT !.kept = pending, !.powering = FALSE]
                     ELSE FoldLeft(LAMBDA s, call : Observe(s, call, m), Working, pending))
    /\ toClient' = Tail(toClient)
    /\ UNCHANGED <<station, timeouts, started, spent>>

-----------------------------------------------------------------------------
(* The station, the decoder and the link (external).                         *)

\* The station handles its first request.  A read ends in a result or in an
\* error; a write may fail, nobody is told.
StationHandle ==
    /\ toStation # <<>>
    /\ LET r == Head(toStation)
       IN  \/ /\ r.type = "read"
              /\ toClient' = Append(toClient, [type |-> "result", variable |-> r.variable,
                                               value |-> decoder[r.variable]])
              /\ UNCHANGED <<decoder, held, spent>>
           \/ /\ r.type = "read"
              /\ Spend("error")
              /\ toClient' = Append(toClient, [type |-> "error"])
              /\ UNCHANGED <<decoder, held>>
           \/ /\ r.type = "write"
              /\ decoder' = [decoder EXCEPT ![r.variable] = r.value]
              /\ held' = [t \in Tasks |-> IF Variable[t] = r.variable
                                          THEN held[t] \union {r.value} ELSE held[t]]
              /\ UNCHANGED <<toClient, spent>>
           \/ /\ r.type = "write"
              /\ Spend("error")
              /\ UNCHANGED <<decoder, held, toClient>>
           \/ /\ r.type = "powerOn"
              /\ toClient' = Append(toClient, PowerOn)
              /\ UNCHANGED <<decoder, held, spent>>
    /\ mode' = IF Head(toStation).type = "powerOn" THEN "normal"
               ELSE IF Direct THEN "programming" ELSE mode
    /\ toStation' = Tail(toStation)
    /\ UNCHANGED <<client, stale, duplicated, timeouts, results, told, started>>

LoseRequest ==
    /\ Spend("request")
    /\ toStation # <<>> /\ toStation' = Tail(toStation)
    /\ UNCHANGED <<client, station, history, toClient, results, told, started>>

LoseAnswer ==
    /\ Spend("answer")
    /\ toClient # <<>> /\ toClient' = Tail(toClient)
    /\ UNCHANGED <<client, station, history, toStation, results, told, started>>

-----------------------------------------------------------------------------
Next ==
    \/ \E t \in Tasks : Start(t)
    \/ Verify \/ ProgrammingTimeout \/ ResendRead \/ ResendPower \/ ParseMessage
    \/ StationHandle \/ LoseRequest \/ LoseAnswer

Spec == Init /\ [][Next]_vars

\* Timers fire, the station works, the event loop runs; losses are finite.
Fairness ==
    /\ WF_vars(Verify) /\ WF_vars(ProgrammingTimeout) /\ WF_vars(ParseMessage)
    /\ WF_vars(ResendRead) /\ WF_vars(ResendPower) /\ WF_vars(StationHandle)

FairSpec == Spec /\ Fairness

-----------------------------------------------------------------------------
(* Properties.                                                               *)

\* Every variable has its type.
TypeOK ==
    /\ pending \in Seq(Call) /\ verifying \in Seq(Call)
    /\ armed \in Seq(Call) /\ Len(armed) <= 1
    /\ toStation \in Seq(Request) /\ toClient \in Seq(Answer)
    /\ decoder \in [Variables -> Values] /\ mode \in {"normal", "programming"}
    /\ results \in [Tasks -> Nat] /\ timeouts \in [Tasks -> Nat]
    /\ told \subseteq started /\ started \subseteq Tasks
    /\ held \in [Tasks -> SUBSET Values]
    /\ {powering, stale, duplicated} \subseteq BOOLEAN
    /\ spent \in [Budgets -> Nat]

\* A value a callback gets is one the decoder had after the variable was
\* requested, and a write that is reported as done has been in the decoder when
\* it was checked: unless the variable was requested a second time while the
\* first answer was due, which leaves an answer nobody waits for.
ValuesAreFresh == stale => duplicated

\* A callback reports a value once, and once more at most for each of its
\* timeouts, whose observers are still there.
ReportedOnce == \A t \in Tasks : results[t] <= 1 + timeouts[t]

\* Whatever is lost, the callback of every call gets something: also if another
\* call took its timeout away.
EveryCallIsTold == \A t \in Tasks : t \in started ~> t \in told

\* The station is brought back from programming to normal operation, even if
\* its answers are lost: but a lost request to switch the track on may go
\* unnoticed, as the broadcast an earlier one caused acknowledges it.
ProgrammingEnds ==
    mode = "programming" ~> (mode = "normal" \/ spent.request > 0)

\* Programming comes to an end, for its callers and for the track.
CallsEnd == EveryCallIsTold /\ ProgrammingEnds
=============================================================================
