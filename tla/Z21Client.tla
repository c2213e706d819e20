----------------------------- MODULE Z21Client -----------------------------
(* The request/response engine of lmrs::roco::z21::Client (lmrs/roco/        *)
(* z21client.cpp), the device state and the poll timer z21device.cpp hangs   *)
(* on it, the UDP network in between and the command station (external).     *)
(*                                                                           *)
(* The client never waits for an answer.  sendRequest() appends a request to *)
(* m_sendBuffer and, when the caller wants an answer, an observer to         *)
(* m_pendingRequests.  A 50 ms idle timer moves the buffer into one          *)
(* datagram, a 1 s timer resends what is unanswered for 2 s, and every       *)
(* message that arrives is shown to every observer: all that recognise it    *)
(* are resolved.                                                             *)
(*                                                                           *)
(* Abstractions.  Several observers of one kind are resolved by the same     *)
(* messages, hence the list of pending requests is the set of the kinds that *)
(* have an observer.  Time is abstract: any pending request may be the one   *)
(* that starves.  A sweep of the resend timer over several starved requests  *)
(* is a run of ResendStarved steps: entries of different age are resent by   *)
(* different sweeps anyhow.  The UDP link keeps the order and loses          *)
(* datagrams; a datagram sent to a socket that is gone is dropped.           *)
EXTENDS Integers, Sequences

CONSTANTS
    TrackStatus,    \* the values of Client::TrackStatus the station shows
    Commands,       \* the power commands of the client
    Outcome,        \* the track status a command asks for
    InfoQueries,    \* queries that just fill an attribute: lock state, versions
    DeviceQueries,  \* what Device::Private::updateDeviceInfo() asks for
    MaxDatagram,    \* requests that fit into one datagram (1472 bytes)
    MaxInFlight,    \* bound: datagrams and messages in flight per direction
    MaxConnects, MaxCommands, MaxChanges, MaxLosses, \* bounds: how often
    MaxEarlyResends \* bound: resends of requests that are not lost, just late

Queries == {"trackStatus", "subscriptions"} \union InfoQueries
Kinds   == {"handshake"} \union Queries \union Commands
Wire    == {"subscribe", "canDetectors"} \union Queries \union Commands

ASSUME OutcomeAssumption == Outcome \in [Commands -> TrackStatus]

ASSUME KindAssumption ==
    /\ Commands \intersect ({"handshake", "subscribe", "canDetectors"} \union Queries) = {}
    /\ InfoQueries \intersect {"handshake", "subscribe", "canDetectors",
                               "trackStatus", "subscriptions"} = {}
    /\ "PowerOff" \in TrackStatus

ASSUME DeviceQueriesAssumption == DeviceQueries \in Seq(Queries)

\* A datagram holds at least the requests a session begins with.
ASSUME BoundAssumption ==
    /\ MaxDatagram \in Nat \ {0, 1}
    /\ {MaxInFlight, MaxConnects, MaxCommands, MaxChanges, MaxLosses,
        MaxEarlyResends} \subseteq Nat

Message == [type: {"status", "broadcast"}, status: TrackStatus]
             \union [type: {"flags"}, on: BOOLEAN]
             \union [type: {"info"}, query: InfoQueries]

Datagram == [live: BOOLEAN, requests: Seq(Wire)]

Elements(s) == {s[i] : i \in DOMAIN s}

VARIABLES
    socket,         \* m_socket is not null: Client::isConnected()
    connectTimer,   \* m_connectTimeout is running
    resendTimer,    \* m_resendTimer is running
    idleTimer,      \* m_idleTimer is running; nothing ever stops it
    pending,        \* m_pendingRequests without the permanent broadcast observer
    sendBuffer,     \* m_sendBuffer
    trackStatus,    \* m_deviceInfo.trackStatus
    known,          \* other attributes that have been answered; never reset
    pollTimer,      \* VehicleControl::m_vehicleInqueryTimer is running
    toCentral,      \* datagrams on the way to the command station
    inbox,          \* what the station still has to handle of a datagram
    toClient,       \* messages on the way to the live socket
    power,          \* the track status of the station
    subscribed,     \* the station broadcasts to the live socket
    issued,         \* history: requests made since connectToHost()
    lost,           \* history: a datagram was lost since connectToHost()
    spent           \* how much of each bound is used up

client  == <<socket, connectTimer, resendTimer, idleTimer, pending, sendBuffer,
             trackStatus, known, pollTimer>>
central == <<inbox, power, subscribed>>
network == <<toCentral, toClient, lost>>
vars    == <<client, central, network, issued, spent>>

Budgets == {"connect", "command", "change", "loss", "early"}
Limit   == [connect |-> MaxConnects, command |-> MaxCommands,
            change |-> MaxChanges, loss |-> MaxLosses, early |-> MaxEarlyResends]

Spend(budget) ==
    /\ spent[budget] < Limit[budget]
    /\ spent' = [spent EXCEPT ![budget] = @ + 1]

Init ==
    /\ socket = FALSE /\ connectTimer = FALSE /\ resendTimer = FALSE /\ idleTimer = FALSE
    /\ pending = {} /\ sendBuffer = <<>>
    /\ trackStatus = "PowerOff" /\ known = {} /\ pollTimer = FALSE
    /\ toCentral = <<>> /\ inbox = [live |-> FALSE, requests |-> <<>>] /\ toClient = <<>>
    /\ power \in TrackStatus /\ subscribed = FALSE
    /\ issued = {} /\ lost = FALSE
    /\ spent = [b \in Budgets |-> 0]

-----------------------------------------------------------------------------
(* The life cycle of a session.                                              *)

\* What dropping the socket means outside of the client: datagrams already
\* sent keep travelling, answers find nobody.
DropSession ==
    /\ toCentral' = [i \in DOMAIN toCentral |-> [toCentral[i] EXCEPT !.live = FALSE]]
    /\ inbox' = [inbox EXCEPT !.live = FALSE]
    /\ toClient' = <<>>
    /\ subscribed' = FALSE

\* A slip in the slot connectToHost(): the query goes out before the subscription.
QueryBeforeSubscribing == <<"trackStatus", "subscribe">>
\* A slip: the tag of the first entry is queued, not its data.
TagsRequested == <<"handshake", "trackStatus">>
\* The requests the slot connectToHost() makes for a new socket.
ConnectRequests == <<"subscribe", "trackStatus">>

\* A slip in disconnectFromHost(): m_sendBuffer is not cleared.
KeepSendBuffer(buffer) == buffer
\* What disconnectFromHost() leaves of m_sendBuffer.
BufferAfterDisconnect(buffer) == <<>>

\* A slip in disconnectFromHost(): disconnected() is not emitted.
NoDisconnectedSignal == pollTimer
\* disconnected() is emitted if there was a socket, and stops the poll timer.
PollTimerAfterDisconnect == pollTimer /\ ~socket

\* connectToHost(): drop the previous session, signal it if there was one,
\* create the socket, start the timers, subscribe and query the track status.
Connect ==
    /\ Spend("connect")
    /\ DropSession
    /\ socket' = TRUE /\ connectTimer' = TRUE /\ resendTimer' = TRUE /\ idleTimer' = TRUE
    /\ pollTimer' = PollTimerAfterDisconnect
    /\ pending' = {"handshake"}
    /\ sendBuffer' = BufferAfterDisconnect(sendBuffer) \o ConnectRequests
    /\ issued' = Elements(ConnectRequests)
    /\ lost' = FALSE
    /\ UNCHANGED <<trackStatus, known, power>>

\* disconnectFromHost(), which the owner may call at any time.
DisconnectFromHost ==
    /\ DropSession
    /\ socket' = FALSE /\ connectTimer' = FALSE /\ resendTimer' = FALSE
    /\ pollTimer' = PollTimerAfterDisconnect
    /\ pending' = {}
    /\ sendBuffer' = BufferAfterDisconnect(sendBuffer)
    /\ issued' = {} /\ lost' = FALSE
    /\ UNCHANGED <<idleTimer, trackStatus, known, power, spent>>

Disconnect == DisconnectFromHost

\* timerEvent() of m_connectTimeout: no answer for two seconds.  The timer
\* starts before the session's first request is made.
ConnectTimeout == connectTimer /\ DisconnectFromHost

-----------------------------------------------------------------------------
(* Requests on their way to the station.                                     *)

\* sendRequest() with an observer: one for each power command of the client.
\* Nothing asks whether there is a socket.
Command(c) ==
    /\ Spend("command")
    /\ pending' = pending \union {c}
    /\ sendBuffer' = Append(sendBuffer, c)
    /\ issued' = issued \union {c}
    /\ UNCHANGED <<socket, connectTimer, resendTimer, idleTimer, trackStatus, known,
                   pollTimer, central, network>>

\* sendRequestsOnIdle(): one datagram with as many requests as fit.
SendRequestsOnIdle ==
    /\ idleTimer /\ socket /\ sendBuffer # <<>>
    /\ Len(toCentral) < MaxInFlight
    /\ LET n == IF Len(sendBuffer) < MaxDatagram THEN Len(sendBuffer) ELSE MaxDatagram
       IN  /\ toCentral' = Append(toCentral, [live |-> TRUE,
                                              requests |-> SubSeq(sendBuffer, 1, n)])
           /\ sendBuffer' = SubSeq(sendBuffer, n + 1, Len(sendBuffer))
    /\ UNCHANGED <<socket, connectTimer, resendTimer, idleTimer, pending, trackStatus,
                   known, pollTimer, central, toClient, lost, issued, spent>>

\* The data of a pending request.
Data(k) == IF k = "handshake" THEN "trackStatus" ELSE k

\* The observer of k recognises message m: it matches the type, and for a power
\* command the broadcast it hopes for, whoever caused it.
Recognises(k, m) ==
    \/ k \in {"handshake", "trackStatus"} /\ m.type = "status"
    \/ k = "subscriptions" /\ m.type = "flags"
    \/ k \in InfoQueries /\ m.type = "info" /\ m.query = k
    \/ k \in Commands /\ m.type = "broadcast" /\ m.status = Outcome[k]

\* The request or its answer is still under way: it is not lost, just late.
UnderWay(k) ==
    \/ \E i \in DOMAIN toCentral : toCentral[i].live /\ Data(k) \in Elements(toCentral[i].requests)
    \/ inbox.live /\ Data(k) \in Elements(inbox.requests)
    \/ \E i \in DOMAIN toClient : Recognises(k, toClient[i])

\* A slip in resendStarvedRequests(): the timestamp is renewed, nothing is sent.
Forgotten(buffer, k) == buffer
\* What resendStarvedRequests() does with a starved request: it queues the
\* data once more, without an observer; the pending entry stays.
Resent(buffer, k) == Append(buffer, Data(k))

\* A slip: a connect timeout above two seconds lets the handshake be resent.
ConnectsPatiently(k) == k \in pending /\ Data(k) \notin Elements(sendBuffer)
\* What can be two seconds old.  The connect timeout is as long and started
\* earlier than anything pending: it ends the session before a request made
\* while it runs is resent.  Nor is such a request still in the buffer, which
\* is flushed every 50 ms.
Starved(k) == k \in pending /\ ~connectTimer /\ Data(k) \notin Elements(sendBuffer)

\* timerEvent() of m_resendTimer.
ResendStarved(k) ==
    /\ resendTimer /\ Starved(k)
    /\ IF UnderWay(k) THEN Spend("early") ELSE UNCHANGED spent
    /\ sendBuffer' = Resent(sendBuffer, k)
    /\ UNCHANGED <<socket, connectTimer, resendTimer, idleTimer, pending, trackStatus,
                   known, pollTimer, central, network, issued>>

-----------------------------------------------------------------------------
(* The command station and the link.                                         *)

\* A datagram arrives once the previous one has been handled.
CentralReceive ==
    /\ inbox.requests = <<>> /\ toCentral # <<>>
    /\ inbox' = Head(toCentral)
    /\ toCentral' = Tail(toCentral)
    /\ UNCHANGED <<client, power, subscribed, toClient, lost, issued, spent>>

\* The answer to request w, if one reaches the live socket.
Answers(w) ==
    IF w \in Commands
        THEN IF inbox.live \/ subscribed
                 THEN <<[type |-> "broadcast", status |-> Outcome[w]]>> ELSE <<>>
    ELSE IF ~inbox.live \/ w \in {"subscribe", "canDetectors"} THEN <<>>
    ELSE IF w = "trackStatus" THEN <<[type |-> "status", status |-> power]>>
    ELSE IF w = "subscriptions" THEN <<[type |-> "flags", on |-> subscribed]>>
    ELSE <<[type |-> "info", query |-> w]>>

CentralHandle ==
    /\ inbox.requests # <<>> /\ Len(toClient) < MaxInFlight
    /\ LET w == Head(inbox.requests)
       IN  /\ power' = IF w \in Commands THEN Outcome[w] ELSE power
           /\ subscribed' = (subscribed \/ (w = "subscribe" /\ inbox.live))
           /\ toClient' = toClient \o Answers(w)
    /\ inbox' = [inbox EXCEPT !.requests = Tail(@)]
    /\ UNCHANGED <<client, toCentral, lost, issued, spent>>

\* Somebody else switches the track: a handset, a short circuit, another app.
PowerChange(status) ==
    /\ Spend("change")
    /\ status # power /\ Len(toClient) < MaxInFlight
    /\ power' = status
    /\ toClient' = IF subscribed
                       THEN Append(toClient, [type |-> "broadcast", status |-> status])
                       ELSE toClient
    /\ UNCHANGED <<client, inbox, subscribed, toCentral, lost, issued>>

LoseRequests ==
    /\ Spend("loss")
    /\ toCentral # <<>>
    /\ toCentral' = Tail(toCentral)
    /\ lost' = (lost \/ Head(toCentral).live)
    /\ UNCHANGED <<client, central, toClient, issued>>

LoseMessage ==
    /\ Spend("loss")
    /\ toClient # <<>>
    /\ toClient' = Tail(toClient)
    /\ lost' = TRUE
    /\ UNCHANGED <<client, central, toCentral, issued>>

-----------------------------------------------------------------------------
(* Messages arriving at the client.                                          *)

\* The observers that see message m and are resolved by it.
Resolved(m) == {k \in pending : Recognises(k, m)}

\* The observer of querySubscriptions() takes over what the station answers.
NewFlags(m) == IF m.on THEN known \union {"subscriptions"} ELSE known \ {"subscriptions"}

\* The attributes after message m: without an observer only the track status
\* is understood (parseBroadcasts).
KnownAfter(m) ==
    IF m.type = "flags" /\ "subscriptions" \in pending THEN NewFlags(m)
    ELSE known \union (InfoQueries \intersect Resolved(m))

\* The callback of the handshake calls stopConnectTimeout().
ConnectTimerAfter(done) == connectTimer /\ ~done

\* parseDatagrams(): every observer sees the message, those that recognise it
\* are erased.  The callback of the handshake stops the timeout and emits
\* connected(): the poll timer starts, the device asks for its attributes; then
\* the CAN detectors are queried.  Observers made by callbacks are added last.
ParseMessage ==
    /\ socket /\ toClient # <<>>
    /\ LET m    == Head(toClient)
           done == "handshake" \in Resolved(m)
           next == IF done THEN DeviceQueries ELSE <<>>
       IN  /\ trackStatus' = IF m.type \in {"status", "broadcast"} THEN m.status
                             ELSE trackStatus
           /\ known' = KnownAfter(m)
           /\ connectTimer' = ConnectTimerAfter(done)
           /\ pollTimer' = (pollTimer \/ done)
           /\ pending' = (pending \ Resolved(m)) \union Elements(next)
           /\ sendBuffer' = sendBuffer \o (IF done THEN Append(next, "canDetectors") ELSE <<>>)
           /\ issued' = issued \union Elements(next)
                               \union (IF done THEN {"canDetectors"} ELSE {})
    /\ toClient' = Tail(toClient)
    /\ UNCHANGED <<socket, resendTimer, idleTimer, central, toCentral, lost, spent>>

-----------------------------------------------------------------------------
Link == CentralReceive \/ CentralHandle \/ LoseRequests \/ LoseMessage

Next ==
    \/ Connect \/ Disconnect \/ ConnectTimeout
    \/ \E c \in Commands : Command(c)
    \/ SendRequestsOnIdle
    \/ \E k \in Kinds : ResendStarved(k)
    \/ Link
    \/ \E status \in TrackStatus : PowerChange(status)
    \/ ParseMessage

Spec == Init /\ [][Next]_vars

\* The timers of the client fire, the station works off what it has received,
\* the event loop reads what has arrived.  Nobody has to connect, to command or
\* to disconnect; losses are finite (MaxLosses).
Fairness ==
    /\ WF_vars(SendRequestsOnIdle) /\ WF_vars(ParseMessage) /\ WF_vars(ConnectTimeout)
    /\ WF_vars(CentralReceive) /\ WF_vars(CentralHandle)
    /\ \A k \in Kinds : WF_vars(ResendStarved(k))

FairSpec == Spec /\ Fairness

-----------------------------------------------------------------------------
(* Properties.                                                               *)

\* Every variable has its type.
TypeOK ==
    /\ socket \in BOOLEAN /\ connectTimer \in BOOLEAN /\ resendTimer \in BOOLEAN
    /\ idleTimer \in BOOLEAN /\ pollTimer \in BOOLEAN
    /\ subscribed \in BOOLEAN /\ lost \in BOOLEAN
    /\ pending \subseteq Kinds /\ sendBuffer \in Seq(Wire)
    /\ trackStatus \in TrackStatus /\ power \in TrackStatus
    /\ known \subseteq {"subscriptions"} \union InfoQueries
    /\ toCentral \in Seq(Datagram) /\ inbox \in Datagram /\ toClient \in Seq(Message)
    /\ issued \subseteq Wire
    /\ spent \in [Budgets -> Nat]

\* The connect timeout runs exactly while the first track status query of the
\* session is unanswered: a session that got its answer is never torn down by
\* the timeout, one that did not cannot escape it.  The resend timer runs
\* exactly as long as there is a socket.
HandshakeGuarded ==
    /\ connectTimer <=> "handshake" \in pending
    /\ connectTimer => socket
    /\ socket <=> resendTimer
    /\ socket => idleTimer

\* Vehicles are polled exactly in sessions the station has answered: the
\* signals connected() and disconnected() come in pairs whatever ends a session.
PollingWhileConnected == pollTimer <=> (socket /\ ~connectTimer)

\* The two together: the timers of a session belong to it, whatever ends it.
\* See connectToHost(), disconnectFromHost() and stopConnectTimeout().
TimersFollowTheSession == HandshakeGuarded /\ PollingWhileConnected

\* A request reaches the station only on the socket of the session it was made
\* in: a command queued before a reconnect is not executed after it.
NoRequestOutlivesItsSession ==
    /\ \A i \in DOMAIN toCentral : toCentral[i].live => Elements(toCentral[i].requests) \subseteq issued
    /\ inbox.live => Elements(inbox.requests) \subseteq issued

\* Client::trackStatus() follows the station: once the handshake is done and
\* unless something was lost, the client shows the station's status as soon as
\* no message is under way.  The subscription has to be made before the query.
TrackStatusFollows ==
    socket /\ ~connectTimer /\ ~lost /\ toClient = <<>> => trackStatus = power

\* Device::state(): the device info is never empty, the constructor fills it.
DeviceState == IF ~socket THEN "Disconnected"
               ELSE IF "subscriptions" \notin known THEN "Connecting"
               ELSE "Connected"

\* A session whose handshake was answered gets the broadcasts of the station,
\* and no lost datagram changes that: the subscription travels with the query
\* that is the handshake, in a buffer that holds nothing of an older session,
\* and a handshake that is lost is not repeated without the subscription.
ConnectedIsSubscribed == socket /\ ~connectTimer => subscribed

\* Every pending request gets its answer, or the session ends: whatever of
\* requests and answers is lost is made good by the resend timer.  So the user does
\* not look at a connecting device forever: the flags of the subscription are told,
\* or the session ends.
PendingIsAnswered ==
    /\ \A k \in Kinds : (socket /\ k \in pending) ~> (k \notin pending \/ ~socket)
    /\ (DeviceState = "Connecting") ~> (DeviceState # "Connecting")
=============================================================================
