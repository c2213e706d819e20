-------------------------- MODULE Z21ClientProofs --------------------------
(* Theorems about Z21Client, for every set of commands and queries, every    *)
(* datagram size and every bound.                                            *)
EXTENDS Z21Client, SequenceTheorems, TLAPS

-----------------------------------------------------------------------------
(* Lemmas about the sequences the client and the link are made of.           *)

\* The elements of a sequence over S are in S.
LEMMA ElementsInSet ==
    ASSUME NEW S, NEW s \in Seq(S)
    PROVE  Elements(s) \subseteq S
  BY DEF Elements

\* Splitting a buffer at n gives two sequences over the same set.
LEMMA SplitBuffer ==
    ASSUME NEW S, NEW s \in Seq(S), NEW n \in Nat, n <= Len(s)
    PROVE  SubSeq(s, 1, n) \in Seq(S) /\ SubSeq(s, n + 1, Len(s)) \in Seq(S)
  <1>1. \A i \in 1 .. n : s[i] \in S  BY ElementOfSeq, LenProperties
  <1>2. \A i \in (n + 1) .. Len(s) : s[i] \in S  BY ElementOfSeq, LenProperties
  <1>3. SubSeq(s, 1, n) \in Seq(S)  BY <1>1, SubSeqProperties
  <1>4. SubSeq(s, n + 1, Len(s)) \in Seq(S)  BY <1>2, SubSeqProperties, LenProperties
  <1> QED  BY <1>3, <1>4

\* Requests make up a datagram: the part of the buffer that is sent.
LEMMA DatagramSize ==
    ASSUME NEW s \in Seq(Wire), BoundAssumption
    PROVE  (IF Len(s) < MaxDatagram THEN Len(s) ELSE MaxDatagram) \in 0 .. Len(s)
  BY LenProperties DEF BoundAssumption

\* What the client and the station say is made of requests and messages.
LEMMA AnswersAreMessages ==
    ASSUME TypeOK, NEW w \in Wire, OutcomeAssumption, KindAssumption
    PROVE  Answers(w) \in Seq(Message)
  <1>1. CASE w \in Commands
    <2>1. [type |-> "broadcast", status |-> Outcome[w]] \in Message
      BY <1>1 DEF Message, OutcomeAssumption
    <2> QED  BY <1>1, <2>1, EmptySeq DEF Answers
  <1>2. CASE w \notin Commands
    <2>1. w \in {"subscribe", "canDetectors"} \/ w \in Queries  BY <1>2 DEF Wire
    <2>2. [type |-> "status", status |-> power] \in Message  BY DEF Message, TypeOK
    <2>3. [type |-> "flags", on |-> subscribed] \in Message  BY DEF Message, TypeOK
    <2>4. w \in InfoQueries => [type |-> "info", query |-> w] \in Message  BY DEF Message
    <2> QED  BY <1>2, <2>1, <2>2, <2>3, <2>4, EmptySeq DEF Answers, Queries
  <1> QED  BY <1>1, <1>2

LEMMA ConnectRequestsType ==
    ConnectRequests \in Seq(Wire) /\ Elements(ConnectRequests) \subseteq Wire
  <1>1. "subscribe" \in Wire /\ "trackStatus" \in Wire  BY DEF Wire, Queries
  <1>2. ConnectRequests \in Seq(Wire)  BY <1>1 DEF ConnectRequests
  <1> QED  BY <1>2, ElementsInSet

LEMMA DataIsWire == \A k \in Kinds : Data(k) \in Wire
  BY DEF Kinds, Wire, Data, Queries

\* A datagram of a dropped session is a datagram.
LEMMA DeadDatagram ==
    ASSUME NEW d \in Datagram
    PROVE  [d EXCEPT !.live = FALSE] \in Datagram /\ [d EXCEPT !.live = FALSE].live = FALSE
  BY DEF Datagram

\* Dropping the socket leaves well-formed datagrams, none of which is live.
LEMMA DropSessionEffect ==
    ASSUME TypeOK, DropSession
    PROVE  /\ toCentral' \in Seq(Datagram) /\ inbox' \in Datagram
           /\ toClient' = <<>> /\ subscribed' = FALSE
           /\ DOMAIN toCentral' = DOMAIN toCentral
           /\ \A i \in DOMAIN toCentral' : toCentral'[i].live = FALSE
           /\ inbox'.live = FALSE
  <1>1. toCentral \in Seq(Datagram) /\ inbox \in Datagram  BY DEF TypeOK
  <1>2. \A i \in DOMAIN toCentral : [toCentral[i] EXCEPT !.live = FALSE] \in Datagram
    BY <1>1, ElementOfSeq, LenProperties, DeadDatagram
  <1>3. DOMAIN toCentral = 1 .. Len(toCentral) /\ Len(toCentral) \in Nat
    BY <1>1, LenProperties
  <1>4. toCentral' \in Seq(Datagram)
    BY <1>2, <1>3, IsASeq DEF DropSession
  <1>5. \A i \in DOMAIN toCentral : toCentral[i] \in Datagram
    BY <1>1, ElementOfSeq, LenProperties
  <1>6. \A i \in DOMAIN toCentral' : toCentral'[i].live = FALSE
    BY <1>5, DeadDatagram DEF DropSession
  <1>7. inbox' \in Datagram /\ inbox'.live = FALSE
    BY <1>1, DeadDatagram DEF DropSession
  <1> QED  BY <1>4, <1>6, <1>7 DEF DropSession

LEMMA SpendType ==
    ASSUME TypeOK, NEW b \in Budgets, Spend(b)
    PROVE  spent' \in [Budgets -> Nat]
  BY DEF TypeOK, Spend

-----------------------------------------------------------------------------
(* Type correctness.                                                         *)

LEMMA TypeStep ==
    ASSUME TypeOK, Next, OutcomeAssumption, KindAssumption, DeviceQueriesAssumption,
           BoundAssumption
    PROVE  TypeOK'
  <1> USE DEF Budgets
  <1>1. CASE Connect
    <2>1. ConnectRequests \in Seq(Wire) /\ Elements(ConnectRequests) \subseteq Wire
      BY ConnectRequestsType
    <2>2. sendBuffer' \in Seq(Wire)
      BY <1>1, <2>1, ConcatEmptySeq DEF Connect, BufferAfterDisconnect
    <2>3. spent' \in [Budgets -> Nat]  BY <1>1, SpendType DEF Connect
    <2>4. pollTimer' \in BOOLEAN
      BY <1>1 DEF Connect, PollTimerAfterDisconnect, TypeOK
    <2>5. pending' \subseteq Kinds /\ issued' \subseteq Wire  BY <1>1, <2>1 DEF Connect, Kinds
    <2>6. DropSession  BY <1>1 DEF Connect
    <2> QED
      BY <1>1, <2>2, <2>3, <2>4, <2>5, <2>6, DropSessionEffect, EmptySeq DEF Connect, TypeOK
  <1>2. CASE DisconnectFromHost
    <2>1. DropSession  BY <1>2 DEF DisconnectFromHost
    <2>2. pollTimer' \in BOOLEAN
      BY <1>2 DEF DisconnectFromHost, PollTimerAfterDisconnect, TypeOK
    <2>3. sendBuffer' \in Seq(Wire)
      BY <1>2, EmptySeq DEF DisconnectFromHost, BufferAfterDisconnect
    <2> QED
      BY <1>2, <2>1, <2>2, <2>3, DropSessionEffect, EmptySeq DEF DisconnectFromHost, TypeOK
  <1>3. ASSUME NEW c \in Commands, Command(c) PROVE TypeOK'
    <2>1. c \in Kinds /\ c \in Wire  BY DEF Kinds, Wire
    <2>2. sendBuffer' \in Seq(Wire)  BY <1>3, <2>1 DEF Command, TypeOK
    <2> QED  BY <1>3, <2>1, <2>2, SpendType DEF Command, TypeOK, central, network
  <1>4. CASE SendRequestsOnIdle
    <2> DEFINE n == IF Len(sendBuffer) < MaxDatagram THEN Len(sendBuffer) ELSE MaxDatagram
    <2>1. sendBuffer \in Seq(Wire)  BY DEF TypeOK
    <2>2. n \in Nat /\ n <= Len(sendBuffer)  BY <2>1, DatagramSize
    <2>3. SubSeq(sendBuffer, 1, n) \in Seq(Wire)
          /\ SubSeq(sendBuffer, n + 1, Len(sendBuffer)) \in Seq(Wire)
      BY <2>1, <2>2, SplitBuffer
    <2>4. [live |-> TRUE, requests |-> SubSeq(sendBuffer, 1, n)] \in Datagram
      BY <2>3 DEF Datagram
    <2>5. toCentral' \in Seq(Datagram) /\ sendBuffer' \in Seq(Wire)
      BY <1>4, <2>3, <2>4, AppendProperties DEF SendRequestsOnIdle, TypeOK
    <2> QED  BY <1>4, <2>5 DEF SendRequestsOnIdle, TypeOK, central
  <1>5. ASSUME NEW k \in Kinds, ResendStarved(k) PROVE TypeOK'
    <2>1. sendBuffer' \in Seq(Wire)
      BY <1>5, DataIsWire DEF ResendStarved, Resent, TypeOK
    <2>2. spent' \in [Budgets -> Nat]  BY <1>5, SpendType DEF ResendStarved, TypeOK
    <2> QED  BY <1>5, <2>1, <2>2 DEF ResendStarved, TypeOK, central, network
  <1>6. CASE CentralReceive
    <2>1. Head(toCentral) \in Datagram /\ Tail(toCentral) \in Seq(Datagram)
      BY <1>6, HeadTailProperties DEF CentralReceive, TypeOK
    <2> QED  BY <1>6, <2>1 DEF CentralReceive, TypeOK, client
  <1>7. CASE CentralHandle
    <2> DEFINE w == Head(inbox.requests)
    <2>1. inbox.requests \in Seq(Wire) /\ inbox.live \in BOOLEAN  BY DEF TypeOK, Datagram
    <2>2. w \in Wire /\ Tail(inbox.requests) \in Seq(Wire)
      BY <1>7, <2>1, HeadTailProperties DEF CentralHandle
    <2>3. inbox' \in Datagram  BY <1>7, <2>1, <2>2 DEF CentralHandle, TypeOK, Datagram
    <2>4. toClient' \in Seq(Message)
      BY <1>7, <2>2, AnswersAreMessages, ConcatProperties DEF CentralHandle, TypeOK
    <2>5. power' \in TrackStatus /\ subscribed' \in BOOLEAN
      BY <1>7, <2>1, <2>2 DEF CentralHandle, TypeOK, OutcomeAssumption
    <2> QED  BY <1>7, <2>3, <2>4, <2>5 DEF CentralHandle, TypeOK, client
  <1>8. CASE LoseRequests
    <2>1. Head(toCentral) \in Datagram /\ Tail(toCentral) \in Seq(Datagram)
      BY <1>8, HeadTailProperties DEF LoseRequests, TypeOK
    <2> QED  BY <1>8, <2>1, SpendType DEF LoseRequests, TypeOK, client, central, Datagram
  <1>9. CASE LoseMessage
    <2>1. Tail(toClient) \in Seq(Message)
      BY <1>9, HeadTailProperties DEF LoseMessage, TypeOK
    <2> QED  BY <1>9, <2>1, SpendType DEF LoseMessage, TypeOK, client, central
  <1>10. ASSUME NEW status \in TrackStatus, PowerChange(status) PROVE TypeOK'
    <2>1. [type |-> "broadcast", status |-> status] \in Message  BY DEF Message
    <2>2. toClient' \in Seq(Message)
      BY <1>10, <2>1, AppendProperties DEF PowerChange, TypeOK
    <2> QED  BY <1>10, <2>2, SpendType DEF PowerChange, TypeOK, client
  <1>11. CASE ParseMessage
    <2> DEFINE m    == Head(toClient)
               done == "handshake" \in Resolved(m)
               next == IF done THEN DeviceQueries ELSE <<>>
    <2>1. m \in Message /\ Tail(toClient) \in Seq(Message)
      BY <1>11, HeadTailProperties DEF ParseMessage, TypeOK
    <2>2. next \in Seq(Queries) /\ Elements(next) \subseteq Queries
      <3>1. CASE done  BY <3>1, ElementsInSet DEF DeviceQueriesAssumption
      <3>2. CASE ~done  BY <3>2, EmptySeq, ElementsInSet
      <3> QED  BY <3>1, <3>2
    <2>3. next \in Seq(Wire) /\ Elements(next) \subseteq Wire /\ Elements(next) \subseteq Kinds
      BY <2>2, SeqMonotonic DEF Wire, Kinds
    <2>4. (IF done THEN Append(next, "canDetectors") ELSE <<>>) \in Seq(Wire)
      BY <2>3, AppendProperties DEF Wire
    <2>5. sendBuffer' \in Seq(Wire)
      BY <1>11, <2>4, ConcatProperties DEF ParseMessage, TypeOK
    <2>6. trackStatus' \in TrackStatus
      BY <1>11, <2>1 DEF ParseMessage, TypeOK, Message
    <2>7. known' \subseteq {"subscriptions"} \union InfoQueries
      BY <1>11, <2>1 DEF ParseMessage, TypeOK, Message, KnownAfter, NewFlags
    <2>8. pending' \subseteq Kinds /\ issued' \subseteq Wire
      BY <1>11, <2>3 DEF ParseMessage, TypeOK, Wire
    <2>9. connectTimer' \in BOOLEAN /\ pollTimer' \in BOOLEAN /\ toClient' \in Seq(Message)
      BY <1>11, <2>1 DEF ParseMessage, TypeOK, ConnectTimerAfter
    <2> QED
      BY <1>11, <2>5, <2>6, <2>7, <2>8, <2>9 DEF ParseMessage, TypeOK, central
  <1> QED
    BY <1>1, <1>2, <1>3, <1>4, <1>5, <1>6, <1>7, <1>8, <1>9, <1>10, <1>11
    DEF Next, Link, Disconnect, ConnectTimeout

LEMMA TypeStutter == TypeOK /\ UNCHANGED vars => TypeOK'
  BY DEF TypeOK, vars, client, central, network

LEMMA TypeInit == ASSUME KindAssumption, Init PROVE TypeOK
  <1>1. inbox \in Datagram  BY DEF Init, Datagram
  <1>2. spent \in [Budgets -> Nat]  BY DEF Init
  <1>3. sendBuffer \in Seq(Wire) /\ toCentral \in Seq(Datagram) /\ toClient \in Seq(Message)
    BY EmptySeq DEF Init
  <1> QED  BY <1>1, <1>2, <1>3 DEF Init, TypeOK, KindAssumption

\* Every reachable state of the client, the link and the station is of the
\* type the other proofs rely on.
THEOREM TypeCorrect == Spec => []TypeOK
  <1> USE OutcomeAssumption, KindAssumption, DeviceQueriesAssumption, BoundAssumption
  <1>1. Init => TypeOK  BY TypeInit
  <1>2. TypeOK /\ [Next]_vars => TypeOK'  BY TypeStep, TypeStutter
  <1> QED  BY <1>1, <1>2, PTL DEF Spec

-----------------------------------------------------------------------------
(* The handshake and its timer.                                              *)

\* None of the queries of the device is the handshake.
LEMMA NoSecondHandshake ==
    ASSUME DeviceQueriesAssumption, KindAssumption
    PROVE  "handshake" \notin Elements(DeviceQueries) /\ "handshake" \notin Commands
  <1>1. Elements(DeviceQueries) \subseteq Queries
    BY ElementsInSet DEF DeviceQueriesAssumption
  <1>2. "handshake" \notin Queries  BY DEF Queries, KindAssumption
  <1> QED  BY <1>1, <1>2 DEF KindAssumption

LEMMA HandshakeStep ==
    ASSUME TypeOK, HandshakeGuarded, [Next]_vars, DeviceQueriesAssumption, KindAssumption
    PROVE  HandshakeGuarded'
  <1>1. CASE Connect
    BY <1>1 DEF Connect, HandshakeGuarded
  <1>2. CASE DisconnectFromHost
    BY <1>2 DEF DisconnectFromHost, HandshakeGuarded
  <1>3. ASSUME NEW c \in Commands, Command(c) PROVE HandshakeGuarded'
    BY <1>3, NoSecondHandshake DEF Command, HandshakeGuarded
  <1>4. CASE SendRequestsOnIdle
    BY <1>4 DEF SendRequestsOnIdle, HandshakeGuarded
  <1>5. ASSUME NEW k \in Kinds, ResendStarved(k) PROVE HandshakeGuarded'
    BY <1>5 DEF ResendStarved, HandshakeGuarded
  <1>6. ASSUME UNCHANGED client PROVE HandshakeGuarded'
    BY <1>6 DEF client, HandshakeGuarded
  <1>7. CASE ParseMessage
    <2> DEFINE m    == Head(toClient)
               done == "handshake" \in Resolved(m)
               next == IF done THEN DeviceQueries ELSE <<>>
    <2>1. "handshake" \notin Elements(next)  BY NoSecondHandshake DEF Elements
    <2>2. "handshake" \in pending' <=> "handshake" \in pending /\ ~done
      BY <1>7, <2>1 DEF ParseMessage, Resolved
    <2>3. connectTimer' <=> connectTimer /\ ~done
      BY <1>7 DEF ParseMessage, ConnectTimerAfter
    <2> QED  BY <1>7, <2>2, <2>3 DEF ParseMessage, HandshakeGuarded
  <1>8. Link => UNCHANGED client
    BY DEF Link, CentralReceive, CentralHandle, LoseRequests, LoseMessage
  <1>9. ASSUME NEW status \in TrackStatus, PowerChange(status) PROVE UNCHANGED client
    BY <1>9 DEF PowerChange
  <1>10. UNCHANGED vars => UNCHANGED client  BY DEF vars
  <1> QED
    BY <1>1, <1>2, <1>3, <1>4, <1>5, <1>6, <1>7, <1>8, <1>9, <1>10
    DEF Next, Disconnect, ConnectTimeout

\* The connect timeout runs exactly while the first query of the session is
\* unanswered, whatever is lost, resent or answered twice.
THEOREM HandshakeIsGuarded == Spec => []HandshakeGuarded
  <1> USE DeviceQueriesAssumption, KindAssumption
  <1>1. Init => HandshakeGuarded  BY DEF Init, HandshakeGuarded
  <1>2. TypeOK /\ HandshakeGuarded /\ [Next]_vars => HandshakeGuarded'  BY HandshakeStep
  <1> QED  BY <1>1, <1>2, TypeCorrect, PTL DEF Spec

LEMMA PollingStep ==
    ASSUME HandshakeGuarded, HandshakeGuarded', PollingWhileConnected, [Next]_vars
    PROVE  PollingWhileConnected'
  <1>1. CASE Connect
    BY <1>1 DEF Connect, PollTimerAfterDisconnect, PollingWhileConnected
  <1>2. CASE DisconnectFromHost
    BY <1>2 DEF DisconnectFromHost, PollTimerAfterDisconnect, PollingWhileConnected
  <1>3. ASSUME UNCHANGED <<socket, connectTimer, pollTimer>> PROVE PollingWhileConnected'
    BY <1>3 DEF PollingWhileConnected
  <1>4. CASE ParseMessage
    <2> DEFINE done == "handshake" \in Resolved(Head(toClient))
    <2>1. connectTimer' <=> connectTimer /\ ~done
      BY <1>4 DEF ParseMessage, ConnectTimerAfter
    <2>2. pollTimer' <=> pollTimer \/ done  BY <1>4 DEF ParseMessage
    <2>3. done => connectTimer  BY DEF Resolved, HandshakeGuarded
    <2>4. socket /\ socket'  BY <1>4 DEF ParseMessage
    <2> QED  BY <2>1, <2>2, <2>3, <2>4 DEF PollingWhileConnected
  <1>5. Link => UNCHANGED <<socket, connectTimer, pollTimer>>
    BY DEF Link, CentralReceive, CentralHandle, LoseRequests, LoseMessage, client
  <1>6. \A status \in TrackStatus : PowerChange(status)
            => UNCHANGED <<socket, connectTimer, pollTimer>>
    BY DEF PowerChange, client
  <1>7. \A c \in Commands : Command(c) => UNCHANGED <<socket, connectTimer, pollTimer>>
    BY DEF Command
  <1>8. \A k \in Kinds : ResendStarved(k) => UNCHANGED <<socket, connectTimer, pollTimer>>
    BY DEF ResendStarved
  <1>9. SendRequestsOnIdle \/ UNCHANGED vars => UNCHANGED <<socket, connectTimer, pollTimer>>
    BY DEF SendRequestsOnIdle, vars, client
  <1> QED
    BY <1>1, <1>2, <1>3, <1>4, <1>5, <1>6, <1>7, <1>8, <1>9
    DEF Next, Disconnect, ConnectTimeout

\* The poll timer of the vehicle control runs exactly in answered sessions:
\* connected() and disconnected() are emitted in pairs.
THEOREM PollsWhileConnected == Spec => []PollingWhileConnected
  <1>1. Init => PollingWhileConnected  BY DEF Init, PollingWhileConnected
  <1>2. HandshakeGuarded /\ HandshakeGuarded' /\ PollingWhileConnected /\ [Next]_vars
            => PollingWhileConnected'
    BY PollingStep
  <1> QED  BY <1>1, <1>2, HandshakeIsGuarded, PTL DEF Spec

\* All timers of a session run as long as it needs them, and no longer.
THEOREM TimersFollow == Spec => []TimersFollowTheSession
  <1>1. HandshakeGuarded /\ PollingWhileConnected => TimersFollowTheSession
    BY DEF TimersFollowTheSession
  <1> QED  BY <1>1, HandshakeIsGuarded, PollsWhileConnected, PTL

-----------------------------------------------------------------------------
(* No request outlives its session.  What is inductive is that everything    *)
(* the session still may send is made of requests issued in the session: the *)
(* buffer, the live datagrams and what is pending, which may be resent.      *)

IssuedInv ==
    /\ sendBuffer \in Seq(issued)
    /\ \A k \in pending : Data(k) \in issued
    /\ \A i \in DOMAIN toCentral : toCentral[i].live => toCentral[i].requests \in Seq(issued)
    /\ inbox.live => inbox.requests \in Seq(issued)

\* Requests issued later do not invalidate what is known of earlier ones.
LEMMA IssuedGrows ==
    ASSUME IssuedInv, issued \subseteq issued', UNCHANGED <<toCentral, inbox>>
    PROVE  /\ sendBuffer \in Seq(issued')
           /\ \A i \in DOMAIN toCentral' :
                  toCentral'[i].live => toCentral'[i].requests \in Seq(issued')
           /\ inbox'.live => inbox'.requests \in Seq(issued')
  BY SeqMonotonic DEF IssuedInv

LEMMA IssuedStep ==
    ASSUME TypeOK, IssuedInv, [Next]_vars, BoundAssumption, DeviceQueriesAssumption,
           KindAssumption
    PROVE  IssuedInv'
  <1>1. CASE Connect
    <2>1. ConnectRequests \in Seq(Elements(ConnectRequests))
      BY DEF ConnectRequests, Elements
    <2>2. sendBuffer' \in Seq(issued')
      BY <1>1, <2>1, ConnectRequestsType, ConcatEmptySeq DEF Connect, BufferAfterDisconnect
    <2>3. Data("handshake") \in Elements(ConnectRequests)
      BY DEF Data, ConnectRequests, Elements
    <2> QED  BY <1>1, <2>2, <2>3, DropSessionEffect DEF Connect, IssuedInv
  <1>2. CASE DisconnectFromHost
    BY <1>2, EmptySeq, DropSessionEffect DEF DisconnectFromHost, BufferAfterDisconnect, IssuedInv
  <1>3. ASSUME NEW c \in Commands, Command(c) PROVE IssuedInv'
    <2>1. issued \subseteq issued' /\ UNCHANGED <<toCentral, inbox>> /\ c \in issued'
      BY <1>3 DEF Command, central, network
    <2>2. sendBuffer' \in Seq(issued')
      BY <1>3, <2>1, IssuedGrows, AppendProperties DEF Command
    <2>3. Data(c) = c  BY DEF Data, KindAssumption
    <2> QED  BY <1>3, <2>1, <2>2, <2>3, IssuedGrows DEF Command, IssuedInv
  <1>4. CASE SendRequestsOnIdle
    <2> DEFINE n == IF Len(sendBuffer) < MaxDatagram THEN Len(sendBuffer) ELSE MaxDatagram
               d == [live |-> TRUE, requests |-> SubSeq(sendBuffer, 1, n)]
    <2>1. sendBuffer \in Seq(Wire) /\ sendBuffer \in Seq(issued)  BY DEF TypeOK, IssuedInv
    <2>2. n \in Nat /\ n <= Len(sendBuffer)  BY <2>1, DatagramSize
    <2>3. SubSeq(sendBuffer, 1, n) \in Seq(issued)
          /\ SubSeq(sendBuffer, n + 1, Len(sendBuffer)) \in Seq(issued)
      BY <2>1, <2>2, SplitBuffer
    <2>4. SubSeq(sendBuffer, 1, n) \in Seq(Wire)  BY <2>1, <2>2, SplitBuffer
    <2>5. d \in Datagram  BY <2>4 DEF Datagram
    <2>6. toCentral' = Append(toCentral, d) /\ toCentral \in Seq(Datagram)
      BY <1>4 DEF SendRequestsOnIdle, TypeOK
    <2>7. ASSUME NEW i \in DOMAIN toCentral', toCentral'[i].live
          PROVE  toCentral'[i].requests \in Seq(issued)
      <3>1. i \in 1 .. Len(toCentral) + 1  BY <2>5, <2>6, AppendProperties, LenProperties
      <3>2. CASE i \in 1 .. Len(toCentral)
        <4>1. toCentral'[i] = toCentral[i]  BY <3>2, <2>5, <2>6, AppendProperties
        <4> QED  BY <4>1, <3>2, <2>6, <2>7, LenProperties DEF IssuedInv
      <3>3. CASE i = Len(toCentral) + 1
        BY <3>3, <2>3, <2>5, <2>6, AppendProperties
      <3> QED  BY <3>1, <3>2, <3>3, <2>6, LenProperties
    <2> QED  BY <1>4, <2>3, <2>7 DEF SendRequestsOnIdle, IssuedInv, central
  <1>5. ASSUME NEW k \in Kinds, ResendStarved(k) PROVE IssuedInv'
    <2>1. sendBuffer' \in Seq(issued)
      BY <1>5, AppendProperties DEF ResendStarved, Starved, Resent, IssuedInv
    <2> QED  BY <1>5, <2>1 DEF ResendStarved, IssuedInv, central, network
  <1>6. CASE CentralReceive
    <2>1. toCentral \in Seq(Datagram) /\ toCentral # <<>>
      BY <1>6 DEF CentralReceive, TypeOK
    <2>2. Head(toCentral) = toCentral[1] /\ 1 \in DOMAIN toCentral
      BY <2>1, LenProperties, EmptySeq
    <2>3. \A i \in DOMAIN toCentral' : i + 1 \in DOMAIN toCentral /\ toCentral'[i] = toCentral[i + 1]
      BY <1>6, <2>1, HeadTailProperties, LenProperties DEF CentralReceive
    <2> QED  BY <1>6, <2>2, <2>3 DEF CentralReceive, IssuedInv, client
  <1>7. CASE CentralHandle
    <2>1. inbox.live => Tail(inbox.requests) \in Seq(issued)
      BY <1>7, HeadTailProperties DEF CentralHandle, IssuedInv
    <2>2. inbox'.live = inbox.live /\ inbox'.requests = Tail(inbox.requests)
      BY <1>7 DEF CentralHandle, TypeOK, Datagram
    <2> QED  BY <1>7, <2>1, <2>2 DEF CentralHandle, IssuedInv, client
  <1>8. CASE LoseRequests
    <2>1. toCentral \in Seq(Datagram) /\ toCentral # <<>>  BY <1>8 DEF LoseRequests, TypeOK
    <2>2. \A i \in DOMAIN toCentral' : i + 1 \in DOMAIN toCentral /\ toCentral'[i] = toCentral[i + 1]
      BY <1>8, <2>1, HeadTailProperties, LenProperties DEF LoseRequests
    <2> QED  BY <1>8, <2>2 DEF LoseRequests, IssuedInv, client, central
  <1>9. CASE LoseMessage
    BY <1>9 DEF LoseMessage, IssuedInv, client, central
  <1>10. ASSUME NEW status \in TrackStatus, PowerChange(status) PROVE IssuedInv'
    BY <1>10 DEF PowerChange, IssuedInv, client
  <1>11. CASE ParseMessage
    <2> DEFINE done == "handshake" \in Resolved(Head(toClient))
               next == IF done THEN DeviceQueries ELSE <<>>
               more == IF done THEN Append(next, "canDetectors") ELSE <<>>
    <2>1. issued \subseteq issued' /\ UNCHANGED <<toCentral, inbox>>
      BY <1>11 DEF ParseMessage, central
    <2>2. next \in Seq(Queries)
      <3>1. CASE done  BY <3>1 DEF DeviceQueriesAssumption
      <3>2. CASE ~done  BY <3>2, EmptySeq
      <3> QED  BY <3>1, <3>2
    <2>3. next \in Seq(Elements(next))  BY <2>2, LenProperties, ElementOfSeq, IsASeq, SeqEqual DEF Elements
    <2>4. Elements(next) \subseteq issued'  BY <1>11 DEF ParseMessage
    <2>5. next \in Seq(issued')  BY <2>3, <2>4, SeqMonotonic
    <2>6. done => "canDetectors" \in issued'  BY <1>11 DEF ParseMessage
    <2>7. more \in Seq(issued')
      <3>1. CASE done  BY <3>1, <2>5, <2>6, AppendProperties
      <3>2. CASE ~done  BY <3>2, EmptySeq
      <3> QED  BY <3>1, <3>2
    <2>8. sendBuffer' \in Seq(issued')
      BY <1>11, <2>1, <2>7, IssuedGrows, ConcatProperties DEF ParseMessage
    <2>9. ASSUME NEW k \in pending' PROVE Data(k) \in issued'
      <3>1. k \in pending \/ k \in Elements(next)  BY <1>11 DEF ParseMessage
      <3>2. k \in Elements(next) => Data(k) = k
        BY <2>2, ElementsInSet DEF Data, Queries, KindAssumption
      <3> QED  BY <3>1, <3>2, <2>1, <2>4 DEF IssuedInv
    <2> QED  BY <2>1, <2>8, <2>9, IssuedGrows DEF IssuedInv
  <1>12. CASE UNCHANGED vars
    BY <1>12 DEF vars, client, central, network, IssuedInv
  <1> QED
    BY <1>1, <1>2, <1>3, <1>4, <1>5, <1>6, <1>7, <1>8, <1>9, <1>10, <1>11, <1>12
    DEF Next, Link, Disconnect, ConnectTimeout

\* A request reaches the station only in the session it was made in: what was
\* queued, pending or under way when a session ended has no effect on the next.
THEOREM RequestsStayInSession == Spec => []NoRequestOutlivesItsSession
  <1> USE BoundAssumption, DeviceQueriesAssumption, KindAssumption
  <1>1. Init => IssuedInv  BY EmptySeq DEF Init, IssuedInv
  <1>2. TypeOK /\ IssuedInv /\ [Next]_vars => IssuedInv'  BY IssuedStep
  <1>3. IssuedInv => NoRequestOutlivesItsSession
    BY ElementsInSet DEF IssuedInv, NoRequestOutlivesItsSession
  <1> QED  BY <1>1, <1>2, <1>3, TypeCorrect, PTL DEF Spec

-----------------------------------------------------------------------------
(* Subscriptions.  The first datagram of a session holds the subscription    *)
(* and, behind it, the query that is the handshake.  Until the station has   *)
(* handled the one, there is no other query of the track status that is not  *)
(* behind a subscription, and no answer.                                     *)

\* Each query of the track status is behind a subscription.
Led(s) == \A i \in DOMAIN s : s[i] = "trackStatus" => \E j \in 1..i - 1 : s[j] = "subscribe"

\* The buffer holds the requests a session begins with, or none of them.
Begins(s) == \A i \in DOMAIN s : s[i] = "trackStatus" => i = 2 /\ s[1] = "subscribe"

SubscribedInv ==
    /\ ConnectedIsSubscribed
    /\ socket /\ ~subscribed =>
          /\ \A i \in DOMAIN toClient : toClient[i].type # "status"
          /\ Begins(sendBuffer)
          /\ \A i \in DOMAIN toCentral : toCentral[i].live => Led(toCentral[i].requests)
          /\ inbox.live => Led(inbox.requests)

\* A datagram takes both or none of them.
LEMMA BeginningIsSent ==
    ASSUME NEW s \in Seq(Wire), Begins(s), NEW n \in 1..Len(s), n = 1 => Len(s) = 1
    PROVE  Led(SubSeq(s, 1, n)) /\ Begins(SubSeq(s, n + 1, Len(s)))
  <1>1. Len(s) \in Nat /\ DOMAIN s = 1..Len(s)  BY LenProperties
  <1>2. \A i \in 1..n : s[i] \in Wire  BY <1>1, ElementOfSeq
  <1>3. \A i \in n + 1..Len(s) : s[i] \in Wire  BY <1>1, ElementOfSeq
  <1>4. /\ DOMAIN SubSeq(s, 1, n) = 1..n
        /\ \A i \in 1..n : SubSeq(s, 1, n)[i] = s[i]
    <2>1. /\ SubSeq(s, 1, n) \in Seq(Wire)
          /\ Len(SubSeq(s, 1, n)) = IF 1 <= n THEN n - 1 + 1 ELSE 0
          /\ \A i \in 1..n - 1 + 1 : SubSeq(s, 1, n)[i] = s[1 + i - 1]
      BY <1>1, <1>2, SubSeqProperties
    <2>2. n - 1 + 1 = n /\ \A i \in 1..n : 1 + i - 1 = i  OBVIOUS
    <2> QED  BY <2>1, <2>2, LenProperties
  <1>5. /\ DOMAIN SubSeq(s, n + 1, Len(s)) = 1..Len(s) - n
        /\ \A i \in 1..Len(s) - n : SubSeq(s, n + 1, Len(s))[i] = s[n + i]
    <2>1. CASE n = Len(s)
      <3>1. SubSeq(s, n + 1, Len(s)) = <<>>  BY <1>1, <2>1, SubSeqEmpty
      <3> QED  BY <3>1, <2>1, <1>1, EmptySeq
    <2>2. CASE n < Len(s)
      <3> DEFINE from == n + 1
      <3>1. from \in Int /\ from <= Len(s) /\ Len(s) - from + 1 = Len(s) - n
            /\ \A i \in 1..Len(s) - n : from + i - 1 = n + i
        BY <1>1, <2>2
      <3>2. /\ SubSeq(s, from, Len(s)) \in Seq(Wire)
            /\ Len(SubSeq(s, from, Len(s))) =
                  IF from <= Len(s) THEN Len(s) - from + 1 ELSE 0
            /\ \A i \in 1..Len(s) - from + 1 : SubSeq(s, from, Len(s))[i] = s[from + i - 1]
        <4> HIDE DEF from
        <4> QED  BY <1>1, <1>3, <3>1, SubSeqProperties DEF from
      <3>3. DOMAIN SubSeq(s, from, Len(s)) = 1..Len(SubSeq(s, from, Len(s)))
        BY <3>2, LenProperties
      <3> HIDE DEF from
      <3>4. DOMAIN SubSeq(s, from, Len(s)) = 1..Len(s) - n
            /\ \A i \in 1..Len(s) - n : SubSeq(s, from, Len(s))[i] = s[n + i]
        BY <3>1, <3>2, <3>3
      <3> QED  BY <3>4 DEF from
    <2> QED  BY <1>1, <2>1, <2>2
  <1>6. Led(SubSeq(s, 1, n))
    <2>1. ASSUME NEW i \in 1..n, s[i] = "trackStatus"
          PROVE  \E j \in 1..i - 1 : SubSeq(s, 1, n)[j] = "subscribe"
      <3>1. i = 2 /\ s[1] = "subscribe"  BY <1>1, <2>1 DEF Begins
      <3>2. 1 \in 1..i - 1 /\ 1 \in 1..n  BY <1>1, <3>1
      <3> QED  BY <1>4, <3>1, <3>2
    <2> QED  BY <1>4, <2>1 DEF Led
  <1>7. Begins(SubSeq(s, n + 1, Len(s)))
    <2>1. \A i \in 1..Len(s) - n : n + i \in DOMAIN s /\ n + i # 2  BY <1>1
    <2>2. \A i \in 1..Len(s) - n : s[n + i] # "trackStatus"  BY <2>1 DEF Begins
    <2> QED  BY <1>5, <2>2 DEF Begins
  <1> QED  BY <1>6, <1>7

\* What is appended is no query of the track status.
LEMMA OthersFollow ==
    ASSUME NEW s \in Seq(Wire), Begins(s), NEW r \in Wire, r # "trackStatus"
    PROVE  Begins(Append(s, r))
  <1>1. /\ DOMAIN s = 1..Len(s) /\ Len(s) \in Nat
        /\ DOMAIN Append(s, r) = 1..Len(s) + 1 /\ Append(s, r)[Len(s) + 1] = r
        /\ \A i \in 1..Len(s) : Append(s, r)[i] = s[i]
    BY AppendProperties, LenProperties
  <1>2. ASSUME NEW i \in 1..Len(s) + 1, Append(s, r)[i] = "trackStatus"
        PROVE  i = 2 /\ Append(s, r)[1] = "subscribe"
    <2>1. i \in 1..Len(s) /\ s[i] = "trackStatus"  BY <1>1, <1>2
    <2>2. i = 2 /\ s[1] = "subscribe" /\ 1 \in 1..Len(s)  BY <1>1, <2>1 DEF Begins
    <2> QED  BY <1>1, <2>2
  <1> QED  BY <1>1, <1>2 DEF Begins

\* The station works off a datagram from its start.
LEMMA RestIsLed ==
    ASSUME NEW s \in Seq(Wire), s # <<>>, Led(s)
    PROVE  Head(s) # "trackStatus" /\ (Head(s) # "subscribe" => Led(Tail(s)))
  <1>1. /\ Len(s) \in Nat \ {0} /\ DOMAIN s = 1..Len(s) /\ Head(s) = s[1]
        /\ Tail(s) \in Seq(Wire) /\ Len(Tail(s)) = Len(s) - 1
        /\ \A i \in 1..Len(s) - 1 : Tail(s)[i] = s[i + 1]
    BY HeadTailProperties, EmptySeq, LenProperties
  <1>2. DOMAIN Tail(s) = 1..Len(s) - 1  BY <1>1, LenProperties
  <1>3. Head(s) # "trackStatus"
    <2>1. 1 \in DOMAIN s /\ ~\E j \in 1..1 - 1 : s[j] = "subscribe"  BY <1>1
    <2> QED  BY <1>1, <2>1 DEF Led
  <1>4. ASSUME Head(s) # "subscribe", NEW i \in 1..Len(s) - 1, Tail(s)[i] = "trackStatus"
        PROVE  \E j \in 1..i - 1 : Tail(s)[j] = "subscribe"
    <2>1. i + 1 \in DOMAIN s /\ s[i + 1] = "trackStatus"  BY <1>1, <1>4
    <2>2. PICK j \in 1..i + 1 - 1 : s[j] = "subscribe"  BY <2>1 DEF Led
    <2>3. j # 1  BY <1>1, <1>4, <2>2
    <2>4. j - 1 \in 1..i - 1 /\ j - 1 \in 1..Len(s) - 1 /\ (j - 1) + 1 = j  BY <1>1, <1>4, <2>2, <2>3
    <2>5. Tail(s)[j - 1] = "subscribe"  BY <1>1, <2>2, <2>4
    <2> QED  BY <2>4, <2>5
  <1> QED  BY <1>2, <1>3, <1>4 DEF Led

\* Messages that are appended do not change those that wait.
LEMMA AppendMessage ==
    ASSUME NEW s \in Seq(Message), NEW m \in Message
    PROVE  /\ DOMAIN Append(s, m) = 1 .. Len(s) + 1 /\ DOMAIN s = 1 .. Len(s) /\ Len(s) \in Nat
           /\ \A i \in DOMAIN s : Append(s, m)[i] = s[i]
           /\ Append(s, m)[Len(s) + 1] = m
  BY AppendProperties, LenProperties

\* What is left of the messages without the first one.
LEMMA TailMessages ==
    ASSUME NEW s \in Seq(Message), s # <<>>
    PROVE  /\ Head(s) = s[1] /\ s[1] \in Message /\ Len(s) \in Nat \ {0}
           /\ DOMAIN s = 1 .. Len(s) /\ DOMAIN Tail(s) = 1 .. Len(s) - 1
           /\ \A i \in DOMAIN Tail(s) : i + 1 \in DOMAIN s /\ Tail(s)[i] = s[i + 1]
  <1>1. /\ Len(s) \in Nat \ {0} /\ DOMAIN s = 1 .. Len(s) /\ Head(s) = s[1]
        /\ Tail(s) \in Seq(Message) /\ Len(Tail(s)) = Len(s) - 1
    BY HeadTailProperties, EmptySeq, LenProperties
  <1>2. DOMAIN Tail(s) = 1 .. Len(s) - 1  BY <1>1, LenProperties
  <1>3. \A i \in 1 .. Len(s) - 1 : Tail(s)[i] = s[i + 1]  BY <1>1, HeadTailProperties
  <1>4. s[1] \in Message  BY <1>1, ElementOfSeq
  <1> QED  BY <1>1, <1>2, <1>3, <1>4

\* An answer of the station is one message at most.
LEMMA OneAnswer ==
    ASSUME TypeOK, NEW w \in Wire, OutcomeAssumption, KindAssumption,
           toClient' = toClient \o Answers(w)
    PROVE  \/ toClient' = toClient /\ Answers(w) = <<>>
           \/ \E m \in Message : toClient' = Append(toClient, m) /\ Answers(w) = <<m>>
  <1>1. Answers(w) = <<>> \/ \E m \in Message : Answers(w) = <<m>>
    <2>1. w \in Commands => [type |-> "broadcast", status |-> Outcome[w]] \in Message
      BY DEF Message, OutcomeAssumption
    <2>2. [type |-> "status", status |-> power] \in Message  BY DEF Message, TypeOK
    <2>3. [type |-> "flags", on |-> subscribed] \in Message  BY DEF Message, TypeOK
    <2>4. w \in InfoQueries => [type |-> "info", query |-> w] \in Message  BY DEF Message
    <2> QED  BY <2>1, <2>2, <2>3, <2>4 DEF Answers, Wire, Queries
  <1>2. toClient \in Seq(Message)  BY DEF TypeOK
  <1>3. Answers(w) = <<>> => toClient' = toClient  BY <1>2, ConcatEmptySeq
  <1>4. \A m \in Message : Answers(w) = <<m>> => toClient' = Append(toClient, m)
    BY <1>2, AppendIsConcat
  <1> QED  BY <1>1, <1>3, <1>4

LEMMA SubscribedStep ==
    ASSUME TypeOK, SubscribedInv, [Next]_vars, OutcomeAssumption, KindAssumption,
           DeviceQueriesAssumption, BoundAssumption
    PROVE  SubscribedInv'
  <1> USE DEF ConnectedIsSubscribed
  <1> DEFINE lines == <<socket, connectTimer, subscribed, sendBuffer, inbox, toCentral, toClient>>
  <1>0. /\ sendBuffer \in Seq(Wire) /\ toClient \in Seq(Message)
        /\ toCentral \in Seq(Datagram) /\ inbox \in Datagram
    BY DEF TypeOK
  <1>1. CASE Connect
    <2>1. sendBuffer' = ConnectRequests
      <3>1. ConnectRequests \in Seq(Wire)  BY ConnectRequestsType
      <3>2. sendBuffer' = <<>> \o ConnectRequests  BY <1>1 DEF Connect, BufferAfterDisconnect
      <3> QED  BY <3>1, <3>2, ConcatEmptySeq
    <2>2. DOMAIN ConnectRequests = 1..2 /\ ConnectRequests[1] = "subscribe"
          /\ ConnectRequests[2] = "trackStatus"
      BY DEF ConnectRequests
    <2>3. Begins(sendBuffer')  BY <2>1, <2>2 DEF Begins
    <2>4. DropSession /\ connectTimer'  BY <1>1 DEF Connect
    <2>5. /\ toClient' = <<>> /\ ~inbox'.live /\ \A i \in DOMAIN toCentral' : ~toCentral'[i].live
      BY <2>4, DropSessionEffect
    <2> QED  BY <2>3, <2>4, <2>5, EmptySeq DEF SubscribedInv
  <1>2. CASE DisconnectFromHost
    BY <1>2 DEF DisconnectFromHost, SubscribedInv
  <1>3. ASSUME NEW c \in Commands, Command(c) PROVE SubscribedInv'
    <2>1. c \in Wire /\ c # "trackStatus"  BY DEF Wire, KindAssumption, Queries
    <2>2. sendBuffer' = Append(sendBuffer, c)
          /\ UNCHANGED <<socket, connectTimer, subscribed, inbox, toCentral, toClient>>
      BY <1>3 DEF Command, central, network
    <2>3. Begins(sendBuffer) => Begins(sendBuffer')  BY <1>0, <2>1, <2>2, OthersFollow
    <2> QED  BY <2>2, <2>3 DEF SubscribedInv
  <1>4. ASSUME UNCHANGED lines PROVE SubscribedInv'
    BY <1>4 DEF SubscribedInv
  <1>5. CASE SendRequestsOnIdle
    <2> DEFINE n == IF Len(sendBuffer) < MaxDatagram THEN Len(sendBuffer) ELSE MaxDatagram
               d == [live |-> TRUE, requests |-> SubSeq(sendBuffer, 1, n)]
    <2>1. /\ UNCHANGED <<socket, connectTimer, subscribed, inbox, toClient>> /\ sendBuffer # <<>>
          /\ toCentral' = Append(toCentral, d)
          /\ sendBuffer' = SubSeq(sendBuffer, n + 1, Len(sendBuffer))
      BY <1>5 DEF SendRequestsOnIdle, central
    <2>2. Begins(sendBuffer) => Led(d.requests) /\ Begins(sendBuffer')
      <3>1. Len(sendBuffer) \in Nat /\ Len(sendBuffer) # 0  BY <1>0, <2>1, LenProperties, EmptySeq
      <3>2. n \in Nat /\ 1 <= n /\ n <= Len(sendBuffer) /\ (n = 1 => Len(sendBuffer) = 1)
        BY <3>1 DEF BoundAssumption
      <3> HIDE DEF n
      <3> QED  BY <1>0, <2>1, <3>2, BeginningIsSent
    <2>3. d \in Datagram
      <3>1. n \in Nat /\ n <= Len(sendBuffer)  BY <1>0, DatagramSize, LenProperties
      <3>2. SubSeq(sendBuffer, 1, n) \in Seq(Wire)  BY <1>0, <3>1, SplitBuffer
      <3> QED  BY <3>2 DEF Datagram
    <2>4. \A i \in DOMAIN toCentral' :
              \/ i \in DOMAIN toCentral /\ toCentral'[i] = toCentral[i]
              \/ toCentral'[i] = d
      <3>1. /\ DOMAIN toCentral = 1..Len(toCentral) /\ Len(toCentral) \in Nat
            /\ DOMAIN Append(toCentral, d) = 1..Len(toCentral) + 1
            /\ \A i \in 1..Len(toCentral) : Append(toCentral, d)[i] = toCentral[i]
            /\ Append(toCentral, d)[Len(toCentral) + 1] = d
        BY <1>0, <2>3, AppendProperties, LenProperties
      <3> QED  BY <2>1, <3>1
    <2> HIDE DEF n, d
    <2> QED  BY <2>1, <2>2, <2>4 DEF SubscribedInv
  <1>6. ASSUME NEW k \in Kinds, ResendStarved(k) PROVE SubscribedInv'
    <2>1. ~connectTimer /\ UNCHANGED <<socket, connectTimer, subscribed>>
      BY <1>6 DEF ResendStarved, Starved, central
    <2> QED  BY <2>1 DEF SubscribedInv
  <1>7. CASE CentralReceive
    <2>1. UNCHANGED <<socket, connectTimer, subscribed, sendBuffer, toClient>>
          /\ toCentral # <<>> /\ inbox' = Head(toCentral) /\ toCentral' = Tail(toCentral)
      BY <1>7 DEF CentralReceive, client
    <2>2. 1 \in DOMAIN toCentral /\ Head(toCentral) = toCentral[1]
      BY <1>0, <2>1, LenProperties, EmptySeq
    <2>3. \A i \in DOMAIN toCentral' : i + 1 \in DOMAIN toCentral /\ toCentral'[i] = toCentral[i + 1]
      BY <1>0, <2>1, HeadTailProperties, LenProperties
    <2> QED  BY <2>1, <2>2, <2>3 DEF SubscribedInv
  <1>8. CASE LoseRequests
    <2>1. UNCHANGED <<socket, connectTimer, subscribed, sendBuffer, toClient, inbox>>
          /\ toCentral # <<>> /\ toCentral' = Tail(toCentral)
      BY <1>8 DEF LoseRequests, client, central
    <2>2. \A i \in DOMAIN toCentral' : i + 1 \in DOMAIN toCentral /\ toCentral'[i] = toCentral[i + 1]
      BY <1>0, <2>1, HeadTailProperties, LenProperties
    <2> QED  BY <2>1, <2>2 DEF SubscribedInv
  <1>9. CASE CentralHandle
    <2> DEFINE w == Head(inbox.requests)
    <2>1. w \in Wire /\ inbox.requests \in Seq(Wire) /\ inbox.requests # <<>>
      BY <1>9, HeadTailProperties DEF CentralHandle, TypeOK, Datagram
    <2>2. /\ UNCHANGED <<socket, connectTimer, sendBuffer, toCentral>>
          /\ subscribed' = (subscribed \/ (w = "subscribe" /\ inbox.live))
          /\ toClient' = toClient \o Answers(w)
          /\ inbox'.live = inbox.live /\ inbox'.requests = Tail(inbox.requests)
      BY <1>0, <1>9 DEF CentralHandle, client, Datagram
    <2>3. CASE subscribed' \/ ~socket  BY <2>2, <2>3 DEF SubscribedInv
    <2>4. CASE ~subscribed' /\ socket
      <3>1. inbox.live => w # "trackStatus" /\ Led(inbox'.requests)
        BY <2>1, <2>2, <2>4, RestIsLed DEF SubscribedInv
      <3>2. Answers(w) = <<>> \/ \E m : Answers(w) = <<m>> /\ m.type # "status"
        <4>1. w \in Commands => w # "trackStatus"  BY DEF KindAssumption, Queries
        <4> HIDE DEF w
        <4>2. CASE w \in Commands
          <5>1. [type |-> "broadcast", status |-> Outcome[w]].type # "status"  OBVIOUS
          <5> QED  BY <4>2, <5>1 DEF Answers
        <4>3. CASE w \notin Commands /\ (~inbox.live \/ w \in {"subscribe", "canDetectors"})
          BY <4>3 DEF Answers
        <4>4. CASE w \notin Commands /\ ~(~inbox.live \/ w \in {"subscribe", "canDetectors"})
          <5>1. w # "trackStatus"  BY <3>1, <4>4
          <5>2. [type |-> "flags", on |-> subscribed].type # "status"
                /\ [type |-> "info", query |-> w].type # "status"
            OBVIOUS
          <5> QED  BY <4>4, <5>1, <5>2 DEF Answers
        <4> QED  BY <4>2, <4>3, <4>4
      <3>3. \A i \in DOMAIN toClient' : toClient'[i].type # "status"
        <4>1. CASE toClient' = toClient  BY <2>2, <2>4, <4>1 DEF SubscribedInv
        <4>2. CASE \E m \in Message : toClient' = Append(toClient, m) /\ Answers(w) = <<m>>
          <5>1. PICK m \in Message : toClient' = Append(toClient, m) /\ Answers(w) = <<m>>
            BY <4>2
          <5>2. m.type # "status"
            <6>1. Answers(w) # <<>>
              <7>1. <<m>> # <<>>  OBVIOUS
              <7> QED  BY <5>1, <7>1
            <6>2. PICK a : Answers(w) = <<a>> /\ a.type # "status"  BY <3>2, <6>1
            <6>3. a = m  BY <5>1, <6>2
            <6> QED  BY <6>2, <6>3
          <5>3. \A i \in DOMAIN toClient : toClient[i].type # "status"
            BY <2>2, <2>4 DEF SubscribedInv
          <5>4. /\ DOMAIN toClient' = 1 .. Len(toClient) + 1 /\ DOMAIN toClient = 1 .. Len(toClient)
                /\ Len(toClient) \in Nat /\ toClient'[Len(toClient) + 1] = m
                /\ \A i \in DOMAIN toClient : toClient'[i] = toClient[i]
            BY <1>0, <5>1, AppendMessage
          <5> QED  BY <5>2, <5>3, <5>4
        <4> QED  BY <2>1, <2>2, <4>1, <4>2, OneAnswer
      <3> QED  BY <2>2, <2>4, <3>1, <3>3 DEF SubscribedInv
    <2> QED  BY <2>3, <2>4
  <1>10. ASSUME NEW status \in TrackStatus, PowerChange(status) PROVE SubscribedInv'
    <2>1. /\ UNCHANGED <<socket, connectTimer, subscribed, sendBuffer, inbox, toCentral>>
          /\ ~subscribed => toClient' = toClient
      BY <1>10 DEF PowerChange, client
    <2> QED  BY <2>1 DEF SubscribedInv
  <1>11. CASE LoseMessage
    <2>1. toClient # <<>> /\ toClient' = Tail(toClient)
          /\ UNCHANGED <<socket, connectTimer, subscribed, sendBuffer, inbox, toCentral>>
      BY <1>11 DEF LoseMessage, client, central
    <2> QED  BY <1>0, <2>1, TailMessages DEF SubscribedInv
  <1>12. CASE ParseMessage
    <2> DEFINE m    == Head(toClient)
               done == "handshake" \in Resolved(m)
    <2>1. /\ toClient # <<>> /\ toClient' = Tail(toClient)
          /\ UNCHANGED <<socket, subscribed, inbox, toCentral>>
          /\ connectTimer' = (connectTimer /\ ~done)
          /\ ~done => sendBuffer' = sendBuffer \o <<>>
      BY <1>12 DEF ParseMessage, central, ConnectTimerAfter
    <2>2. done => m.type = "status"
      BY DEF Resolved, Recognises, KindAssumption, Queries
    <2>3. CASE ~socket \/ subscribed  BY <2>1, <2>3 DEF SubscribedInv
    <2>4. CASE socket /\ ~subscribed
      <3>1. ~done  BY <1>0, <2>1, <2>2, <2>4, TailMessages DEF SubscribedInv
      <3>2. sendBuffer' = sendBuffer  BY <1>0, <2>1, <3>1, ConcatEmptySeq
      <3>3. \A i \in DOMAIN toClient' : toClient'[i].type # "status"
        BY <1>0, <2>1, <2>4, TailMessages DEF SubscribedInv
      <3> QED  BY <2>1, <2>4, <3>1, <3>2, <3>3 DEF SubscribedInv
    <2> QED  BY <2>3, <2>4
  <1>13. CASE UNCHANGED vars
    BY <1>4, <1>13 DEF vars, client, central, network
  <1> QED
    BY <1>1, <1>2, <1>3, <1>5, <1>6, <1>7, <1>8, <1>9, <1>10, <1>11, <1>12, <1>13
    DEF Next, Link, Disconnect, ConnectTimeout

\* A session whose handshake was answered gets the broadcasts of the station, whatever
\* was lost, and however many sessions there were before: connectToHost() queues the
\* subscription with the query that is the handshake, and m_connectTimeout ends the
\* session before the resend timer repeats the query alone.
THEOREM ConnectedMeansSubscribed == Spec => []ConnectedIsSubscribed
  <1> USE OutcomeAssumption, KindAssumption, DeviceQueriesAssumption, BoundAssumption
  <1>1. Init => SubscribedInv
    BY DEF Init, SubscribedInv, ConnectedIsSubscribed
  <1>2. TypeOK /\ SubscribedInv /\ [Next]_vars => SubscribedInv'  BY SubscribedStep
  <1>3. SubscribedInv => ConnectedIsSubscribed  BY DEF SubscribedInv
  <1> QED  BY <1>1, <1>2, <1>3, TypeCorrect, PTL DEF Spec

-----------------------------------------------------------------------------
(* The track status.  The subscription is the first request of a session     *)
(* that reaches the station, unless a datagram is lost: the query is only    *)
(* answered, and the handshake done, once every change is broadcast.  From   *)
(* then on the last status among the messages under way is the station's.    *)

HasStatus(m) == m.type \in {"status", "broadcast"}

\* What the station handles next of this session is the subscription.
NextIsSubscribe ==
    IF inbox.live /\ inbox.requests # <<>> THEN inbox.requests[1] = "subscribe"
    ELSE \/ \E i \in DOMAIN toCentral :
               /\ toCentral[i].live /\ toCentral[i].requests # <<>>
               /\ toCentral[i].requests[1] = "subscribe"
               /\ \A j \in DOMAIN toCentral : j < i => ~toCentral[j].live
         \/ /\ \A i \in DOMAIN toCentral : ~toCentral[i].live
            /\ sendBuffer # <<>> /\ sendBuffer[1] = "subscribe"

SubscribesFirst ==
    socket /\ ~lost /\ ~subscribed => connectTimer /\ toClient = <<>> /\ NextIsSubscribe

\* Message i is the last one that tells a status, and it tells the right one.
LastStatusIs(i) ==
    /\ HasStatus(toClient[i]) /\ toClient[i].status = power
    /\ \A j \in DOMAIN toClient : HasStatus(toClient[j]) => j <= i

StatusIsTold ==
    socket /\ ~lost /\ subscribed =>
        \/ \E i \in DOMAIN toClient : LastStatusIs(i)
        \/ /\ \A i \in DOMAIN toClient : ~HasStatus(toClient[i])
           /\ trackStatus = power \/ connectTimer

StatusInv == SubscribesFirst /\ StatusIsTold

\* When the messages have been read, the last one has been.
LEMMA ToldIsShown ==
    ASSUME StatusInv
    PROVE  TrackStatusFollows
  BY EmptySeq DEF StatusInv, SubscribesFirst, StatusIsTold, TrackStatusFollows

\* The station tells another status, to everybody who listens.
LEMMA NewStatusIsTold ==
    ASSUME TypeOK, NEW m \in Message, HasStatus(m), toClient' = Append(toClient, m),
           power' = m.status
    PROVE  StatusIsTold'
  <1>1. toClient \in Seq(Message)  BY DEF TypeOK
  <1>2. /\ DOMAIN toClient' = 1 .. Len(toClient) + 1 /\ Len(toClient) \in Nat
        /\ toClient'[Len(toClient) + 1] = m
    BY <1>1, AppendMessage
  <1>3. PICK n \in Nat : n = Len(toClient) + 1  BY <1>2
  <1>4. n \in DOMAIN toClient' /\ toClient'[n] = m /\ \A j \in DOMAIN toClient' : j <= n
    BY <1>2, <1>3
  <1>5. LastStatusIs(n)'  BY <1>4 DEF LastStatusIs
  <1> QED  BY <1>4, <1>5 DEF StatusIsTold

\* Something else is told: the last status stays the last.
LEMMA OtherIsTold ==
    ASSUME TypeOK, StatusIsTold, NEW m \in Message, ~HasStatus(m),
           toClient' = Append(toClient, m),
           UNCHANGED <<socket, lost, subscribed, power, trackStatus, connectTimer>>
    PROVE  StatusIsTold'
  <1>1. toClient \in Seq(Message)  BY DEF TypeOK
  <1>2. /\ DOMAIN toClient' = 1 .. Len(toClient) + 1 /\ Len(toClient) \in Nat
        /\ DOMAIN toClient = 1 .. Len(toClient)
        /\ \A i \in DOMAIN toClient : toClient'[i] = toClient[i]
        /\ toClient'[Len(toClient) + 1] = m
    BY <1>1, AppendMessage
  <1>3. \A i \in DOMAIN toClient' : HasStatus(toClient'[i]) =>
            i \in DOMAIN toClient /\ HasStatus(toClient[i])
    BY <1>2
  <1>4. \A i \in DOMAIN toClient : LastStatusIs(i) => LastStatusIs(i)'
    BY <1>2, <1>3 DEF LastStatusIs
  <1>5. (\A i \in DOMAIN toClient : ~HasStatus(toClient[i]))
            => \A i \in DOMAIN toClient' : ~HasStatus(toClient'[i])
    BY <1>3
  <1> QED  BY <1>2, <1>4, <1>5 DEF StatusIsTold

\* One request of the inbox is handled.
LEMMA HandleStep ==
    ASSUME TypeOK, StatusInv, CentralHandle, OutcomeAssumption, KindAssumption
    PROVE  StatusInv'
  <1> DEFINE w == Head(inbox.requests)
  <1>0. toClient \in Seq(Message)  BY DEF TypeOK
  <1>1. /\ inbox.requests \in Seq(Wire) /\ inbox.requests # <<>>
        /\ inbox' = [inbox EXCEPT !.requests = Tail(inbox.requests)]
        /\ toClient' = toClient \o Answers(w)
        /\ power' = (IF w \in Commands THEN Outcome[w] ELSE power)
        /\ subscribed' = (subscribed \/ (w = "subscribe" /\ inbox.live))
        /\ UNCHANGED <<client, toCentral, lost>>
    BY DEF CentralHandle, TypeOK, Datagram
  <1>2. w = inbox.requests[1] /\ w \in Wire  BY <1>1, HeadTailProperties, EmptySeq
  <1>3. "subscribe" \notin Commands  BY DEF KindAssumption
  <1>4. inbox'.live = inbox.live  BY <1>1 DEF TypeOK, Datagram
  <1>5. \/ toClient' = toClient /\ Answers(w) = <<>>
        \/ \E m \in Message : toClient' = Append(toClient, m) /\ Answers(w) = <<m>>
    BY <1>1, <1>2, OneAnswer
  <1>6. SubscribesFirst'
    <2> SUFFICES ASSUME socket', ~lost', ~subscribed'
                 PROVE  connectTimer' /\ toClient' = <<>> /\ NextIsSubscribe'
      BY DEF SubscribesFirst
    <2>1. connectTimer /\ toClient = <<>> /\ NextIsSubscribe /\ ~subscribed
      BY <1>1 DEF StatusInv, SubscribesFirst, client
    <2>2. ~inbox.live  BY <1>1, <1>2, <2>1 DEF NextIsSubscribe
    <2>3. Answers(w) = <<>>  BY <2>1, <2>2 DEF Answers
    <2>4. toClient' = <<>>  BY <1>1, <2>1, <2>3
    <2>5. NextIsSubscribe'  BY <1>1, <1>4, <2>1, <2>2 DEF NextIsSubscribe, client
    <2> QED  BY <1>1, <2>1, <2>4, <2>5 DEF client
  <1>7. StatusIsTold'
    <2>1. CASE w \in Commands /\ (inbox.live \/ subscribed)
      <3> DEFINE m == [type |-> "broadcast", status |-> Outcome[w]]
      <3>1. Answers(w) = <<m>> /\ m \in Message
        BY <2>1 DEF Answers, Message, OutcomeAssumption
      <3>2. toClient' = Append(toClient, m)
        BY <1>1, <1>0, <3>1, AppendIsConcat
      <3>3. HasStatus(m) /\ power' = m.status  BY <1>1, <2>1 DEF HasStatus
      <3> QED  BY <3>1, <3>2, <3>3, NewStatusIsTold
    <2>2. CASE w \in Commands /\ ~(inbox.live \/ subscribed)
      BY <1>1, <2>2 DEF StatusIsTold
    <2>3. CASE w \notin Commands /\ w = "trackStatus" /\ inbox.live
      <3> DEFINE m == [type |-> "status", status |-> power]
      <3>1. Answers(w) = <<m>> /\ m \in Message  BY <2>3 DEF Answers, Message, TypeOK
      <3>2. toClient' = Append(toClient, m)
        BY <1>1, <1>0, <3>1, AppendIsConcat
      <3>3. HasStatus(m) /\ power' = m.status  BY <1>1, <2>3 DEF HasStatus
      <3> QED  BY <3>1, <3>2, <3>3, NewStatusIsTold
    <2>4. CASE w \notin Commands /\ w = "subscribe" /\ ~subscribed /\ inbox.live
      \* Before it is subscribed, the client was told nothing and still waits.
      <3>1. Answers(w) = <<>>  BY <2>4 DEF Answers
      <3>2. toClient' = toClient  BY <1>0, <1>1, <3>1, ConcatEmptySeq
      <3>3. socket /\ ~lost => connectTimer /\ toClient = <<>>
        BY <2>4 DEF StatusInv, SubscribesFirst
      <3> QED  BY <1>1, <3>2, <3>3, EmptySeq DEF StatusIsTold, client
    <2>5. CASE w \notin Commands /\ ~(w = "trackStatus" /\ inbox.live)
               /\ ~(w = "subscribe" /\ ~subscribed /\ inbox.live)
      <3>1. UNCHANGED <<socket, lost, subscribed, power, trackStatus, connectTimer>>
        BY <1>1, <2>5 DEF client, TypeOK
      <3>2. \A m \in Message : Answers(w) = <<m>> => ~HasStatus(m)
        BY <2>5 DEF Answers, HasStatus
      <3>3. CASE toClient' = toClient
        BY <3>1, <3>3 DEF StatusInv, StatusIsTold, LastStatusIs
      <3>4. CASE \E m \in Message : toClient' = Append(toClient, m) /\ Answers(w) = <<m>>
        BY <3>1, <3>2, <3>4, OtherIsTold DEF StatusInv
      <3> QED  BY <1>5, <3>3, <3>4
    <2> QED  BY <2>1, <2>2, <2>3, <2>4, <2>5
  <1> QED  BY <1>6, <1>7 DEF StatusInv

\* The buffer goes into a datagram behind the others: if it begins with the
\* subscription and is the first of the session, so does the datagram.
LEMMA SendStep ==
    ASSUME TypeOK, StatusInv, SendRequestsOnIdle, BoundAssumption
    PROVE  StatusInv'
  <1> DEFINE n == IF Len(sendBuffer) < MaxDatagram THEN Len(sendBuffer) ELSE MaxDatagram
             d == [live |-> TRUE, requests |-> SubSeq(sendBuffer, 1, n)]
  <1>1. sendBuffer \in Seq(Wire) /\ sendBuffer # <<>> /\ toCentral \in Seq(Datagram)
    BY DEF SendRequestsOnIdle, TypeOK
  <1>2. Len(sendBuffer) \in Nat \ {0}  BY <1>1, EmptySeq, LenProperties
  <1>3. n \in 1 .. Len(sendBuffer)  BY <1>2 DEF BoundAssumption
  <1>4. SubSeq(sendBuffer, 1, n) \in Seq(Wire)  BY <1>1, <1>2, <1>3, SplitBuffer
  <1>5. Len(SubSeq(sendBuffer, 1, n)) = n /\ SubSeq(sendBuffer, 1, n)[1] = sendBuffer[1]
    BY <1>1, <1>2, <1>3, SubSeqProperties
  <1>6. d \in Datagram /\ d.live /\ d.requests # <<>> /\ d.requests[1] = sendBuffer[1]
    BY <1>3, <1>4, <1>5, EmptySeq DEF Datagram
  <1>7. toCentral' = Append(toCentral, d)  BY DEF SendRequestsOnIdle
  <1>8. /\ DOMAIN toCentral' = 1 .. Len(toCentral) + 1 /\ DOMAIN toCentral = 1 .. Len(toCentral)
        /\ Len(toCentral) \in Nat
        /\ \A i \in DOMAIN toCentral : toCentral'[i] = toCentral[i]
        /\ toCentral'[Len(toCentral) + 1] = d
    BY <1>1, <1>6, <1>7, AppendProperties, LenProperties
  <1>9. UNCHANGED <<socket, lost, subscribed, connectTimer, trackStatus, power, toClient, inbox>>
    BY DEF SendRequestsOnIdle, central
  <1>10. NextIsSubscribe => NextIsSubscribe'
    <2> SUFFICES ASSUME NextIsSubscribe PROVE NextIsSubscribe'  OBVIOUS
    <2>1. CASE inbox.live /\ inbox.requests # <<>>  BY <2>1, <1>9 DEF NextIsSubscribe
    <2>2. ASSUME ~(inbox.live /\ inbox.requests # <<>>), NEW i \in DOMAIN toCentral,
                 toCentral[i].live /\ toCentral[i].requests # <<>>,
                 toCentral[i].requests[1] = "subscribe",
                 \A j \in DOMAIN toCentral : j < i => ~toCentral[j].live
          PROVE  NextIsSubscribe'
      <3>1. i \in DOMAIN toCentral' /\ \A j \in DOMAIN toCentral' : j < i => j \in DOMAIN toCentral
        BY <2>2, <1>8
      <3> QED  BY <2>2, <3>1, <1>8, <1>9 DEF NextIsSubscribe
    <2>3. ASSUME ~(inbox.live /\ inbox.requests # <<>>),
                 \A i \in DOMAIN toCentral : ~toCentral[i].live, sendBuffer[1] = "subscribe"
          PROVE  NextIsSubscribe'
      <3>1. PICK i \in Nat : i = Len(toCentral) + 1  BY <1>8
      <3>2. i \in DOMAIN toCentral' /\ toCentral'[i] = d
            /\ \A j \in DOMAIN toCentral' : j < i => j \in DOMAIN toCentral
        BY <1>8, <3>1
      <3> QED  BY <2>3, <3>2, <1>6, <1>8, <1>9 DEF NextIsSubscribe
    <2> QED  BY <2>1, <2>2, <2>3 DEF NextIsSubscribe
  <1> QED  BY <1>9, <1>10 DEF StatusInv, SubscribesFirst, StatusIsTold, LastStatusIs

\* The first datagram leaves the line, for the station or, if it is not of this
\* session, for nowhere.
LEMMA LineStep ==
    ASSUME TypeOK, StatusInv, CentralReceive \/ LoseRequests
    PROVE  StatusInv'
  <1>1. /\ toCentral \in Seq(Datagram) /\ toCentral # <<>> /\ toCentral' = Tail(toCentral)
        /\ UNCHANGED <<client, subscribed, power, toClient>>
    BY DEF CentralReceive, LoseRequests, TypeOK, central
  <1>2. Head(toCentral) = toCentral[1] /\ 1 \in DOMAIN toCentral
        /\ DOMAIN toCentral = 1 .. Len(toCentral) /\ Len(toCentral) \in Nat
    BY <1>1, LenProperties, EmptySeq
  <1>3. /\ DOMAIN toCentral' = 1 .. Len(toCentral) - 1
        /\ \A i \in DOMAIN toCentral' : i + 1 \in DOMAIN toCentral /\ toCentral'[i] = toCentral[i + 1]
    BY <1>1, <1>2, HeadTailProperties, LenProperties
  <1>4. ~toCentral[1].live => \/ \E i \in DOMAIN toCentral' :
                                      /\ toCentral'[i].live /\ toCentral'[i].requests # <<>>
                                      /\ toCentral'[i].requests[1] = "subscribe"
                                      /\ \A j \in DOMAIN toCentral' : j < i => ~toCentral'[j].live
                              \/ ~(\E i \in DOMAIN toCentral :
                                      /\ toCentral[i].live /\ toCentral[i].requests # <<>>
                                      /\ toCentral[i].requests[1] = "subscribe"
                                      /\ \A j \in DOMAIN toCentral : j < i => ~toCentral[j].live)
    <2> SUFFICES ASSUME NEW i \in DOMAIN toCentral, ~toCentral[1].live,
                        toCentral[i].live /\ toCentral[i].requests # <<>>,
                        toCentral[i].requests[1] = "subscribe",
                        \A j \in DOMAIN toCentral : j < i => ~toCentral[j].live
                 PROVE  \E k \in DOMAIN toCentral' :
                            /\ toCentral'[k].live /\ toCentral'[k].requests # <<>>
                            /\ toCentral'[k].requests[1] = "subscribe"
                            /\ \A j \in DOMAIN toCentral' : j < k => ~toCentral'[j].live
      OBVIOUS
    <2>1. i \in 2 .. Len(toCentral)  BY <1>2
    <2>2. i - 1 \in DOMAIN toCentral' /\ toCentral'[i - 1] = toCentral[i]  BY <2>1, <1>2, <1>3
    <2>3. \A j \in DOMAIN toCentral' : j < i - 1 => ~toCentral'[j].live
      BY <1>2, <1>3, <2>1
    <2> QED  BY <2>2, <2>3
  <1>5. CASE LoseRequests
    <2>1. UNCHANGED inbox /\ (lost' <=> lost \/ toCentral[1].live)
      BY <1>2, <1>5 DEF LoseRequests, central, TypeOK
    <2>2. ~lost' /\ NextIsSubscribe => NextIsSubscribe'
      BY <1>1, <1>3, <1>4, <2>1 DEF NextIsSubscribe, client
    <2> QED
      BY <1>1, <2>1, <2>2 DEF StatusInv, SubscribesFirst, StatusIsTold, LastStatusIs, client
  <1>6. CASE CentralReceive
    <2>1. inbox.requests = <<>> /\ inbox' = toCentral[1] /\ UNCHANGED lost
      BY <1>2, <1>6 DEF CentralReceive
    <2>2. CASE toCentral[1].live
      <3>1. NextIsSubscribe => inbox'.requests # <<>> /\ inbox'.requests[1] = "subscribe"
        <4>1. ASSUME NEW i \in DOMAIN toCentral, toCentral[i].requests # <<>>,
                     toCentral[i].requests[1] = "subscribe",
                     \A j \in DOMAIN toCentral : j < i => ~toCentral[j].live
              PROVE  inbox'.requests # <<>> /\ inbox'.requests[1] = "subscribe"
          <5>1. i = 1  BY <4>1, <2>2, <1>2
          <5> QED  BY <5>1, <4>1, <2>1
        <4> QED  BY <4>1, <2>1, <2>2, <1>2 DEF NextIsSubscribe
      <3>2. NextIsSubscribe => NextIsSubscribe'  BY <3>1, <2>1, <2>2 DEF NextIsSubscribe
      <3> QED
        BY <1>1, <2>1, <3>2 DEF StatusInv, SubscribesFirst, StatusIsTold, LastStatusIs, client
    <2>3. CASE ~toCentral[1].live
      <3>1. NextIsSubscribe => NextIsSubscribe'
        BY <1>1, <1>3, <1>4, <2>1, <2>3 DEF NextIsSubscribe, client
      <3> QED
        BY <1>1, <2>1, <3>1 DEF StatusInv, SubscribesFirst, StatusIsTold, LastStatusIs, client
    <2> QED  BY <2>2, <2>3
  <1> QED  BY <1>5, <1>6

\* Requests are added behind the subscription.
LEMMA QueueStep ==
    ASSUME TypeOK, StatusInv, NEW w \in Wire, sendBuffer' = Append(sendBuffer, w),
           UNCHANGED <<socket, connectTimer, trackStatus, central, network>>
    PROVE  StatusInv'
  <1>1. sendBuffer # <<>> => sendBuffer' # <<>> /\ sendBuffer'[1] = sendBuffer[1]
    <2>1. sendBuffer \in Seq(Wire)  BY DEF TypeOK
    <2>2. sendBuffer # <<>> => Len(sendBuffer) >= 1  BY <2>1, EmptySeq, LenProperties
    <2>3. Len(sendBuffer') = Len(sendBuffer) + 1 /\ sendBuffer' \in Seq(Wire)
      BY <2>1, AppendProperties
    <2> QED  BY <2>1, <2>2, <2>3, EmptySeq, AppendProperties
  <1>2. NextIsSubscribe => NextIsSubscribe'  BY <1>1 DEF NextIsSubscribe, central, network
  <1> QED
    BY <1>2 DEF StatusInv, SubscribesFirst, StatusIsTold, LastStatusIs, central, network

\* The first message is read: if it was the last to tell a status, the client
\* shows that now.  The handshake is done by such a message only.
LEMMA ParseStep ==
    ASSUME TypeOK, StatusInv, ParseMessage, KindAssumption
    PROVE  StatusInv'
  <1> DEFINE m    == Head(toClient)
             done == "handshake" \in Resolved(m)
  <1>1. /\ toClient \in Seq(Message) /\ toClient # <<>> /\ toClient' = Tail(toClient)
        /\ UNCHANGED <<socket, central, toCentral, lost>>
        /\ trackStatus' = (IF HasStatus(m) THEN m.status ELSE trackStatus)
        /\ connectTimer' = (connectTimer /\ ~done)
    BY DEF ParseMessage, TypeOK, ConnectTimerAfter, HasStatus
  <1>2. /\ m = toClient[1] /\ m \in Message /\ Len(toClient) \in Nat \ {0}
        /\ DOMAIN toClient = 1 .. Len(toClient) /\ DOMAIN toClient' = 1 .. Len(toClient) - 1
        /\ \A i \in DOMAIN toClient' : i + 1 \in DOMAIN toClient /\ toClient'[i] = toClient[i + 1]
    BY <1>1, TailMessages
  <1>3. done => HasStatus(m)
    BY DEF Resolved, Recognises, HasStatus, KindAssumption
  <1>4. SubscribesFirst'
    BY <1>1 DEF StatusInv, SubscribesFirst, central
  <1>5. ASSUME socket, ~lost, subscribed PROVE StatusIsTold'
    <2>1. ASSUME NEW i \in DOMAIN toClient, LastStatusIs(i), i # 1 PROVE StatusIsTold'
      <3>1. PICK k \in DOMAIN toClient' : k = i - 1  BY <1>2, <2>1
      <3>2. toClient'[k] = toClient[i] /\ power' = power
        BY <1>1, <1>2, <2>1, <3>1 DEF central
      <3>3. \A j \in DOMAIN toClient' : HasStatus(toClient'[j]) => j <= k
        BY <1>2, <2>1, <3>1 DEF LastStatusIs
      <3>4. LastStatusIs(k)'  BY <2>1, <3>2, <3>3 DEF LastStatusIs
      <3> QED  BY <3>1, <3>4 DEF StatusIsTold
    <2>2. ASSUME LastStatusIs(1) PROVE StatusIsTold'
      <3>1. \A j \in DOMAIN toClient' : ~HasStatus(toClient'[j])
        BY <1>2, <2>2 DEF LastStatusIs
      <3>2. trackStatus' = power'  BY <1>1, <1>2, <2>2 DEF LastStatusIs, central
      <3> QED  BY <3>1, <3>2 DEF StatusIsTold
    <2>3. ASSUME \A i \in DOMAIN toClient : ~HasStatus(toClient[i]),
                 trackStatus = power \/ connectTimer
          PROVE  StatusIsTold'
      <3>1. ~HasStatus(m) /\ ~done  BY <1>2, <1>3, <2>3
      <3>2. \A j \in DOMAIN toClient' : ~HasStatus(toClient'[j])  BY <1>2, <2>3
      <3> QED  BY <1>1, <2>3, <3>1, <3>2 DEF StatusIsTold, central
    <2> QED  BY <1>5, <2>1, <2>2, <2>3 DEF StatusInv, StatusIsTold
  <1>6. StatusIsTold'
    <2>1. ~(socket /\ ~lost /\ subscribed) => StatusIsTold'
      BY <1>1 DEF StatusIsTold, central
    <2> QED  BY <1>5, <2>1
  <1> QED  BY <1>4, <1>6 DEF StatusInv

LEMMA StatusStep ==
    ASSUME TypeOK, StatusInv, [Next]_vars, OutcomeAssumption, KindAssumption,
           BoundAssumption
    PROVE  StatusInv'
  <1>1. CASE Connect
    <2>1. /\ DOMAIN toCentral' = DOMAIN toCentral /\ toClient' = <<>> /\ ~subscribed'
          /\ \A i \in DOMAIN toCentral' : ~toCentral'[i].live
          /\ ~inbox'.live
      BY <1>1, DropSessionEffect DEF Connect
    <2>2. sendBuffer' = <<"subscribe", "trackStatus">>
      BY <1>1, ConnectRequestsType, ConcatEmptySeq DEF Connect, BufferAfterDisconnect, ConnectRequests
    <2>3. sendBuffer' # <<>> /\ sendBuffer'[1] = "subscribe"  BY <2>2
    <2>4. NextIsSubscribe'  BY <2>1, <2>3 DEF NextIsSubscribe
    <2> QED  BY <1>1, <2>1, <2>4 DEF Connect, StatusInv, SubscribesFirst, StatusIsTold
  <1>2. CASE DisconnectFromHost
    BY <1>2 DEF DisconnectFromHost, StatusInv, SubscribesFirst, StatusIsTold
  <1>3. ASSUME NEW c \in Commands, Command(c) PROVE StatusInv'
    <2>1. c \in Wire  BY DEF Wire
    <2> QED  BY <1>3, <2>1, QueueStep DEF Command
  <1>4. ASSUME NEW k \in Kinds, ResendStarved(k) PROVE StatusInv'
    BY <1>4, DataIsWire, QueueStep DEF ResendStarved, Resent
  <1>5. ASSUME NEW status \in TrackStatus, PowerChange(status) PROVE StatusInv'
    <2> DEFINE m == [type |-> "broadcast", status |-> status]
    <2>1. m \in Message /\ HasStatus(m)  BY DEF Message, HasStatus
    <2>2. UNCHANGED <<client, inbox, subscribed, toCentral, lost>> /\ power' = status
      BY <1>5 DEF PowerChange
    <2>3. CASE subscribed
      <3>1. toClient' = Append(toClient, m)  BY <1>5, <2>3 DEF PowerChange
      <3>2. StatusIsTold'  BY <2>1, <2>2, <3>1, NewStatusIsTold
      <3> QED  BY <2>2, <2>3, <3>2 DEF StatusInv, SubscribesFirst
    <2>4. CASE ~subscribed
      <3>1. toClient' = toClient  BY <1>5, <2>4 DEF PowerChange
      <3>2. NextIsSubscribe => NextIsSubscribe'  BY <2>2 DEF NextIsSubscribe, client
      <3> QED
        BY <2>2, <2>4, <3>1, <3>2 DEF StatusInv, SubscribesFirst, StatusIsTold, client
    <2> QED  BY <2>3, <2>4 DEF TypeOK
  <1>6. CASE LoseMessage
    BY <1>6 DEF LoseMessage, StatusInv, SubscribesFirst, StatusIsTold
  <1>7. CASE UNCHANGED vars
    <2>1. UNCHANGED <<socket, connectTimer, trackStatus, sendBuffer, central, network>>
      BY <1>7 DEF vars, client
    <2> QED
      BY <2>1 DEF StatusInv, SubscribesFirst, NextIsSubscribe, StatusIsTold, LastStatusIs,
                  central, network
  <1> QED
    BY <1>1, <1>2, <1>3, <1>4, <1>5, <1>6, <1>7, SendStep, LineStep, HandleStep, ParseStep
    DEF Next, Link, Disconnect, ConnectTimeout

\* Once the handshake is done, and unless something was lost, the client shows
\* the status of the station as soon as it has read what was sent: the order of
\* subscription and query in connectToHost() leaves no gap for a change.
THEOREM TrackStatusIsRight == Spec => []TrackStatusFollows
  <1> USE OutcomeAssumption, KindAssumption, BoundAssumption
  <1>1. Init => StatusInv  BY DEF Init, StatusInv, SubscribesFirst, StatusIsTold
  <1>2. TypeOK /\ StatusInv /\ [Next]_vars => StatusInv'  BY StatusStep
  <1>3. StatusInv => TrackStatusFollows  BY ToldIsShown
  <1> QED  BY <1>1, <1>2, <1>3, TypeCorrect, PTL DEF Spec
=============================================================================
