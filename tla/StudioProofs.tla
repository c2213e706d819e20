---------------------------- MODULE StudioProofs ----------------------------
(* Theorems about the parts of lmrstudio, and about all of them in Studio.   *)
EXTENDS Studio, SequenceTheorems, FiniteSetTheorems, WellFoundedInduction,
        FunctionTheorems, TLAPS

-----------------------------------------------------------------------------
(* Lemmas about sequences.                                                   *)

\* What is appended comes last.
LEMMA AppendLast ==
    ASSUME NEW S, NEW s \in Seq(S), NEW x \in S
    PROVE  /\ Append(s, x) # <<>> /\ Append(s, x)[Len(Append(s, x))] = x
           /\ Range(Append(s, x)) = Range(s) \union {x}
  <1>1. Len(Append(s, x)) = Len(s) + 1 /\ Append(s, x)[Len(s) + 1] = x
        /\ \A i \in 1 .. Len(s) : Append(s, x)[i] = s[i]
    BY AppendProperties
  <1>2. DOMAIN s = 1 .. Len(s) /\ Len(s) \in Nat  BY LenProperties
  <1>3. DOMAIN Append(s, x) = 1 .. Len(s) + 1  BY <1>1, AppendProperties, LenProperties
  <1>4. Range(Append(s, x)) \subseteq Range(s) \union {x}  BY <1>1, <1>2, <1>3 DEF Range
  <1>5. Range(s) \subseteq Range(Append(s, x))  BY <1>1, <1>2, <1>3 DEF Range
  <1>6. x \in Range(Append(s, x))  BY <1>1, <1>2, <1>3 DEF Range
  <1> QED  BY <1>1, <1>2, <1>4, <1>5, <1>6, EmptySeq

\* Without its head, a sequence keeps its other elements and its last one.
LEMMA TailKeeps ==
    ASSUME NEW S, NEW s \in Seq(S), s # <<>>
    PROVE  /\ Range(s) = Range(Tail(s)) \union {Head(s)}
           /\ Tail(s) = <<>> => s[Len(s)] = Head(s)
           /\ Tail(s) # <<>> => s[Len(s)] = Tail(s)[Len(Tail(s))]
  <1>1. /\ Len(s) \in Nat \ {0} /\ DOMAIN s = 1 .. Len(s)
        /\ Tail(s) \in Seq(S) /\ Len(Tail(s)) = Len(s) - 1
        /\ DOMAIN Tail(s) = 1 .. Len(s) - 1
    BY HeadTailProperties, EmptySeq, LenProperties
  <1>2. \A i \in 1 .. Len(s) - 1 : Tail(s)[i] = s[i + 1]  BY <1>1, HeadTailProperties
  <1>3. Head(s) = s[1]  BY HeadTailProperties
  <1>4. Range(s) \subseteq Range(Tail(s)) \union {Head(s)}
    <2> SUFFICES ASSUME NEW i \in 1 .. Len(s)
                 PROVE  s[i] \in Range(Tail(s)) \union {Head(s)}
      BY <1>1 DEF Range
    <2>1. CASE i = 1  BY <2>1, <1>3
    <2>2. CASE i # 1
      <3>1. i - 1 \in 1 .. Len(s) - 1  BY <1>1, <2>2
      <3>2. Tail(s)[i - 1] = s[i]  BY <1>2, <3>1
      <3> QED  BY <1>1, <3>1, <3>2 DEF Range
    <2> QED  BY <2>1, <2>2
  <1>5. Range(Tail(s)) \union {Head(s)} \subseteq Range(s)  BY <1>1, <1>2, <1>3 DEF Range
  <1>6. ASSUME Tail(s) = <<>> PROVE Len(s) = 1
    <2>1. Len(Tail(s)) = 0  BY <1>1, <1>6, EmptySeq
    <2> QED  BY <2>1, <1>1
  <1>7. Tail(s) # <<>> => Len(s) - 1 >= 1  BY <1>1, EmptySeq
  <1> QED  BY <1>1, <1>2, <1>3, <1>4, <1>5, <1>6, <1>7

-----------------------------------------------------------------------------
(* Track power: type correctness.                                            *)

\* A command is for the slider or one of the actions.
LEMMA CommandsType ==
    ASSUME NEW a \in Apps, NEW s \in Status
    PROVE  Commands(a, s) \in Seq(Switch)
  <1>1. SliderFor(s) \in Switch  BY DEF SliderFor, Switch
  <1>2. FromSlider(a, SliderFor(s)) \in Seq(Switch)  BY <1>1, EmptySeq DEF FromSlider
  <1>3. FromAction(a, s) \in Seq(Switch)  BY EmptySeq DEF FromAction
  <1> QED  BY <1>2, <1>3, EmptySeq, ConcatProperties DEF Commands

\* What the apps are told are statuses.
LEMMA BroadcastType ==
    ASSUME toApp \in [Apps -> Seq(Status)], NEW s \in Status
    PROVE  Broadcast(s) \in [Apps -> Seq(Status)]
  BY AppendProperties DEF Broadcast

LEMMA TypeStep ==
    ASSUME TypeOK, [Next]_vars, PowerAssumption
    PROVE  TypeOK'
  <1>1. Switch \subseteq Status /\ SliderFor("On") \in Switch /\ SliderFor("Off") \in Switch
    BY DEF Status, SliderFor, Switch
  <1>2. ASSUME NEW a \in Apps, Connect(a) PROVE TypeOK'
    BY <1>2, AppendProperties DEF Connect, TypeOK, PowerAssumption
  <1>3. ASSUME NEW a \in Apps, MoveSlider(a) PROVE TypeOK'
    BY <1>3, AppendProperties DEF MoveSlider, Act, TypeOK, PowerAssumption
  <1>4. ASSUME NEW a \in Apps, TriggerAction(a) PROVE TypeOK'
    <2>1. action' \in [Apps -> Status]
      BY <1>1, <1>4 DEF TriggerAction, TypeOK
    <2>2. toStation' \in [Apps -> Seq(Switch)]
      BY <1>4, AppendProperties DEF TriggerAction, TypeOK
    <2> QED  BY <1>4, <2>1, <2>2 DEF TriggerAction, Act, TypeOK, PowerAssumption
  <1>5. CASE Handset
    <2>1. PICK s \in Status : power' = s /\ toApp' = Broadcast(s)  BY <1>5 DEF Handset
    <2> QED  BY <1>5, <2>1, BroadcastType DEF Handset, Act, TypeOK, PowerAssumption
  <1>6. ASSUME NEW a \in Apps, Execute(a) PROVE TypeOK'
    <2>1. Head(toStation[a]) \in Switch /\ Tail(toStation[a]) \in Seq(Switch)
      BY <1>6, HeadTailProperties DEF Execute, TypeOK
    <2>2. toApp' \in [Apps -> Seq(Status)]
      BY <1>1, <1>6, <2>1, BroadcastType DEF Execute, TypeOK
    <2> QED  BY <1>1, <1>6, <2>1, <2>2 DEF Execute, TypeOK
  <1>7. ASSUME NEW a \in Apps, Receive(a) PROVE TypeOK'
    <2>1. Head(toApp[a]) \in Status /\ Tail(toApp[a]) \in Seq(Status)
      BY <1>7, HeadTailProperties DEF Receive, TypeOK
    <2>2. SliderAfter(a, Head(toApp[a])) \in Switch
      BY DEF SliderAfter, SliderFor, Switch, TypeOK
    <2>3. toStation[a] \o Commands(a, Head(toApp[a])) \in Seq(Switch)
      BY <2>1, CommandsType, ConcatProperties DEF TypeOK
    <2> QED  BY <1>7, <2>1, <2>2, <2>3 DEF Receive, TypeOK
  <1>8. CASE UNCHANGED vars
    BY <1>8 DEF vars, TypeOK
  <1> QED  BY <1>2, <1>3, <1>4, <1>5, <1>6, <1>7, <1>8 DEF Next

\* Commands and messages under way, and what the controls show, are what the
\* other proofs take them for.
THEOREM PowerTypes == Spec => []TypeOK
  <1> USE PowerAssumption
  <1>1. Init => TypeOK  BY EmptySeq DEF Init, TypeOK, Switch, Status, PowerAssumption
  <1>2. TypeOK /\ [Next]_vars => TypeOK'  BY TypeStep
  <1> QED  BY <1>1, <1>2, PTL DEF Spec

-----------------------------------------------------------------------------
(* The controls agree in the end.  Two things are inductive: the last        *)
(* message to an app tells it what the station does, and a control that does *)
(* not show the status of its app shows what a command or a message under    *)
(* way will make of it.                                                      *)

\* What app a will take for the status once it has read everything.
LastTold(a) == IF toApp[a] = <<>> THEN status[a] ELSE toApp[a][Len(toApp[a])]

\* Value v is on its way to the station or from it.
UnderWay(a, v) == v \in Range(toStation[a]) \union Range(toApp[a])

ToldInv == \A a \in connected : LastTold(a) = power

IdleInv == \A a \in Apps \ connected : toStation[a] = <<>> /\ toApp[a] = <<>>

ControlInv ==
    \A a \in Apps : /\ slider[a] # SliderFor(status[a]) => UnderWay(a, slider[a])
                    /\ action[a] # status[a] => UnderWay(a, action[a])

\* Nothing is under way while the queues are empty.
LEMMA QuietIsAgreed ==
    ASSUME TypeOK, ToldInv, ControlInv
    PROVE  ControlsAgree
  <1> SUFFICES ASSUME Quiet, NEW a \in connected
               PROVE  status[a] = power /\ slider[a] = SliderFor(power) /\ action[a] = power
    BY DEF ControlsAgree
  <1>1. a \in Apps /\ toStation[a] = <<>> /\ toApp[a] = <<>>  BY DEF Quiet, TypeOK
  <1>2. status[a] = power  BY <1>1 DEF ToldInv, LastTold
  <1>3. \A v : ~UnderWay(a, v)  BY <1>1, EmptySeq DEF UnderWay, Range
  <1> QED  BY <1>1, <1>2, <1>3 DEF ControlInv

\* After a broadcast of s that becomes the power, everybody has been told, and
\* nothing that was under way to an app is gone.
LEMMA BroadcastTells ==
    ASSUME TypeOK, NEW s \in Status, toApp' = Broadcast(s), power' = s,
           connected' = connected, status' = status
    PROVE  /\ ToldInv'
           /\ \A a \in Apps : Range(toApp[a]) \subseteq Range(toApp'[a])
           /\ \A a \in connected : s \in Range(toApp'[a])
           /\ IdleInv => \A a \in Apps \ connected : toApp'[a] = <<>>
  <1>1. \A a \in connected : a \in Apps /\ toApp[a] \in Seq(Status)
          /\ toApp'[a] = Append(toApp[a], s)
    BY DEF TypeOK, Broadcast
  <1>2. \A a \in Apps \ connected : toApp'[a] = toApp[a]  BY DEF Broadcast
  <1>3. \A a \in connected : toApp'[a] # <<>> /\ toApp'[a][Len(toApp'[a])] = s
                             /\ Range(toApp'[a]) = Range(toApp[a]) \union {s}
    <2> TAKE a \in connected
    <2>1. toApp[a] \in Seq(Status) /\ toApp'[a] = Append(toApp[a], s)  BY <1>1
    <2> QED  BY <2>1, AppendLast
  <1> QED  BY <1>2, <1>3 DEF ToldInv, LastTold, TypeOK, IdleInv

LEMMA ControlStep ==
    ASSUME TypeOK, TypeOK', ToldInv, IdleInv, ControlInv, [Next]_vars, PowerAssumption
    PROVE  ToldInv' /\ IdleInv' /\ ControlInv'
  <1> USE DEF Switch, Status
  <1>1. ASSUME NEW a \in Apps, Connect(a) PROVE ToldInv' /\ IdleInv' /\ ControlInv'
    <2>1. toApp[a] \in Seq(Status) /\ power \in Status /\ toApp'[a] = Append(toApp[a], power)
          /\ \A b \in Apps \ {a} : toApp'[b] = toApp[b]
      BY <1>1 DEF Connect, TypeOK
    <2>2. toApp'[a] # <<>> /\ toApp'[a][Len(toApp'[a])] = power
          /\ Range(toApp[a]) \subseteq Range(toApp'[a])
      BY <2>1, AppendLast
    <2>3. ToldInv'  BY <1>1, <2>1, <2>2 DEF Connect, ToldInv, LastTold, TypeOK
    <2>4. ControlInv'  BY <1>1, <2>1, <2>2 DEF Connect, ControlInv, UnderWay
    <2> QED  BY <1>1, <2>3, <2>4 DEF Connect, IdleInv
  <1>2. ASSUME NEW a \in Apps, MoveSlider(a) PROVE ToldInv' /\ IdleInv' /\ ControlInv'
    <2>1. PICK v \in Switch : /\ slider' = [slider EXCEPT ![a] = v]
                              /\ toStation' = [toStation EXCEPT ![a] = Append(@, v)]
      BY <1>2 DEF MoveSlider
    <2>2. toStation[a] \in Seq(Switch) /\ toStation'[a] = Append(toStation[a], v)
          /\ slider'[a] = v
          /\ \A b \in Apps \ {a} : toStation'[b] = toStation[b] /\ slider'[b] = slider[b]
      BY <2>1 DEF TypeOK
    <2>3. Range(toStation'[a]) = Range(toStation[a]) \union {v}  BY <2>2, AppendLast
    <2>4. ControlInv'  BY <1>2, <2>2, <2>3 DEF MoveSlider, ControlInv, UnderWay
    <2> QED  BY <1>2, <2>2, <2>4 DEF MoveSlider, ToldInv, LastTold, IdleInv
  <1>3. ASSUME NEW a \in Apps, TriggerAction(a) PROVE ToldInv' /\ IdleInv' /\ ControlInv'
    <2>1. PICK s \in Switch : /\ action' = [action EXCEPT ![a] = s]
                              /\ toStation' = [toStation EXCEPT ![a] = Append(@, s)]
      BY <1>3 DEF TriggerAction
    <2>2. toStation[a] \in Seq(Switch) /\ toStation'[a] = Append(toStation[a], s)
          /\ action'[a] = s
          /\ \A b \in Apps \ {a} : toStation'[b] = toStation[b] /\ action'[b] = action[b]
      BY <2>1 DEF TypeOK
    <2>3. Range(toStation'[a]) = Range(toStation[a]) \union {s}  BY <2>2, AppendLast
    <2>4. ControlInv'  BY <1>3, <2>2, <2>3 DEF TriggerAction, ControlInv, UnderWay
    <2> QED  BY <1>3, <2>2, <2>4 DEF TriggerAction, ToldInv, LastTold, IdleInv
  <1>4. CASE Handset
    <2>1. PICK s \in Status : power' = s /\ toApp' = Broadcast(s)  BY <1>4 DEF Handset
    <2>2. UNCHANGED <<connected, status, slider, action, toStation>>  BY <1>4 DEF Handset
    <2>3. /\ ToldInv' /\ \A a \in Apps : Range(toApp[a]) \subseteq Range(toApp'[a])
          /\ \A a \in Apps \ connected : toApp'[a] = <<>>
      BY <2>1, <2>2, BroadcastTells
    <2> QED  BY <2>2, <2>3 DEF IdleInv, ControlInv, UnderWay
  <1>5. ASSUME NEW a \in Apps, Execute(a) PROVE ToldInv' /\ IdleInv' /\ ControlInv'
    <2> DEFINE s == Head(toStation[a])
    <2>1. toStation[a] \in Seq(Switch) /\ toStation[a] # <<>> /\ s \in Status
      BY <1>5, HeadTailProperties DEF Execute, TypeOK
    <2>2. a \in connected  BY <2>1 DEF IdleInv
    <2>3. UNCHANGED <<connected, status, slider, action>> /\ power' = s /\ toApp' = Broadcast(s)
      BY <1>5 DEF Execute
    <2>4. /\ ToldInv' /\ s \in Range(toApp'[a])
          /\ \A b \in Apps : Range(toApp[b]) \subseteq Range(toApp'[b])
          /\ \A b \in Apps \ connected : toApp'[b] = <<>>
      BY <2>1, <2>2, <2>3, BroadcastTells
    <2>5. Range(toStation[a]) = Range(toStation'[a]) \union {s}
      BY <1>5, <2>1, TailKeeps DEF Execute, TypeOK
    <2>6. \A b \in Apps \ {a} : toStation'[b] = toStation[b]  BY <1>5 DEF Execute
    <2>7. \A b \in Apps : \A v : UnderWay(b, v) => UnderWay(b, v)'
      BY <2>4, <2>5, <2>6 DEF UnderWay
    <2>8. ControlInv'  BY <2>3, <2>7 DEF ControlInv
    <2> QED  BY <2>2, <2>3, <2>4, <2>6, <2>8 DEF IdleInv
  <1>6. ASSUME NEW a \in Apps, Receive(a) PROVE ToldInv' /\ IdleInv' /\ ControlInv'
    <2> DEFINE s == Head(toApp[a])
    <2>1. toApp[a] \in Seq(Status) /\ toApp[a] # <<>> /\ s \in Status
          /\ toStation[a] \in Seq(Switch) /\ Commands(a, s) \in Seq(Switch)
      BY <1>6, HeadTailProperties, CommandsType DEF Receive, TypeOK
    <2>2. /\ UNCHANGED <<connected, power>>
          /\ toApp'[a] = Tail(toApp[a]) /\ status'[a] = s /\ slider'[a] = SliderAfter(a, s)
          /\ action'[a] = (IF Changes(a, s) THEN s ELSE action[a])
          /\ toStation'[a] = toStation[a] \o Commands(a, s)
          /\ \A b \in Apps \ {a} : /\ toApp'[b] = toApp[b] /\ status'[b] = status[b]
                                   /\ slider'[b] = slider[b] /\ action'[b] = action[b]
                                   /\ toStation'[b] = toStation[b]
      BY <1>6 DEF Receive, TypeOK
    <2>3. a \in connected  BY <2>1 DEF IdleInv
    <2>4. LastTold(a)' = LastTold(a)  BY <2>1, <2>2, TailKeeps DEF LastTold
    <2>5. ToldInv' /\ IdleInv'
      <3>1. \A b \in connected \ {a} : b \in Apps /\ LastTold(b)' = LastTold(b)
        BY <2>2 DEF LastTold, TypeOK
      <3>2. ToldInv'  BY <2>2, <2>4, <3>1 DEF ToldInv
      <3>3. IdleInv'  BY <2>2, <2>3 DEF IdleInv
      <3> QED  BY <3>2, <3>3
    <2>6. CASE Changes(a, s)
      \* Both controls take over the new status.
      <3>1. slider'[a] = SliderFor(status'[a]) /\ action'[a] = status'[a]
        BY <2>2, <2>6 DEF SliderAfter
      <3> QED  BY <2>2, <2>5, <3>1 DEF ControlInv, UnderWay
    <2>7. CASE ~Changes(a, s)
      \* The message repeats the status: it is not what a control waits for.
      <3>1. s = status[a] /\ slider'[a] = slider[a] /\ action'[a] = action[a]
            /\ Commands(a, s) = <<>>
        BY <2>2, <2>7 DEF SliderAfter, Changes, Commands
      <3>2. toStation'[a] = toStation[a]  BY <2>1, <2>2, <3>1, ConcatEmptySeq
      <3>3. Range(toApp[a]) = Range(toApp'[a]) \union {s}  BY <2>1, <2>2, TailKeeps
      <3>4. slider[a] # SliderFor(s) => slider[a] # s
        BY DEF SliderFor, TypeOK
      <3>5. ControlInv'
        BY <2>2, <3>1, <3>2, <3>3, <3>4 DEF ControlInv, UnderWay
      <3> QED  BY <2>5, <3>5
    <2> QED  BY <2>6, <2>7
  <1>7. CASE UNCHANGED vars
    BY <1>7 DEF vars, ToldInv, LastTold, IdleInv, ControlInv, UnderWay
  <1> QED  BY <1>1, <1>2, <1>3, <1>4, <1>5, <1>6, <1>7 DEF Next

\* Two controls for the power of one station, each of which answers the other,
\* agree with each other and with the station whenever nothing is under way:
\* the slots of deviceconnectionview.cpp and mainwindow.cpp, for any number of
\* apps and whatever people do at the same time.
THEOREM ControlsDoNotDriftApart == Spec => []ControlsAgree
  <1> USE PowerAssumption
  <1>1. Init => ToldInv /\ IdleInv /\ ControlInv
    BY DEF Init, ToldInv, IdleInv, ControlInv, SliderFor
  <1>2. TypeOK /\ TypeOK' /\ ToldInv /\ IdleInv /\ ControlInv /\ [Next]_vars
            => ToldInv' /\ IdleInv' /\ ControlInv'
    BY ControlStep
  <1>3. TypeOK /\ ToldInv /\ ControlInv => ControlsAgree  BY QuietIsAgreed
  <1> QED  BY <1>1, <1>2, <1>3, PowerTypes, PTL DEF Spec

-----------------------------------------------------------------------------
(* Sharing of files.  A transfer that is accepted lacks something, so that   *)
(* the loop over the chunks takes no less than nothing; this needs that an   *)
(* offer is accepted once, before anything came.                             *)

Questions == [about : {"Offer", "Finished"}, peer : Peers]

IsOffer(i) == i \in DOMAIN questions /\ questions[i].about = "Offer"

OfferInv ==
    /\ \A i \in DOMAIN questions : IsOffer(i) => session[questions[i].peer] = "Started"
    /\ \A i, j \in DOMAIN questions :
           IsOffer(i) /\ IsOffer(j) /\ questions[i].peer = questions[j].peer => i = j

ReceivedInv ==
    \A p \in Peers :
        /\ received[p] <= sent[p]
        /\ session[p] = "Accepted" => received[p] < FileSize
        /\ session[p] \in {"Connected", "Started"} => received[p] = 0
        /\ socket[p] = "None" => received[p] = 0 /\ session[p] = "None"

TransferInv == Sharing!TypeOK /\ OfferInv /\ ReceivedInv /\ Sharing!NeverPartial

-----------------------------------------------------------------------------
(* Sharing of files: lemmas.                                                 *)

\* The loop that reads chunks takes what is there, or less.
LEMMA TakenIsThere ==
    ASSUME Sharing!SharingAssumption, NEW total \in Nat, NEW n \in Nat, total < FileSize
    PROVE  Sharing!Taken(total, n) \in 0 .. n
  <1> DEFINE chunks == (FileSize - total + ChunkSize - 1) \div ChunkSize
  <1>1. FileSize \in Nat /\ ChunkSize \in Nat /\ ChunkSize > 0  BY DEF Sharing!SharingAssumption
  <1>2. chunks \in Int /\ chunks >= 0  BY <1>1
  <1>3. chunks * ChunkSize \in Int /\ chunks * ChunkSize >= 0  BY <1>1, <1>2
  <1> QED  BY <1>1, <1>3 DEF Sharing!Taken

\* Every open question is about a peer.
LEMMA QuestionsType ==
    ASSUME Sharing!TypeOK
    PROVE  \A i \in DOMAIN questions : questions[i] \in Questions /\ questions[i].peer \in Peers
  <1>1. questions \in Seq(Questions)  BY DEF Sharing!TypeOK, Questions
  <1>2. DOMAIN questions = 1 .. Len(questions)  BY <1>1, LenProperties
  <1>3. \A i \in DOMAIN questions : questions[i] \in Questions  BY <1>1, <1>2, ElementOfSeq
  <1> QED  BY <1>3 DEF Questions

\* A question is asked in front of those that are open.
LEMMA AskInFront ==
    ASSUME Sharing!TypeOK, NEW about \in {"Offer", "Finished"}, NEW p \in Peers,
           Sharing!Ask(about, p)
    PROVE  /\ questions' \in Seq(Questions)
           /\ DOMAIN questions' = 1 .. Len(questions) + 1
           /\ questions'[1] = Sharing!Question(about, p)
           /\ \A i \in 2 .. Len(questions) + 1 : i - 1 \in DOMAIN questions
                                                 /\ questions'[i] = questions[i - 1]
  <1> DEFINE q == <<Sharing!Question(about, p)>>
  <1>1. q \in Seq(Questions) /\ Len(q) = 1 /\ q[1] = Sharing!Question(about, p)
    BY DEF Sharing!Question, Questions
  <1>2. questions \in Seq(Questions) /\ Len(questions) \in Nat
        /\ DOMAIN questions = 1 .. Len(questions)
    BY LenProperties DEF Sharing!TypeOK, Questions
  <1>3. /\ questions' = q \o questions /\ questions' \in Seq(Questions)
        /\ Len(questions') = 1 + Len(questions)
        /\ \A i \in 1 .. 1 + Len(questions) :
               questions'[i] = IF i <= 1 THEN q[i] ELSE questions[i - 1]
    BY <1>1, <1>2, ConcatProperties DEF Sharing!Ask
  <1>4. DOMAIN questions' = 1 .. Len(questions) + 1  BY <1>2, <1>3, LenProperties
  <1> QED  BY <1>1, <1>2, <1>3, <1>4

\* Answering the question in front moves the others up.
LEMMA AnswerInFront ==
    ASSUME Sharing!TypeOK, questions # <<>>, questions' = Tail(questions)
    PROVE  /\ questions' \in Seq(Questions) /\ Head(questions) = questions[1]
           /\ 1 \in DOMAIN questions /\ questions[1] \in Questions
           /\ \A i \in DOMAIN questions' : i + 1 \in DOMAIN questions /\ i + 1 # 1
                                           /\ questions'[i] = questions[i + 1]
  <1>1. questions \in Seq(Questions)  BY DEF Sharing!TypeOK, Questions
  <1>2. /\ Len(questions) \in Nat \ {0} /\ DOMAIN questions = 1 .. Len(questions)
        /\ questions' \in Seq(Questions) /\ Head(questions) = questions[1]
        /\ DOMAIN questions' = 1 .. Len(questions) - 1
    BY <1>1, HeadTailProperties, EmptySeq, LenProperties
  <1>3. \A i \in 1 .. Len(questions) - 1 : questions'[i] = questions[i + 1]
    BY <1>1, <1>2, HeadTailProperties
  <1>4. questions[1] \in Questions  BY <1>1, <1>2, ElementOfSeq
  <1> QED  BY <1>2, <1>3, <1>4

\* Offers stay what they are while neither questions nor what was started change.
LEMMA OffersKept ==
    ASSUME OfferInv, UNCHANGED questions,
           \A p \in Peers : session[p] = "Started" => session'[p] = "Started",
           Sharing!TypeOK
    PROVE  OfferInv'
  <1>1. \A i \in DOMAIN questions : questions[i].peer \in Peers
    BY QuestionsType
  <1> QED  BY <1>1 DEF OfferInv, IsOffer

\* The end of a transfer is told, and that is no offer.
LEMMA OffersBehindEnd ==
    ASSUME Sharing!TypeOK, OfferInv, NEW p \in Peers, Sharing!Ask("Finished", p),
           session[p] = "Accepted",
           session' = [session EXCEPT ![p] = "Finished"]
    PROVE  OfferInv' /\ questions' \in Seq(Questions)
  <1>1. /\ questions' \in Seq(Questions)
        /\ DOMAIN questions' = 1 .. Len(questions) + 1
        /\ questions'[1] = Sharing!Question("Finished", p)
        /\ \A i \in 2 .. Len(questions) + 1 : i - 1 \in DOMAIN questions
                                              /\ questions'[i] = questions[i - 1]
    BY AskInFront
  <1>2. Len(questions) \in Nat  BY LenProperties DEF Sharing!TypeOK
  <1>3. ~IsOffer(1)'  BY <1>1 DEF IsOffer, Sharing!Question
  <1>4. \A i \in DOMAIN questions' : IsOffer(i)' => i \in 2 .. Len(questions) + 1
          /\ IsOffer(i - 1)
    BY <1>1, <1>2, <1>3 DEF IsOffer
  <1>5. \A i \in DOMAIN questions : questions[i].peer \in Peers
    BY QuestionsType
  <1>6. \A i \in DOMAIN questions' : IsOffer(i)' => session'[questions'[i].peer] = "Started"
    <2> SUFFICES ASSUME NEW i \in DOMAIN questions', IsOffer(i)'
                 PROVE  session'[questions'[i].peer] = "Started"
      OBVIOUS
    <2>1. session[questions[i - 1].peer] = "Started" /\ questions'[i] = questions[i - 1]
          /\ questions[i - 1].peer \in Peers
      BY <1>1, <1>4, <1>5 DEF OfferInv, IsOffer
    <2> QED  BY <2>1 DEF Sharing!TypeOK
  <1>7. \A i, j \in DOMAIN questions' :
            IsOffer(i)' /\ IsOffer(j)' /\ questions'[i].peer = questions'[j].peer => i = j
    <2> SUFFICES ASSUME NEW i \in DOMAIN questions', NEW j \in DOMAIN questions',
                        IsOffer(i)', IsOffer(j)', questions'[i].peer = questions'[j].peer
                 PROVE  i = j
      OBVIOUS
    <2>1. IsOffer(i - 1) /\ IsOffer(j - 1) /\ i \in Int /\ j \in Int
          /\ questions[i - 1].peer = questions[j - 1].peer
      BY <1>1, <1>2, <1>4
    <2>2. i - 1 = j - 1  BY <2>1 DEF OfferInv, IsOffer
    <2> QED  BY <2>1, <2>2
  <1> QED  BY <1>1, <1>6, <1>7 DEF OfferInv

-----------------------------------------------------------------------------
(* Sharing of files: the steps.                                              *)

\* A step of the session that leaves the questions, the files and the amounts.
LEMMA SessionStep ==
    ASSUME TransferInv, NEW p \in Peers,
           UNCHANGED <<Sharing!Sharing, fileName, received, sent, questions, files, plan>>,
           \/ /\ socket[p] = "None" /\ socket' = [socket EXCEPT ![p] = "Open"]
              /\ session' = [session EXCEPT ![p] = "Connected"]
           \/ \E s \in {"Left", "Closed"} : /\ socket[p] # "None"
                                           /\ socket' = [socket EXCEPT ![p] = s]
                                           /\ UNCHANGED session
    PROVE  TransferInv'
  <1>1. Sharing!TypeOK'  BY DEF TransferInv, Sharing!TypeOK, Sharing!Sharing, Sharing!States
  <1>2. ReceivedInv'  BY DEF TransferInv, Sharing!TypeOK, ReceivedInv
  <1>3. \A r \in Peers : session[r] = "Started" => session'[r] = "Started"
    BY DEF TransferInv, Sharing!TypeOK, ReceivedInv
  <1>4. OfferInv'  BY <1>3, OffersKept DEF TransferInv
  <1>5. Sharing!NeverPartial'  BY DEF TransferInv, Sharing!NeverPartial
  <1> QED  BY <1>1, <1>2, <1>4, <1>5 DEF TransferInv

LEMMA OfferStep ==
    ASSUME TransferInv, NEW p \in Peers, Sharing!OfferFile(p)
    PROVE  TransferInv'
  <1>1. /\ questions' \in Seq(Questions)
        /\ DOMAIN questions' = 1 .. Len(questions) + 1
        /\ questions'[1] = Sharing!Question("Offer", p)
        /\ \A i \in 2 .. Len(questions) + 1 : i - 1 \in DOMAIN questions
                                              /\ questions'[i] = questions[i - 1]
    BY AskInFront DEF Sharing!OfferFile, TransferInv
  <1>2. session[p] = "Connected" /\ session' = [session EXCEPT ![p] = "Started"]
        /\ UNCHANGED <<Sharing!Sharing, socket, fileName, received, sent, files, plan>>
    BY DEF Sharing!OfferFile, Sharing!Becomes
  <1>3. Sharing!TypeOK'
    BY <1>1, <1>2 DEF TransferInv, Sharing!TypeOK, Questions, Sharing!Sharing, Sharing!States
  <1>4. ReceivedInv'  BY <1>2 DEF TransferInv, Sharing!TypeOK, ReceivedInv
  <1>5. Sharing!NeverPartial'  BY <1>2 DEF TransferInv, Sharing!NeverPartial
  <1>6. Len(questions) \in Nat  BY LenProperties DEF TransferInv, Sharing!TypeOK
  <1>7. \A i \in DOMAIN questions : questions[i].peer \in Peers
    BY QuestionsType DEF TransferInv
  <1>8. ASSUME NEW i \in 2 .. Len(questions) + 1, IsOffer(i)'
        PROVE  IsOffer(i - 1) /\ questions'[i] = questions[i - 1]
                 /\ questions'[i].peer \in Peers \ {p}
    <2>1. IsOffer(i - 1) /\ questions'[i] = questions[i - 1]  BY <1>1, <1>8 DEF IsOffer
    <2>2. session[questions[i - 1].peer] = "Started" /\ questions[i - 1].peer \in Peers
      BY <2>1, <1>7 DEF TransferInv, OfferInv, IsOffer
    <2> QED  BY <2>1, <2>2, <1>2
  <1>9. questions'[1].peer = p  BY <1>1 DEF Sharing!Question
  <1>10. \A i \in DOMAIN questions' : IsOffer(i)' => session'[questions'[i].peer] = "Started"
    <2> SUFFICES ASSUME NEW i \in DOMAIN questions', IsOffer(i)'
                 PROVE  session'[questions'[i].peer] = "Started"
      OBVIOUS
    <2>1. CASE i = 1  BY <2>1, <1>2, <1>9 DEF TransferInv, Sharing!TypeOK
    <2>2. CASE i # 1
      <3>1. i \in 2 .. Len(questions) + 1  BY <2>2, <1>1, <1>6
      <3> QED  BY <3>1, <1>2, <1>8 DEF TransferInv, OfferInv, Sharing!TypeOK, IsOffer
    <2> QED  BY <2>1, <2>2
  <1>11. \A i, j \in DOMAIN questions' :
            IsOffer(i)' /\ IsOffer(j)' /\ questions'[i].peer = questions'[j].peer => i = j
    <2> SUFFICES ASSUME NEW i \in DOMAIN questions', NEW j \in DOMAIN questions',
                        IsOffer(i)', IsOffer(j)', questions'[i].peer = questions'[j].peer
                 PROVE  i = j
      OBVIOUS
    <2>1. i \in 1 .. Len(questions) + 1 /\ j \in 1 .. Len(questions) + 1  BY <1>1
    <2>2. CASE i = 1 \/ j = 1  BY <2>1, <2>2, <1>6, <1>8, <1>9
    <2>3. CASE i # 1 /\ j # 1
      <3>1. i \in 2 .. Len(questions) + 1 /\ j \in 2 .. Len(questions) + 1
        BY <2>1, <2>3, <1>6
      <3>2. IsOffer(i - 1) /\ IsOffer(j - 1) /\ questions[i - 1].peer = questions[j - 1].peer
        BY <3>1, <1>8
      <3>3. i - 1 = j - 1  BY <3>2 DEF TransferInv, OfferInv, IsOffer
      <3> QED  BY <3>1, <3>3, <1>6
    <2> QED  BY <2>2, <2>3
  <1> QED  BY <1>3, <1>4, <1>5, <1>10, <1>11 DEF TransferInv, OfferInv

LEMMA AnswerOfferStep ==
    ASSUME TransferInv, Sharing!AnswerOffer, Sharing!SharingAssumption
    PROVE  TransferInv'
  <1> DEFINE p == questions[1].peer
  <1>1. /\ questions' \in Seq(Questions) /\ Head(questions) = questions[1]
        /\ 1 \in DOMAIN questions /\ questions[1] \in Questions
        /\ \A i \in DOMAIN questions' : i + 1 \in DOMAIN questions /\ i + 1 # 1
                                        /\ questions'[i] = questions[i + 1]
    BY AnswerInFront DEF Sharing!AnswerOffer, TransferInv
  <1>2. p \in Peers /\ IsOffer(1)  BY <1>1 DEF Questions, Sharing!AnswerOffer, IsOffer
  <1>3. session[p] = "Started" /\ received[p] = 0 /\ socket[p] # "None"
    BY <1>1, <1>2 DEF TransferInv, OfferInv, ReceivedInv
  <1>4. UNCHANGED <<Sharing!Sharing, fileName, received, sent, files, plan>>
    BY DEF Sharing!AnswerOffer
  <1>5. \/ UNCHANGED socket /\ session' = [session EXCEPT ![p] = "Accepted"]
        \/ UNCHANGED session /\ socket' = [socket EXCEPT ![p] = "Closed"]
        \/ /\ session' = [session EXCEPT ![p] = "Rejected"]
           /\ socket' = [socket EXCEPT ![p] = "Closed"]
    BY <1>1
    DEF Sharing!AnswerOffer, Sharing!AcceptFile, Sharing!RejectFile, Sharing!Becomes,
        Sharing!Cancel
  <1>6. Sharing!TypeOK'
    BY <1>1, <1>2, <1>4, <1>5
    DEF TransferInv, Sharing!TypeOK, Questions, Sharing!Sharing, Sharing!States
  <1>7. ReceivedInv'
    BY <1>2, <1>3, <1>4, <1>5
    DEF TransferInv, Sharing!TypeOK, ReceivedInv, Sharing!SharingAssumption
  <1>8. Sharing!NeverPartial'  BY <1>4 DEF TransferInv, Sharing!NeverPartial
  <1>9. ASSUME NEW i \in DOMAIN questions', IsOffer(i)'
        PROVE  /\ IsOffer(i + 1) /\ questions'[i] = questions[i + 1]
               /\ questions'[i].peer \in Peers \ {p}
    <2>1. IsOffer(i + 1) /\ questions'[i] = questions[i + 1] /\ i + 1 # 1
      BY <1>1, <1>9 DEF IsOffer
    <2>2. questions[i + 1].peer \in Peers  BY <2>1, QuestionsType DEF TransferInv, IsOffer
    <2>3. questions[i + 1].peer # p
      BY <2>1, <1>2 DEF TransferInv, OfferInv, IsOffer
    <2> QED  BY <2>1, <2>2, <2>3
  <1>10. \A i \in DOMAIN questions' : IsOffer(i)' => session'[questions'[i].peer] = "Started"
    BY <1>2, <1>5, <1>9 DEF TransferInv, OfferInv, IsOffer, Sharing!TypeOK
  <1>11. \A i, j \in DOMAIN questions' :
            IsOffer(i)' /\ IsOffer(j)' /\ questions'[i].peer = questions'[j].peer => i = j
    <2> SUFFICES ASSUME NEW i \in DOMAIN questions', NEW j \in DOMAIN questions',
                        IsOffer(i)', IsOffer(j)', questions'[i].peer = questions'[j].peer
                 PROVE  i = j
      OBVIOUS
    <2>1. i + 1 = j + 1  BY <1>9 DEF TransferInv, OfferInv, IsOffer
    <2>2. i \in Nat /\ j \in Nat  BY <1>1, LenProperties
    <2> QED  BY <2>1, <2>2
  <1> QED  BY <1>6, <1>7, <1>8, <1>10, <1>11 DEF TransferInv, OfferInv

LEMMA AnswerFinishedStep ==
    ASSUME TransferInv, Sharing!AnswerFinished
    PROVE  TransferInv'
  <1> DEFINE name == fileName[Head(questions).peer]
  <1>1. /\ questions' \in Seq(Questions) /\ Head(questions) = questions[1]
        /\ 1 \in DOMAIN questions /\ questions[1] \in Questions
        /\ \A i \in DOMAIN questions' : i + 1 \in DOMAIN questions /\ i + 1 # 1
                                        /\ questions'[i] = questions[i + 1]
    BY AnswerInFront DEF Sharing!AnswerFinished, TransferInv
  <1>2. name \in FileNames  BY <1>1 DEF Questions, TransferInv, Sharing!TypeOK
  <1>3. UNCHANGED <<Sharing!Sharing, socket, session, fileName, received, sent, files>>
        /\ (plan' = plan \/ plan' = files[name])
    BY DEF Sharing!AnswerFinished
  <1>4. Sharing!TypeOK'
    BY <1>1, <1>2, <1>3 DEF TransferInv, Sharing!TypeOK, Questions, Sharing!Sharing
  <1>5. ReceivedInv'  BY <1>3 DEF TransferInv, ReceivedInv
  <1>6. Sharing!NeverPartial'  BY <1>2, <1>3 DEF TransferInv, Sharing!NeverPartial
  <1>7. \A i \in DOMAIN questions' : IsOffer(i)' => session'[questions'[i].peer] = "Started"
    BY <1>1, <1>3 DEF TransferInv, OfferInv, IsOffer
  <1>8. \A i, j \in DOMAIN questions' :
            IsOffer(i)' /\ IsOffer(j)' /\ questions'[i].peer = questions'[j].peer => i = j
    <2> SUFFICES ASSUME NEW i \in DOMAIN questions', NEW j \in DOMAIN questions',
                        IsOffer(i)', IsOffer(j)', questions'[i].peer = questions'[j].peer
                 PROVE  i = j
      OBVIOUS
    <2>1. i + 1 = j + 1  BY <1>1 DEF TransferInv, OfferInv, IsOffer
    <2>2. i \in Nat /\ j \in Nat  BY <1>1, LenProperties
    <2> QED  BY <2>1, <2>2
  <1> QED  BY <1>4, <1>5, <1>6, <1>7, <1>8 DEF TransferInv, OfferInv

\* Data arrives for an accepted transfer: what is counted was sent.
LEMMA AmountsStep ==
    ASSUME TransferInv, Sharing!SharingAssumption, NEW p \in Peers,
           NEW n \in 1 .. MaxSent - sent[p],
           session[p] = "Accepted",
           sent' = [sent EXCEPT ![p] = @ + n],
           received' = [received EXCEPT ![p] = @ + Sharing!Taken(@, n)]
    PROVE  /\ received' \in [Peers -> 0 .. MaxSent] /\ sent' \in [Peers -> 0 .. MaxSent]
           /\ received'[p] <= sent'[p] /\ \A r \in Peers : sent'[r] >= sent[r]
           /\ \A r \in Peers \ {p} : received'[r] = received[r] /\ sent'[r] = sent[r]
  <1>1. received[p] \in Nat /\ sent[p] \in 0 .. MaxSent /\ MaxSent \in Nat /\ n \in Nat
        /\ received[p] < FileSize /\ received[p] <= sent[p]
    BY DEF TransferInv, Sharing!TypeOK, ReceivedInv, Sharing!SharingAssumption
  <1>2. Sharing!Taken(received[p], n) \in 0 .. n  BY <1>1, TakenIsThere
  <1>3. \A r \in Peers : sent[r] \in Int /\ sent'[r] \in {sent[r], sent[r] + n}
    BY <1>1 DEF TransferInv, Sharing!TypeOK
  <1>4. \A r \in Peers : sent'[r] >= sent[r]  BY <1>1, <1>3
  <1> QED  BY <1>1, <1>2, <1>4 DEF TransferInv, Sharing!TypeOK

\* More was sent: the files that were there are no longer than before.
LEMMA FilesKept ==
    ASSUME TransferInv, UNCHANGED plan, \A r \in Peers : sent'[r] >= sent[r],
           sent' \in [Peers -> 0 .. MaxSent], Sharing!SharingAssumption,
           \A n \in FileNames : files'[n] = files[n] \/
               (\E r \in Peers, x \in 0 .. MaxSent :
                   files'[n] = [of |-> r, size |-> x] /\ x >= FileSize /\ x <= sent'[r])
    PROVE  Sharing!NeverPartial'
  <1> SUFFICES ASSUME NEW file \in {files'[n] : n \in FileNames} \union {plan}, file # None
               PROVE  file.size >= FileSize /\ file.size <= sent'[file.of]
    BY DEF Sharing!NeverPartial
  <1>1. CASE file \in {files[n] : n \in FileNames} \union {plan}
    <2>1. file \in [of : Peers, size : 0 .. MaxSent]
      BY <1>1 DEF TransferInv, Sharing!TypeOK, Sharing!Files
    <2>2. file.size >= FileSize /\ file.size <= sent[file.of]
      BY <1>1 DEF TransferInv, Sharing!NeverPartial
    <2>3. file.of \in Peers /\ file.size \in Int /\ sent[file.of] \in Int
            /\ sent'[file.of] \in Int
      BY <2>1 DEF TransferInv, Sharing!TypeOK
    <2> QED  BY <2>2, <2>3
  <1>2. CASE file \notin {files[n] : n \in FileNames} \union {plan}
    <2>1. PICK n \in FileNames : file = files'[n] /\ files'[n] # files[n]  BY <1>2
    <2>2. PICK r \in Peers, x \in 0 .. MaxSent :
              file = [of |-> r, size |-> x] /\ x >= FileSize /\ x <= sent'[r]
      BY <2>1
    <2> QED  BY <2>2
  <1> QED  BY <1>1, <1>2

LEMMA ReceiveMoreStep ==
    ASSUME TransferInv, Sharing!SharingAssumption, NEW p \in Peers, Sharing!ReceiveMore(p)
    PROVE  TransferInv'
  <1>1. PICK n \in 1 .. MaxSent - sent[p] :
            /\ sent' = [sent EXCEPT ![p] = @ + n]
            /\ received' = [received EXCEPT ![p] = @ + Sharing!Taken(@, n)]
    BY DEF Sharing!ReceiveMore
  <1>2. session[p] = "Accepted" /\ socket[p] = "Open" /\ received'[p] < FileSize
    <2>1. session[p] = "Accepted" /\ socket[p] = "Open" /\ ~(received'[p] >= FileSize)
      BY DEF Sharing!ReceiveMore, Sharing!Whole
    <2>2. received' \in [Peers -> 0 .. MaxSent]  BY <1>1, <2>1, AmountsStep
    <2>3. received'[p] \in Int /\ FileSize \in Int  BY <2>2 DEF Sharing!SharingAssumption
    <2> QED  BY <2>1, <2>3
  <1>3. UNCHANGED <<Sharing!Sharing, socket, session, fileName, questions, files, plan>>
    BY DEF Sharing!ReceiveMore
  <1>4. /\ received' \in [Peers -> 0 .. MaxSent] /\ sent' \in [Peers -> 0 .. MaxSent]
        /\ received'[p] <= sent'[p] /\ \A r \in Peers : sent'[r] >= sent[r]
        /\ \A r \in Peers \ {p} : received'[r] = received[r] /\ sent'[r] = sent[r]
    BY <1>1, <1>2, AmountsStep
  <1>5. Sharing!TypeOK'  BY <1>3, <1>4 DEF TransferInv, Sharing!TypeOK, Sharing!Sharing
  <1>6. ReceivedInv'  BY <1>2, <1>3, <1>4 DEF TransferInv, ReceivedInv
  <1>7. OfferInv'  BY <1>3, OffersKept DEF TransferInv
  <1>8. Sharing!NeverPartial'  BY <1>3, <1>4, FilesKept
  <1> QED  BY <1>5, <1>6, <1>7, <1>8 DEF TransferInv

LEMMA ReceiveLastStep ==
    ASSUME TransferInv, Sharing!SharingAssumption, NEW p \in Peers, Sharing!ReceiveLast(p)
    PROVE  TransferInv'
  <1>1. PICK n \in 1 .. MaxSent - sent[p] :
            /\ sent' = [sent EXCEPT ![p] = @ + n]
            /\ received' = [received EXCEPT ![p] = @ + Sharing!Taken(@, n)]
    BY DEF Sharing!ReceiveLast
  <1>2. /\ session[p] = "Accepted" /\ socket[p] = "Open" /\ received'[p] >= FileSize
        /\ socket' = [socket EXCEPT ![p] = "Closed"]
        /\ session' = [session EXCEPT ![p] = "Finished"] /\ Sharing!Ask("Finished", p)
        /\ UNCHANGED <<Sharing!Sharing, fileName, plan>>
    BY DEF Sharing!ReceiveLast, Sharing!Whole, Sharing!Cancel, Sharing!Becomes
  <1>3. /\ received' \in [Peers -> 0 .. MaxSent] /\ sent' \in [Peers -> 0 .. MaxSent]
        /\ received'[p] <= sent'[p] /\ \A r \in Peers : sent'[r] >= sent[r]
        /\ \A r \in Peers \ {p} : received'[r] = received[r] /\ sent'[r] = sent[r]
    BY <1>1, <1>2, AmountsStep
  <1>4. OfferInv' /\ questions' \in Seq(Questions)
    BY <1>2, OffersBehindEnd DEF TransferInv
  <1> DEFINE new == [of |-> p, size |-> received'[p]]
  <1>5. files' = files \/ files' = [files EXCEPT ![fileName[p]] = new]
    BY DEF Sharing!ReceiveLast
  <1>6. new \in Sharing!Files  BY <1>3 DEF Sharing!Files
  <1>7. Sharing!TypeOK'
    BY <1>2, <1>3, <1>4, <1>5, <1>6
    DEF TransferInv, Sharing!TypeOK, Sharing!Sharing, Questions, Sharing!States
  <1>8. ReceivedInv'  BY <1>2, <1>3 DEF TransferInv, Sharing!TypeOK, ReceivedInv
  <1>9. \A m \in FileNames : files'[m] = files[m] \/
            (\E r \in Peers, x \in 0 .. MaxSent :
                files'[m] = [of |-> r, size |-> x] /\ x >= FileSize /\ x <= sent'[r])
    <2> TAKE m \in FileNames
    <2>1. files'[m] = files[m] \/ files'[m] = new  BY <1>5 DEF TransferInv, Sharing!TypeOK
    <2>2. received'[p] \in 0 .. MaxSent  BY <1>3
    <2> QED  BY <2>1, <2>2, <1>2, <1>3
  <1>10. Sharing!NeverPartial'  BY <1>2, <1>3, <1>9, FilesKept
  <1> QED  BY <1>4, <1>7, <1>8, <1>10 DEF TransferInv

LEMMA ReceiveFailsStep ==
    ASSUME TransferInv, Sharing!SharingAssumption, NEW p \in Peers, Sharing!ReceiveFails(p)
    PROVE  TransferInv'
  <1>1. /\ session[p] = "Accepted" /\ socket[p] = "Open" /\ sent[p] < MaxSent
        /\ sent' = [sent EXCEPT ![p] = @ + 1] /\ files' = files
        /\ socket' = [socket EXCEPT ![p] = "Closed"]
        /\ session' = [session EXCEPT ![p] = "Finished"] /\ Sharing!Ask("Finished", p)
        /\ UNCHANGED <<Sharing!Sharing, fileName, received, plan>>
    BY DEF Sharing!ReceiveFails, Sharing!GiveUp, Sharing!Cancel, Sharing!Becomes
  <1>2. MaxSent \in Nat  BY DEF Sharing!SharingAssumption
  <1>3. sent' \in [Peers -> 0 .. MaxSent] /\ \A r \in Peers : sent'[r] >= sent[r]
    BY <1>1, <1>2 DEF TransferInv, Sharing!TypeOK
  <1>4. OfferInv' /\ questions' \in Seq(Questions)
    BY <1>1, OffersBehindEnd DEF TransferInv
  <1>5. Sharing!TypeOK'
    BY <1>1, <1>3, <1>4
    DEF TransferInv, Sharing!TypeOK, Sharing!Sharing, Questions, Sharing!States
  <1>6. ReceivedInv'  BY <1>1, <1>3 DEF TransferInv, Sharing!TypeOK, ReceivedInv
  <1>7. Sharing!NeverPartial'  BY <1>1, <1>3, FilesKept
  <1> QED  BY <1>4, <1>5, <1>6, <1>7 DEF TransferInv

\* Switching the sharing on or off touches neither sessions nor amounts.
LEMMA SwitchStep ==
    ASSUME TransferInv, Sharing!SharingAssumption,
           Sharing!StartListening \/ Sharing!StopListening
    PROVE  TransferInv'
  <1>1. UNCHANGED <<session, fileName, received, sent, questions, files, plan>>
        /\ switches < MaxSwitches /\ switches' = switches + 1
    BY DEF Sharing!StartListening, Sharing!StopListening, Sharing!Switching
  <1>2. listening' \in BOOLEAN /\ remembered' \in BOOLEAN
    BY DEF Sharing!StartListening, Sharing!StopListening
  <1>3. \A p \in Peers : socket'[p] = "None" <=> socket[p] = "None"
    BY DEF Sharing!StartListening, Sharing!StopListening, TransferInv, Sharing!TypeOK
  <1>4. socket' \in [Peers -> {"None", "Open", "Left", "Closed", "Deleted"}]
    BY DEF Sharing!StartListening, Sharing!StopListening, TransferInv, Sharing!TypeOK
  <1>5. switches' \in 0 .. MaxSwitches
    BY <1>1 DEF TransferInv, Sharing!TypeOK, Sharing!SharingAssumption
  <1>6. Sharing!TypeOK'  BY <1>1, <1>2, <1>4, <1>5 DEF TransferInv, Sharing!TypeOK
  <1>7. ReceivedInv'  BY <1>1, <1>3 DEF TransferInv, ReceivedInv
  <1>8. OfferInv'  BY <1>1, OffersKept DEF TransferInv
  <1>9. Sharing!NeverPartial'  BY <1>1 DEF TransferInv, Sharing!NeverPartial
  <1> QED  BY <1>6, <1>7, <1>8, <1>9 DEF TransferInv

\* A new process knows no sessions; what is in place stays.
LEMMA RestartStep ==
    ASSUME TransferInv, Sharing!SharingAssumption, Sharing!Restart
    PROVE  TransferInv'
  <1>1. /\ switches < MaxSwitches /\ switches' = switches + 1
        /\ session' = [p \in Peers |-> "None"] /\ questions' = <<>> /\ plan' = None
        /\ UNCHANGED <<fileName, received, sent, files>>
        /\ listening' \in BOOLEAN /\ remembered' = listening'
        /\ socket' = [p \in Peers |-> IF socket[p] = "None" THEN "None" ELSE "Deleted"]
    BY DEF Sharing!Restart
  <1>2. switches' \in 0 .. MaxSwitches
    BY <1>1 DEF TransferInv, Sharing!TypeOK, Sharing!SharingAssumption
  <1>3. Sharing!TypeOK'  BY <1>1, <1>2, EmptySeq DEF TransferInv, Sharing!TypeOK, Sharing!Files
  <1>4. ReceivedInv'  BY <1>1 DEF TransferInv, ReceivedInv
  <1>5. OfferInv'  BY <1>1 DEF OfferInv, IsOffer
  <1>6. Sharing!NeverPartial'  BY <1>1 DEF TransferInv, Sharing!NeverPartial
  <1> QED  BY <1>3, <1>4, <1>5, <1>6 DEF TransferInv

LEMMA TransferStep ==
    ASSUME TransferInv, [Sharing!Next]_Sharing!vars, Sharing!SharingAssumption
    PROVE  TransferInv'
  <1>1. ASSUME NEW p \in Peers, Sharing!PeerConnects(p) \/ Sharing!SendNonsense(p)
                 \/ Sharing!PeerLeaves(p)
        PROVE  TransferInv'
    BY <1>1, SessionStep
    DEF Sharing!PeerConnects, Sharing!SendNonsense, Sharing!PeerLeaves, Sharing!Becomes,
        Sharing!Cancel
  <1>2. CASE UNCHANGED Sharing!vars
    <2>1. UNCHANGED <<listening, remembered, socket, session, fileName, received, sent,
                      questions, files, plan, switches>>
      BY <1>2 DEF Sharing!vars
    <2>2. OfferInv'  BY <2>1, OffersKept DEF TransferInv
    <2>3. Sharing!TypeOK' /\ ReceivedInv' /\ Sharing!NeverPartial'
      BY <2>1 DEF TransferInv, Sharing!TypeOK, ReceivedInv, Sharing!NeverPartial
    <2> QED  BY <2>2, <2>3 DEF TransferInv
  <1> QED
    BY <1>1, <1>2, OfferStep, AnswerOfferStep, AnswerFinishedStep, ReceiveMoreStep,
       ReceiveLastStep, ReceiveFailsStep, SwitchStep, RestartStep
    DEF Sharing!Next

-----------------------------------------------------------------------------
(* Sharing of files: the theorems.                                           *)

LEMMA TransfersInvariant ==
    ASSUME Sharing!SharingAssumption
    PROVE  Sharing!Spec => []TransferInv
  <1>1. Sharing!Init => TransferInv
    BY EmptySeq
    DEF Sharing!Init, TransferInv, Sharing!TypeOK, OfferInv, IsOffer, ReceivedInv,
        Sharing!NeverPartial,
                    Sharing!Files, Sharing!SharingAssumption
  <1>2. TransferInv /\ [Sharing!Next]_Sharing!vars => TransferInv'  BY TransferStep
  <1> QED  BY <1>1, <1>2, PTL DEF Sharing!Spec

\* Sockets, sessions, questions and files are what they are taken for.
THEOREM SharingTypes ==
    ASSUME Sharing!SharingAssumption
    PROVE  Sharing!Spec => []Sharing!TypeOK
  <1>1. TransferInv => Sharing!TypeOK  BY DEF TransferInv
  <1> QED  BY <1>1, TransfersInvariant, PTL

\* No file that is in place, or shown, is shorter than announced or holds what
\* its peer has not sent, however transfers fail, overlap or are cut off by the
\* end of the program: the loop of receiveFile(), and commit() as its only exit
\* that keeps a file.
THEOREM FilesAreWhole ==
    ASSUME Sharing!SharingAssumption
    PROVE  Sharing!Spec => []Sharing!NeverPartial
  <1>1. TransferInv => Sharing!NeverPartial  BY DEF TransferInv
  <1> QED  BY <1>1, TransfersInvariant, PTL

-----------------------------------------------------------------------------
(* The driving of vehicles.                                                  *)

\* Finite sets and their sizes, as VehicleThrottle has them.
LEMMA SameSizes ==
    \A S : /\ Throttle!IsFiniteSet(S) <=> IsFiniteSet(S)
          /\ Throttle!Cardinality(S) = Cardinality(S)
  <1> TAKE S
  <1>1. Throttle!IsFiniteSet(S) <=> IsFiniteSet(S)  BY DEF Throttle!IsFiniteSet, IsFiniteSet
  <1>2. Throttle!Cardinality(S) = Cardinality(S)  BY DEF Throttle!Cardinality, Cardinality
  <1> QED  BY <1>1, <1>2

-----------------------------------------------------------------------------
(* Vehicles do as they are asked.                                            *)

\* The speeds and directions that a vehicle may be made to take, and may be told of:
\* those people asked of it, and that of a vehicle nothing is known of yet.
Dials(v) ==
    wished[v] \union (IF v \in rash THEN {Throttle!DialOf(Throttle!DefaultInfo)} ELSE {})

\* Requests that command nothing else, and answers that tell of nothing else; if
\* nobody acted too early, they are about what was asked last.
Orders ==
    {r \in [kind : {"drive", "switch", "query"}, vehicle : Vehicles,
            speed : 0..MaxSpeed, direction : Throttle!Directions, function : BOOLEAN] :
        /\ r.kind = "drive" =>
               [speed |-> r.speed, direction |-> r.direction] \in Dials(r.vehicle)
        /\ r.vehicle \notin rash =>
               /\ r.kind = "drive" => /\ r.speed = asked[r.vehicle].speed
                                      /\ r.direction = asked[r.vehicle].direction
               /\ r.kind = "switch" => r.function = asked[r.vehicle].function}
Tidings ==
    {a \in [vehicle : Vehicles, info : Throttle!Infos] :
        /\ Throttle!DialOf(a.info) \in Dials(a.vehicle)
        /\ a.vehicle \notin rash => a.info = asked[a.vehicle]}

\* What the station makes of a request.
Applied(r, info) ==
    CASE r.kind = "drive"  -> [info EXCEPT !.speed = r.speed, !.direction = r.direction]
      [] r.kind = "switch" -> [info EXCEPT !.function = r.function]
      [] r.kind = "query"  -> info

\* The first request about v that is under way makes it do what was asked.
AboutToDo(v) ==
    \E i \in 1 .. Len(requests) :
        /\ requests[i].vehicle = v /\ \A j \in 1 .. i - 1 : requests[j].vehicle # v
        /\ Applied(requests[i], layout[v]) = asked[v]

CabInv ==
    /\ box \in Vehicles /\ dial \in Throttle!Dial /\ button \in BOOLEAN
    /\ rows \in [Vehicles -> Throttle!Infos] /\ heard \subseteq Vehicles
    /\ layout \in [Vehicles -> Throttle!Infos] /\ asked \in [Vehicles -> Throttle!Infos]
    /\ wished \in [Vehicles -> SUBSET Throttle!Dial] /\ rash \subseteq Vehicles
    /\ drives \in 0..MaxDrives

LineInv == requests \in Seq(Orders) /\ answers \in Seq(Tidings)

LaidInv == \A v \in Vehicles : Throttle!DialOf(layout[v]) \in Dials(v)

DoneInv == \A v \in Vehicles \ rash : layout[v] = asked[v] \/ AboutToDo(v)

ShownInv ==
    \A v \in Vehicles :
        IF v \in heard
        THEN /\ Throttle!DialOf(rows[v]) \in Dials(v)
             /\ v \in rash \/ rows[v] = asked[v] \/ Throttle!Busy(v)
        ELSE rows[v] = Throttle!DefaultInfo

AskedInv == CabInv /\ LineInv /\ LaidInv /\ DoneInv /\ ShownInv

\* What the dial and the button send is faithful if what they are set to is.
LEMMA SentIsOrder ==
    ASSUME CabInv', Throttle!ThrottleAssumption, NEW v \in Vehicles, NEW d \in Throttle!Dial,
           NEW b \in BOOLEAN, NEW e, NEW c
    PROVE  /\ d \in Dials(v)' /\ (v \in rash' \/ d = Throttle!DialOf(asked'[v]))
                  => Throttle!FromDial(v, e, d) \in Seq(Orders')
           /\ v \in rash' \/ b = asked'[v].function
                  => Throttle!FromButton(v, c, b) \in Seq(Orders')
  <1>1. asked'[v] \in Throttle!Infos  BY DEF CabInv
  <1>2. ASSUME d \in Dials(v)', v \in rash' \/ d = Throttle!DialOf(asked'[v])
        PROVE  Throttle!Drive(v, d) \in Orders'
    <2>1. d.speed \in 0..MaxSpeed /\ d.direction \in Throttle!Directions
          /\ d = [speed |-> d.speed, direction |-> d.direction]
      BY DEF Throttle!Dial
    <2>2. v \notin rash' => d.speed = asked'[v].speed /\ d.direction = asked'[v].direction
      BY <1>1, <1>2 DEF Throttle!DialOf
    <2> QED  BY <1>2, <2>1, <2>2 DEF Orders, Throttle!Drive
  <1>3. ASSUME v \in rash' \/ b = asked'[v].function PROVE Throttle!Switch(v, b) \in Orders'
    <2>1. 0 \in 0..MaxSpeed  BY DEF Throttle!ThrottleAssumption
    <2> QED  BY <2>1, <1>3 DEF Orders, Throttle!Switch, Throttle!Directions
  <1> QED  BY <1>2, <1>3, EmptySeq DEF Throttle!FromDial, Throttle!FromButton

\* A request that commands what was asked changes nothing that was done.
LEMMA FaithfulIsDone ==
    ASSUME CabInv, NEW r \in Orders, r.vehicle \notin rash
    PROVE  Applied(r, asked[r.vehicle]) = asked[r.vehicle]
  <1>1. r.vehicle \in Vehicles /\ asked[r.vehicle] \in Throttle!Infos
        /\ r.kind \in {"drive", "switch", "query"}
    BY DEF CabInv, Orders
  <1>2. CASE r.kind = "drive"
    <2>1. r.speed = asked[r.vehicle].speed /\ r.direction = asked[r.vehicle].direction
      BY <1>2 DEF Orders
    <2> QED  BY <1>1, <1>2, <2>1 DEF Applied, Throttle!Infos
  <1>3. CASE r.kind = "switch"
    <2>1. r.function = asked[r.vehicle].function  BY <1>3 DEF Orders
    <2> QED  BY <1>1, <1>3, <2>1 DEF Applied, Throttle!Infos
  <1>4. CASE r.kind = "query"  BY <1>4 DEF Applied
  <1> QED  BY <1>1, <1>2, <1>3, <1>4

\* An act on v is about v alone, and if something about v is under way it is rash.
LEMMA LineStays ==
    ASSUME AskedInv, NEW v \in Vehicles,
           \A u \in Vehicles : wished[u] \subseteq wished'[u], rash \subseteq rash',
           \A u \in Vehicles \ {v} : asked'[u] = asked[u],
           Throttle!Busy(v) => v \in rash' \/ asked'[v] = asked[v]
    PROVE  /\ requests \in Seq(Orders') /\ answers \in Seq(Tidings')
           /\ \A u \in Vehicles : Dials(u) \subseteq Dials(u)'
  <1>1. \A u \in Vehicles : Dials(u) \subseteq Dials(u)'  BY DEF Dials
  <1>2. requests \in Seq(Orders) /\ answers \in Seq(Tidings)  BY DEF AskedInv, LineInv
  <1>3. ASSUME NEW i \in 1 .. Len(requests) PROVE requests[i] \in Orders'
    <2>1. requests[i] \in Orders  BY <1>2, ElementOfSeq
    <2>2. requests[i].vehicle \in Vehicles  BY <2>1 DEF Orders
    <2>3. requests[i].vehicle = v => Throttle!Busy(v)
      <3>1. i \in DOMAIN requests  BY <1>2, LenProperties
      <3> QED  BY <3>1 DEF Throttle!Busy
    <2>4. \/ requests[i].vehicle \in rash'
          \/ /\ requests[i].vehicle \notin rash
             /\ asked'[requests[i].vehicle] = asked[requests[i].vehicle]
      BY <2>2, <2>3
    <2> QED  BY <1>1, <2>1, <2>2, <2>4 DEF Orders
  <1>4. ASSUME NEW i \in 1 .. Len(answers) PROVE answers[i] \in Tidings'
    <2>1. answers[i] \in Tidings  BY <1>2, ElementOfSeq
    <2>2. answers[i].vehicle \in Vehicles  BY <2>1 DEF Tidings
    <2>3. answers[i].vehicle = v => Throttle!Busy(v)
      <3>1. i \in DOMAIN answers  BY <1>2, LenProperties
      <3> QED  BY <3>1 DEF Throttle!Busy
    <2>4. \/ answers[i].vehicle \in rash'
          \/ /\ answers[i].vehicle \notin rash
             /\ asked'[answers[i].vehicle] = asked[answers[i].vehicle]
      BY <2>2, <2>3
    <2> QED  BY <1>1, <2>1, <2>2, <2>4 DEF Tidings
  <1>5. requests \in Seq(Orders')  BY <1>2, <1>3, LenProperties, SeqDef
  <1>6. answers \in Seq(Tidings')  BY <1>2, <1>4, LenProperties, SeqDef
  <1> QED  BY <1>1, <1>5, <1>6

\* Requests that come later leave those before as they are.
LEMMA MoreRequests ==
    ASSUME NEW S, requests \in Seq(S), NEW t \in Seq(S), requests' = requests \o t,
           NEW v, layout'[v] = layout[v], asked'[v] = asked[v]
    PROVE  /\ AboutToDo(v) => AboutToDo(v)'
           /\ \A i \in DOMAIN requests : i \in DOMAIN requests' /\ requests'[i] = requests[i]
  <1>1. /\ Len(requests) \in Nat /\ Len(t) \in Nat /\ Len(requests') = Len(requests) + Len(t)
        /\ DOMAIN requests = 1 .. Len(requests) /\ DOMAIN requests' = 1 .. Len(requests')
        /\ \A i \in 1 .. Len(requests) : requests'[i] = requests[i]
    BY ConcatProperties, LenProperties
  <1>2. ASSUME AboutToDo(v) PROVE AboutToDo(v)'
    <2>1. PICK i \in 1 .. Len(requests) :
              /\ requests[i].vehicle = v /\ \A j \in 1 .. i - 1 : requests[j].vehicle # v
              /\ Applied(requests[i], layout[v]) = asked[v]
      BY <1>2 DEF AboutToDo
    <2>2. i \in 1 .. Len(requests') /\ 1 .. i - 1 \subseteq 1 .. Len(requests)  BY <1>1
    <2>3. requests'[i].vehicle = v /\ \A j \in 1 .. i - 1 : requests'[j].vehicle # v
      BY <1>1, <2>1, <2>2
    <2>4. Applied(requests'[i], layout'[v]) = asked'[v]  BY <1>1, <2>1
    <2> QED  BY <2>2, <2>3, <2>4 DEF AboutToDo, Applied
  <1> QED  BY <1>1, <1>2

\* A request about a vehicle that nothing is under way about is the first one.
LEMMA FirstRequest ==
    ASSUME NEW S, requests \in Seq(S), NEW r \in S, requests' = requests \o <<r>>,
           NEW v, r.vehicle = v, ~Throttle!Busy(v), Applied(r, layout'[v]) = asked'[v]
    PROVE  AboutToDo(v)'
  <1> DEFINE n == Len(requests) + 1
  <1>1. <<r>> \in Seq(S) /\ Len(<<r>>) = 1 /\ <<r>>[1] = r  OBVIOUS
  <1>2. /\ n \in Nat \ {0} /\ Len(requests') = n /\ requests'[n] = r
        /\ \A i \in 1 .. n - 1 : requests'[i] = requests[i]
        /\ DOMAIN requests = 1 .. n - 1
    BY <1>1, ConcatProperties, LenProperties
  <1>3. \A i \in 1 .. n - 1 : requests'[i].vehicle # v  BY <1>2 DEF Throttle!Busy
  <1>4. n \in 1 .. Len(requests')  BY <1>2
  <1> HIDE DEF n
  <1>5. Applied(requests'[n], layout'[v]) = asked'[v]  BY <1>2
  <1> QED  BY <1>2, <1>3, <1>4, <1>5 DEF AboutToDo, Applied

\* A vehicle nothing is under way about, and nobody acted on too early, does as asked.
LEMMA QuietIsDone ==
    ASSUME AskedInv, NEW v \in Vehicles \ rash, ~Throttle!Busy(v)
    PROVE  layout[v] = asked[v] /\ (v \in heard => rows[v] = asked[v])
  <1>1. DOMAIN requests = 1 .. Len(requests)  BY LenProperties DEF AskedInv, LineInv
  <1>2. ~AboutToDo(v)  BY <1>1 DEF AboutToDo, Throttle!Busy
  <1> QED  BY <1>2 DEF AskedInv, DoneInv, ShownInv

LEMMA ChooseAsked ==
    ASSUME AskedInv, Throttle!ThrottleAssumption, NEW v \in Vehicles, Throttle!ChooseVehicle(v)
    PROVE  AskedInv'
  <1> DEFINE s == Throttle!FromDial(v, dial, Throttle!DialOf(rows[v]))
             t == s \o Throttle!FromButton(v, button, rows[v].function)
  <1>1. /\ Throttle!Act(v, v \notin heard /\ t # <<>>) /\ requests' = requests \o t /\ box' = v
        /\ dial' = Throttle!DialOf(rows[v]) /\ button' = rows[v].function
        /\ UNCHANGED <<rows, heard, layout, answers, asked, wished>>
    BY DEF Throttle!ChooseVehicle, Throttle!Station
  <1>2. /\ drives' \in 0..MaxDrives /\ rash' \in {rash, rash \union {v}}
        /\ Throttle!Busy(v) => v \in rash'
        /\ v \notin heard /\ t # <<>> => v \in rash'
    <2> HIDE DEF t
    <2> QED  BY <1>1 DEF Throttle!Act, AskedInv, CabInv, Throttle!ThrottleAssumption
  <1>3. rows[v] \in Throttle!Infos  BY DEF AskedInv, CabInv
  <1>4. Throttle!DialOf(rows[v]) \in Throttle!Dial /\ rows[v].function \in BOOLEAN
    BY <1>3 DEF Throttle!Infos, Throttle!DialOf, Throttle!Dial
  <1>5. CabInv'
    <2> HIDE DEF t
    <2> QED  BY <1>1, <1>2, <1>4 DEF AskedInv, CabInv
  <1>6. /\ requests \in Seq(Orders') /\ answers \in Seq(Tidings')
        /\ \A u \in Vehicles : Dials(u) \subseteq Dials(u)'
    <2> HIDE DEF t
    <2>1. rash \subseteq rash' /\ \A u \in Vehicles : wished[u] \subseteq wished'[u]
          /\ asked' = asked
      BY <1>1, <1>2
    <2> QED  BY <2>1, LineStays
  <1>7. t \in Seq(Orders')
    <2>1. CASE t = <<>>
      <3> HIDE DEF t
      <3> QED  BY <2>1, EmptySeq
    <2>2. CASE t # <<>>
      <3>1. /\ Throttle!DialOf(rows[v]) \in Dials(v)'
            /\ v \in rash' \/ rows[v] = asked'[v]
        <4> HIDE DEF t
        <4>1. CASE v \in heard
          <5>1. Throttle!DialOf(rows[v]) \in Dials(v)  BY <4>1 DEF AskedInv, ShownInv
          <5>2. v \notin rash' => rows[v] = asked[v]
            <6>1. v \notin rash' => v \in Vehicles \ rash /\ ~Throttle!Busy(v)  BY <1>2
            <6> QED  BY <4>1, <6>1, QuietIsDone
          <5> QED  BY <1>1, <1>6, <5>1, <5>2
        <4>2. CASE v \notin heard
          <5>1. rows[v] = Throttle!DefaultInfo /\ v \in rash'
            BY <1>2, <2>2, <4>2 DEF AskedInv, ShownInv
          <5> QED  BY <5>1 DEF Dials
        <4> QED  BY <4>1, <4>2
      <3>2. s \in Seq(Orders') /\ Throttle!FromButton(v, button, rows[v].function) \in Seq(Orders')
        BY <1>4, <1>5, <3>1, SentIsOrder
      <3> HIDE DEF s
      <3> QED  BY <3>2, ConcatProperties
    <2> QED  BY <2>1, <2>2
  <1> HIDE DEF t
  <1>8. LineInv'  BY <1>1, <1>6, <1>7, ConcatProperties DEF LineInv
  <1>9. \A u \in Vehicles : /\ AboutToDo(u) => AboutToDo(u)'
                            /\ Throttle!Busy(u) => Throttle!Busy(u)'
    BY <1>1, <1>6, <1>7, MoreRequests DEF Throttle!Busy
  <1>10. DoneInv'  BY <1>1, <1>2, <1>9 DEF AskedInv, DoneInv
  <1>11. ShownInv'  BY <1>1, <1>2, <1>6, <1>9 DEF AskedInv, ShownInv
  <1>12. LaidInv'  BY <1>1, <1>6 DEF AskedInv, LaidInv
  <1> QED  BY <1>5, <1>8, <1>10, <1>11, <1>12 DEF AskedInv

\* An act on the vehicle in the box: a request for it, that is what is asked from now on.
LEMMA CommandAsked ==
    ASSUME AskedInv, Throttle!ThrottleAssumption, Throttle!Act(box, FALSE),
           NEW info \in Throttle!Infos, Throttle!Ask(box, info),
           NEW r \in Orders', r.vehicle = box, requests' = requests \o <<r>>,
           layout[box] = asked[box] => Applied(r, layout[box]) = info,
           UNCHANGED <<box, rows, heard, layout, answers>>,
           dial' \in Throttle!Dial, button' \in BOOLEAN
    PROVE  AskedInv'
  <1>1. /\ drives' \in 0..MaxDrives /\ rash' \in {rash, rash \union {box}}
        /\ Throttle!Busy(box) => box \in rash'
    BY DEF Throttle!Act, AskedInv, CabInv, Throttle!ThrottleAssumption
  <1>2. /\ box \in Vehicles /\ asked' \in [Vehicles -> Throttle!Infos] /\ asked'[box] = info
        /\ \A u \in Vehicles \ {box} : asked'[u] = asked[u]
        /\ \A u \in Vehicles : wished[u] \subseteq wished'[u]
        /\ wished' \in [Vehicles -> SUBSET Throttle!Dial]
    <2>1. Throttle!DialOf(info) \in Throttle!Dial
      BY DEF Throttle!Infos, Throttle!DialOf, Throttle!Dial
    <2> QED  BY <2>1 DEF Throttle!Ask, AskedInv, CabInv
  <1>3. CabInv'  BY <1>1, <1>2 DEF AskedInv, CabInv
  <1>4. /\ requests \in Seq(Orders') /\ answers \in Seq(Tidings')
        /\ \A u \in Vehicles : Dials(u) \subseteq Dials(u)'
    BY <1>1, <1>2, LineStays
  <1>5. <<r>> \in Seq(Orders')  OBVIOUS
  <1>6. LineInv'  BY <1>4, <1>5, ConcatProperties DEF LineInv
  <1>7. \A u \in Vehicles \ {box} : AboutToDo(u) => AboutToDo(u)'
    BY <1>2, <1>4, <1>5, MoreRequests
  <1>8. \A u \in Vehicles : Throttle!Busy(u) \/ u = box => Throttle!Busy(u)'
    <2> DEFINE n == Len(requests) + 1
    <2>1. Len(<<r>>) = 1 /\ <<r>>[1] = r  OBVIOUS
    <2>2. n \in DOMAIN requests' /\ requests'[n] = r
          /\ \A i \in DOMAIN requests : i \in DOMAIN requests' /\ requests'[i] = requests[i]
      BY <1>4, <1>5, <2>1, ConcatProperties, LenProperties
    <2> HIDE DEF n
    <2> QED  BY <2>2 DEF Throttle!Busy
  <1>9. DoneInv'
    <2> SUFFICES ASSUME NEW u \in Vehicles \ rash' PROVE layout'[u] = asked'[u] \/ AboutToDo(u)'
      BY DEF DoneInv
    <2>1. CASE u = box
      <3>1. box \in Vehicles \ rash /\ ~Throttle!Busy(box)  BY <2>1, <1>1
      <3>2. layout[box] = asked[box]  BY <3>1, QuietIsDone
      <3>3. Applied(r, layout'[box]) = asked'[box]  BY <3>2, <1>2
      <3> QED  BY <2>1, <1>4, <3>1, <3>3, FirstRequest
    <2>2. CASE u # box  BY <2>2, <1>1, <1>2, <1>7 DEF AskedInv, DoneInv
    <2> QED  BY <2>1, <2>2
  <1>10. ShownInv'
    <2> SUFFICES ASSUME NEW u \in Vehicles
                 PROVE  IF u \in heard
                        THEN /\ Throttle!DialOf(rows[u]) \in Dials(u)'
                             /\ u \in rash' \/ rows[u] = asked'[u] \/ Throttle!Busy(u)'
                        ELSE rows[u] = Throttle!DefaultInfo
      BY DEF ShownInv
    <2> QED  BY <1>1, <1>2, <1>4, <1>8 DEF AskedInv, ShownInv
  <1>11. LaidInv'  BY <1>4 DEF AskedInv, LaidInv
  <1> QED  BY <1>3, <1>6, <1>9, <1>10, <1>11 DEF AskedInv

\* What only turns the dial changes nothing else.
LEMMA SameAsked ==
    ASSUME AskedInv, dial' \in Throttle!Dial, drives' \in 0..MaxDrives,
           UNCHANGED <<box, button, rows, heard, layout, answers, requests, asked, wished, rash>>
    PROVE  AskedInv'
  <1>1. CabInv'  BY DEF AskedInv, CabInv
  <1>2. Orders' = Orders /\ Tidings' = Tidings /\ \A v \in Vehicles : Dials(v)' = Dials(v)
    BY DEF Orders, Tidings, Dials
  <1>3. \A v \in Vehicles : AboutToDo(v)' = AboutToDo(v) /\ Throttle!Busy(v)' = Throttle!Busy(v)
    BY DEF AboutToDo, Throttle!Busy, Applied
  <1> QED
    BY <1>1, <1>2, <1>3 DEF AskedInv, LineInv, LaidInv, DoneInv, ShownInv

LEMMA TurnAsked ==
    ASSUME AskedInv, Throttle!ThrottleAssumption, Throttle!TurnDial
    PROVE  AskedInv'
  <1>1. PICK d \in Throttle!Dial :
            /\ dial' = d /\ requests' = requests \o Throttle!FromDial(box, dial, d)
            /\ \/ /\ Throttle!Value(d) = Throttle!Value(dial) /\ drives < MaxDrives
                  /\ drives' = drives + 1 /\ UNCHANGED <<asked, wished, rash>>
               \/ /\ Throttle!Value(d) # Throttle!Value(dial) /\ Throttle!Act(box, FALSE)
                  /\ Throttle!Ask(box, [asked[box] EXCEPT !.speed = d.speed,
                                                          !.direction = d.direction])
    BY DEF Throttle!TurnDial
  <1>2. UNCHANGED <<box, button, rows, heard, layout, answers>>
    BY DEF Throttle!TurnDial, Throttle!Station
  <1>3. CASE Throttle!Value(d) = Throttle!Value(dial)
    <2>1. Throttle!FromDial(box, dial, d) = <<>>  BY <1>3 DEF Throttle!FromDial
    <2>2. requests' = requests  BY <1>1, <2>1, ConcatEmptySeq DEF AskedInv, LineInv
    <2>3. drives' \in 0..MaxDrives /\ UNCHANGED <<asked, wished, rash>>
      BY <1>1, <1>3 DEF AskedInv, CabInv, Throttle!ThrottleAssumption
    <2> QED  BY <1>1, <1>2, <2>2, <2>3, SameAsked
  <1>4. CASE Throttle!Value(d) # Throttle!Value(dial)
    <2> DEFINE r == Throttle!Drive(box, d)
               info == [asked[box] EXCEPT !.speed = d.speed, !.direction = d.direction]
    <2>1. /\ Throttle!Act(box, FALSE) /\ Throttle!Ask(box, info)
          /\ requests' = requests \o <<r>>
      BY <1>1, <1>4 DEF Throttle!FromDial
    <2>2. d.speed \in 0..MaxSpeed /\ d.direction \in Throttle!Directions /\ box \in Vehicles
          /\ asked \in [Vehicles -> Throttle!Infos] /\ asked[box] \in Throttle!Infos
          /\ d = [speed |-> d.speed, direction |-> d.direction]
          /\ wished \in [Vehicles -> SUBSET Throttle!Dial]
      BY DEF Throttle!Dial, AskedInv, CabInv
    <2>3. /\ r.kind = "drive" /\ r.vehicle = box /\ r.speed = d.speed
          /\ r.direction = d.direction
      BY DEF Throttle!Drive
    <2>4. info \in Throttle!Infos /\ info.speed = d.speed /\ info.direction = d.direction
      BY <2>2 DEF Throttle!Infos
    <2>5. layout[box] = asked[box] => Applied(r, layout[box]) = info
      BY <2>3 DEF Applied
    <2> HIDE DEF info
    <2>6. asked'[box] = info /\ d \in wished'[box]
      BY <2>1, <2>2, <2>4 DEF Throttle!Ask, Throttle!DialOf
    <2>7. r \in Orders'  BY <2>2, <2>4, <2>6 DEF Orders, Dials, Throttle!Drive
    <2> HIDE DEF r
    <2> QED  BY <1>1, <1>2, <2>1, <2>3, <2>4, <2>5, <2>7, CommandAsked DEF AskedInv, CabInv
  <1> QED  BY <1>3, <1>4

-----------------------------------------------------------------------------
(* How the poll goes round.                                                  *)

TurnType ==
    /\ subscriptions \in Seq(Vehicles) /\ current \in Vehicles \union {None}
    /\ pointer \in 0..Len(subscriptions)
    /\ subscriptions # <<>> => pointer < Len(subscriptions)

LEMMA ModOnce ==
    ASSUME NEW n \in Nat \ {0}, NEW a \in 0 .. 2 * n - 1
    PROVE  a % n = IF a < n THEN a ELSE a - n
  <1>1. CASE a < n  BY <1>1
  <1>2. CASE a >= n
    <2>1. a - n \in 0 .. n - 1  BY <1>2
    <2>2. a = 1 * n + (a - n)  OBVIOUS
    <2> QED  BY <2>1, <2>2, <1>2
  <1> QED  BY <1>1, <1>2

LEMMA LeastNatural ==
    ASSUME NEW T \in SUBSET Nat, T # {}
    PROVE  \E m \in T : \A n \in T : m <= n
  <1> DEFINE Below(n) == 0 .. (n - 1)
  <1> DEFINE Belows == {Below(n) : n \in T}
  <1>1. Belows \subseteq FiniteSubsetsOf(Nat) /\ Belows # {}
    <2>1. \A n \in Nat : IsFiniteSet(Below(n))  BY FS_Interval
    <2>2. \A n \in Nat : Below(n) \in SUBSET Nat  OBVIOUS
    <2>3. \A n \in Nat : Below(n) \in FiniteSubsetsOf(Nat)
      <3> HIDE DEF Below
      <3> QED  BY <2>1, <2>2 DEF FiniteSubsetsOf
    <2> HIDE DEF Below
    <2> QED  BY <2>3
  <1>2. IsWellFoundedOn(StrictSubsetOrdering(Nat), FiniteSubsetsOf(Nat))
    BY FS_StrictSubsetOrderingWellFounded
  <1> HIDE DEF Belows
  <1>3. \E b \in Belows : \A c \in Belows : <<c, b>> \notin StrictSubsetOrdering(Nat)
    BY <1>1, <1>2, WFMin
  <1>4. PICK m \in T : \A c \in Belows : <<c, Below(m)>> \notin StrictSubsetOrdering(Nat)
    BY <1>3 DEF Belows
  <1>5. ASSUME NEW n \in T  PROVE m <= n
    <2>1. <<Below(n), Below(m)>> \notin StrictSubsetOrdering(Nat)  BY <1>4 DEF Belows
    <2> QED  BY <2>1 DEF StrictSubsetOrdering
  <1> QED  BY <1>5

\* The entry the loop looks at at step p, and where it is.
LEMMA EntryAt ==
    ASSUME TurnType, subscriptions # <<>>, NEW p \in pointer .. pointer + Len(subscriptions) - 1
    PROVE  LET i == IF p < Len(subscriptions) THEN p + 1 ELSE p + 1 - Len(subscriptions)
           IN  i \in 1 .. Len(subscriptions) /\ Throttle!Entry(p) = subscriptions[i]
  <1> DEFINE n == Len(subscriptions)
  <1>1. n \in Nat \ {0} /\ pointer \in 0 .. n - 1
    BY EmptySeq, LenProperties DEF TurnType
  <1>2. p \in 0 .. 2 * n - 1  BY <1>1
  <1>3. Throttle!Entry(p) = subscriptions[(p % n) + 1]  BY DEF Throttle!Entry
  <1> HIDE DEF n
  <1>4. p % n = IF p < n THEN p ELSE p - n  BY <1>1, <1>2, ModOnce
  <1>5. CASE p < n
    <2>1. p + 1 \in 1 .. n  BY <1>5, <1>1, <1>2
    <2> QED  BY <1>3, <1>4, <1>5, <2>1 DEF n
  <1>6. CASE ~(p < n)
    <2>1. p + 1 - n \in 1 .. n /\ (p % n) + 1 = p + 1 - n  BY <1>6, <1>1, <1>2, <1>4
    <2> QED  BY <1>3, <1>6, <2>1 DEF n
  <1> QED  BY <1>5, <1>6

\* What is listed are vehicles, one more than looked at at most.
LEMMA ListedType ==
    ASSUME TurnType, Throttle!ThrottleAssumption, NEW k \in 0 .. Len(subscriptions)
    PROVE  /\ Throttle!Listed(k) \subseteq Vehicles
                /\ Throttle!Cardinality(Throttle!Listed(k)) \in Nat
           /\ Throttle!Cardinality(Throttle!Listed(k)) <= k + 1
  <1> DEFINE T == {Throttle!Entry(p) : p \in pointer .. pointer + k - 1}
             first == IF current = None THEN {} ELSE {current}
  <1>1. Len(subscriptions) \in Nat /\ pointer \in Nat  BY LenProperties DEF TurnType
  <1>2. T \subseteq Vehicles
    <2> SUFFICES ASSUME NEW p \in pointer .. pointer + k - 1 PROVE Throttle!Entry(p) \in Vehicles
      OBVIOUS
    <2>1. p \in pointer .. pointer + Len(subscriptions) - 1 /\ Len(subscriptions) # 0
      BY <1>1
    <2>2. subscriptions # <<>>  BY <2>1, EmptySeq
    <2> QED  BY <2>1, <2>2, EntryAt, ElementOfSeq DEF TurnType
  <1>3. IsFiniteSet(T) /\ Throttle!Cardinality(T) \in Nat
    BY <1>2, SameSizes, FS_Subset, FS_CardinalityType DEF Throttle!ThrottleAssumption
  <1>4. Throttle!Cardinality(T) <= k
    <2> DEFINE f == [i \in 1 .. k |-> Throttle!Entry(pointer + i - 1)]
    <2>1. f \in [1 .. k -> T]
      <3> SUFFICES ASSUME NEW i \in 1 .. k PROVE Throttle!Entry(pointer + i - 1) \in T  OBVIOUS
      <3>1. pointer + i - 1 \in pointer .. pointer + k - 1  BY <1>1
      <3> QED  BY <3>1
    <2>2. \A e \in T : \E i \in 1 .. k : f[i] = e
      <3> SUFFICES ASSUME NEW p \in pointer .. pointer + k - 1
                   PROVE  \E i \in 1 .. k : f[i] = Throttle!Entry(p)
        OBVIOUS
      <3>1. p - pointer + 1 \in 1 .. k /\ pointer + (p - pointer + 1) - 1 = p  BY <1>1
      <3> QED  BY <3>1
    <2>3. f \in Surjection(1 .. k, T)
      <3> HIDE DEF f, T
      <3> QED  BY <2>1, <2>2, Fun_IsSurj
    <2>4. IsFiniteSet(1 .. k) /\ Throttle!Cardinality(1 .. k) = k
      BY <1>1, SameSizes, FS_Interval
    <2> HIDE DEF f, T
    <2> QED  BY <2>3, <2>4, SameSizes, FS_Surjection
  <1>5. Throttle!Listed(k) = first \union T  BY DEF Throttle!Listed
  <1> HIDE DEF T
  <1>6. CASE current = None
    <2>1. Throttle!Listed(k) = T  BY <1>5, <1>6
    <2> QED  BY <1>1, <1>2, <1>3, <1>4, <2>1
  <1>7. CASE current # None
    <2>1. Throttle!Listed(k) = T \union {current} /\ current \in Vehicles
      BY <1>5, <1>7 DEF TurnType
    <2>2. Throttle!Cardinality(Throttle!Listed(k)) \in {Throttle!Cardinality(T),
          Throttle!Cardinality(T) + 1}
      BY <1>3, <2>1, SameSizes, FS_AddElement
    <2> QED  BY <1>1, <1>2, <1>3, <1>4, <2>1, <2>2
  <1> QED  BY <1>6, <1>7

\* The loop looks at all subscriptions, or at enough to fill the list.
LEMMA LookedType ==
    ASSUME TurnType, Throttle!ThrottleAssumption
    PROVE  /\ Throttle!Looked \in 0 .. Len(subscriptions)
           /\ Throttle!Looked = Len(subscriptions) \/ Throttle!Looked >= QuerySlots - 1
  <1> DEFINE n == Len(subscriptions)
             Ends(k) == k = n \/ Throttle!Cardinality(Throttle!Listed(k)) >= QuerySlots
             T == {k \in 0 .. n : Ends(k)}
              Is(k) == /\ Ends(k)
                       /\ \A j \in 0 .. k - 1 :
                             Throttle!Cardinality(Throttle!Listed(j)) < QuerySlots
  <1>1. n \in Nat /\ QuerySlots \in Nat
    BY LenProperties DEF TurnType, Throttle!ThrottleAssumption
  <1>2. n \in T /\ T \subseteq Nat  BY <1>1
  <1>3. PICK m \in T : \A k \in T : m <= k
    <2> HIDE DEF T
    <2> QED  BY <1>2, LeastNatural
  <1>4. m \in 0 .. n /\ Is(m)
    <2> SUFFICES ASSUME NEW j \in 0 .. m - 1
                          PROVE Throttle!Cardinality(Throttle!Listed(j)) < QuerySlots
      BY <1>3
    <2>1. j \in 0 .. n /\ ~(m <= j) /\ m \in 0 .. n  BY <1>1, <1>3
    <2>2. ~Ends(j)  BY <2>1, <1>3
    <2>3. Throttle!Cardinality(Throttle!Listed(j)) \in Nat  BY <2>1, ListedType
    <2> QED  BY <1>1, <2>2, <2>3
  <1>5. Throttle!Looked = CHOOSE k \in 0 .. n : Is(k)  BY DEF Throttle!Looked
  <1>6. Throttle!Looked \in 0 .. n /\ Is(Throttle!Looked)
    <2> HIDE DEF Is, n
    <2> QED  BY <1>4, <1>5
  <1>7. Throttle!Looked # n => Throttle!Looked >= QuerySlots - 1
    <2> SUFFICES ASSUME Throttle!Looked # n PROVE Throttle!Looked >= QuerySlots - 1  OBVIOUS
    <2>1. Throttle!Cardinality(Throttle!Listed(Throttle!Looked)) >= QuerySlots  BY <1>6
    <2>2. Throttle!Cardinality(Throttle!Listed(Throttle!Looked)) \in Nat
            /\ Throttle!Cardinality(Throttle!Listed(Throttle!Looked)) <= Throttle!Looked + 1
      BY <1>6, ListedType
    <2> QED  BY <1>1, <1>6, <2>1, <2>2
  <1> QED  BY <1>6, <1>7

LEMMA PressAsked ==
    ASSUME AskedInv, Throttle!ThrottleAssumption, Throttle!PressButton
    PROVE  AskedInv'
  <1> DEFINE r == Throttle!Switch(box, ~button)
             info == [asked[box] EXCEPT !.function = ~button]
  <1>1. /\ button' = ~button /\ requests' = requests \o Throttle!FromButton(box, button, ~button)
        /\ Throttle!Act(box, FALSE) /\ Throttle!Ask(box, info)
        /\ UNCHANGED <<box, dial, rows, heard, layout, answers>>
    BY DEF Throttle!PressButton, Throttle!Station
  <1>2. button \in BOOLEAN /\ box \in Vehicles /\ asked \in [Vehicles -> Throttle!Infos]
        /\ asked[box] \in Throttle!Infos /\ ~button # button /\ 0 \in 0..MaxSpeed
        /\ dial \in Throttle!Dial
    BY DEF AskedInv, CabInv, Throttle!ThrottleAssumption
  <1>3. requests' = requests \o <<r>>
    <2>1. Throttle!FromButton(box, button, ~button) = <<r>>
      BY <1>2, Zenon DEF Throttle!FromButton
    <2> QED  BY <1>1, <2>1
  <1>4. r.kind = "switch" /\ r.vehicle = box /\ r.function = ~button  BY DEF Throttle!Switch
  <1>5. info \in Throttle!Infos /\ info.function = ~button  BY <1>2 DEF Throttle!Infos
  <1>6. layout[box] = asked[box] => Applied(r, layout[box]) = info  BY <1>4 DEF Applied
  <1> HIDE DEF info
  <1>7. asked'[box] = info  BY <1>1, <1>2 DEF Throttle!Ask
  <1>8. r \in Orders'
    BY <1>2, <1>5, <1>7 DEF Orders, Throttle!Switch, Throttle!Directions
  <1>9. button' \in BOOLEAN  BY <1>1, Zenon
  <1> HIDE DEF r
  <1>10. dial' \in Throttle!Dial  BY <1>1, <1>2
  <1> QED  BY <1>1, <1>3, <1>4, <1>5, <1>6, <1>8, <1>9, <1>10, CommandAsked

LEMMA HandsetAsked ==
    ASSUME AskedInv, Throttle!ThrottleAssumption, Throttle!Handset
    PROVE  AskedInv'
  <1>1. PICK v \in Vehicles, info \in Throttle!Infos :
            /\ Throttle!Act(v, FALSE) /\ layout' = [layout EXCEPT ![v] = info]
            /\ Throttle!Ask(v, info)
            /\ answers' = Append(answers, [vehicle |-> v, info |-> info])
    BY DEF Throttle!Handset
  <1>2. UNCHANGED <<box, dial, button, rows, heard, requests>>
    BY DEF Throttle!Handset
  <1> DEFINE a == [vehicle |-> v, info |-> info]
  <1>3. /\ drives' \in 0..MaxDrives /\ rash' \in {rash, rash \union {v}}
        /\ Throttle!Busy(v) => v \in rash'
    BY <1>1 DEF Throttle!Act, AskedInv, CabInv, Throttle!ThrottleAssumption
  <1>4. /\ asked' \in [Vehicles -> Throttle!Infos] /\ asked'[v] = info
        /\ \A u \in Vehicles \ {v} : asked'[u] = asked[u] /\ layout'[u] = layout[u]
        /\ layout' \in [Vehicles -> Throttle!Infos] /\ layout'[v] = info
    BY <1>1 DEF Throttle!Ask, AskedInv, CabInv
  <1>5. /\ \A u \in Vehicles : wished[u] \subseteq wished'[u]
        /\ Throttle!DialOf(info) \in wished'[v]
        /\ wished' \in [Vehicles -> SUBSET Throttle!Dial]
    <2>1. Throttle!DialOf(info) \in Throttle!Dial
      BY DEF Throttle!Infos, Throttle!DialOf, Throttle!Dial
    <2> QED  BY <1>1, <2>1 DEF Throttle!Ask, AskedInv, CabInv
  <1>6. CabInv'  BY <1>2, <1>3, <1>4, <1>5 DEF AskedInv, CabInv
  <1>7. /\ requests \in Seq(Orders') /\ answers \in Seq(Tidings')
        /\ \A u \in Vehicles : Dials(u) \subseteq Dials(u)'
    BY <1>3, <1>4, <1>5, LineStays
  <1>8. a \in Tidings' /\ a.vehicle = v
    BY <1>4, <1>5 DEF Tidings, Dials
  <1>9. /\ answers' \in Seq(Tidings')
        /\ \A u \in Vehicles : Throttle!Busy(u) \/ u = v => Throttle!Busy(u)'
    <2> HIDE DEF a
    <2>1. answers' = Append(answers, a)  BY <1>1 DEF a
    <2>2. /\ answers' \in Seq(Tidings') /\ Len(answers) + 1 \in DOMAIN answers'
          /\ answers'[Len(answers) + 1] = a
          /\ \A i \in DOMAIN answers : i \in DOMAIN answers' /\ answers'[i] = answers[i]
      BY <1>7, <1>8, <2>1, AppendProperties, LenProperties
    <2> QED  BY <1>2, <1>8, <2>2 DEF Throttle!Busy
  <1>10. LineInv'  BY <1>2, <1>7, <1>9 DEF LineInv
  <1>11. \A u \in Vehicles \ {v} : AboutToDo(u) => AboutToDo(u)'
    BY <1>2, <1>4 DEF AboutToDo, Applied
  <1>12. DoneInv'  BY <1>3, <1>4, <1>11 DEF AskedInv, DoneInv
  <1>13. ShownInv'
    <2> SUFFICES ASSUME NEW u \in Vehicles
                 PROVE  IF u \in heard
                        THEN /\ Throttle!DialOf(rows[u]) \in Dials(u)'
                             /\ u \in rash' \/ rows[u] = asked'[u] \/ Throttle!Busy(u)'
                        ELSE rows[u] = Throttle!DefaultInfo
      BY <1>2 DEF ShownInv
    <2> QED  BY <1>3, <1>4, <1>7, <1>9 DEF AskedInv, ShownInv
  <1>14. LaidInv'
    <2> SUFFICES ASSUME NEW u \in Vehicles PROVE Throttle!DialOf(layout'[u]) \in Dials(u)'
      BY DEF LaidInv
    <2>1. CASE u = v  BY <2>1, <1>4, <1>5 DEF Dials
    <2>2. CASE u # v  BY <2>2, <1>4, <1>7 DEF AskedInv, LaidInv
    <2> QED  BY <2>1, <2>2
  <1> QED  BY <1>6, <1>10, <1>12, <1>13, <1>14 DEF AskedInv

LEMMA PollAsked ==
    ASSUME AskedInv, TurnType, Throttle!ThrottleAssumption, Throttle!Poll
    PROVE  AskedInv'
  <1> DEFINE vs == Throttle!Listed(Throttle!Looked)
  <1>1. PICK order \in [1..Throttle!Cardinality(vs) -> vs] :
            requests' = requests \o [i \in DOMAIN order |-> Throttle!QueryOf(order[i])]
    BY DEF Throttle!Poll
  <1> DEFINE t == [i \in DOMAIN order |-> Throttle!QueryOf(order[i])]
  <1>2. UNCHANGED <<box, dial, button, rows, heard, layout, answers, asked, drives, wished, rash>>
    BY DEF Throttle!Poll, Throttle!Station, Throttle!People
  <1>3. vs \subseteq Vehicles /\ Throttle!Cardinality(vs) \in Nat
    BY LookedType, ListedType
  <1>4. \A v \in Vehicles : Throttle!QueryOf(v) \in Orders
    BY DEF Throttle!QueryOf, Orders, Throttle!Directions, Throttle!ThrottleAssumption
  <1>5. t \in Seq(Orders)
    <2> HIDE DEF vs
    <2>1. t \in [1..Throttle!Cardinality(vs) -> Orders]  BY <1>3, <1>4
    <2> QED  BY <1>3, <2>1, SeqDef
  <1>6. /\ Orders' = Orders /\ Tidings' = Tidings /\ \A v \in Vehicles : Dials(v)' = Dials(v)
    BY <1>2 DEF Orders, Tidings, Dials
  <1>7. requests' = requests \o t /\ requests \in Seq(Orders)  BY <1>1 DEF AskedInv, LineInv
  <1> HIDE DEF t
  <1>8. LineInv'  BY <1>2, <1>5, <1>6, <1>7, ConcatProperties DEF AskedInv, LineInv
  <1>9. \A v \in Vehicles : /\ AboutToDo(v) => AboutToDo(v)'
                            /\ Throttle!Busy(v) => Throttle!Busy(v)'
    BY <1>2, <1>5, <1>7, MoreRequests DEF Throttle!Busy
  <1>10. CabInv'  BY <1>2 DEF AskedInv, CabInv
  <1>11. DoneInv' /\ ShownInv' /\ LaidInv'
    BY <1>2, <1>6, <1>9 DEF AskedInv, DoneInv, ShownInv, LaidInv
  <1> QED  BY <1>8, <1>10, <1>11 DEF AskedInv

\* What a sequence without its head says of those that are not its head.
LEMMA BehindHead ==
    ASSUME NEW S, NEW s \in Seq(S), s # <<>>, NEW i \in 1 .. Len(s), i # 1
    PROVE  i - 1 \in 1 .. Len(Tail(s)) /\ Tail(s)[i - 1] = s[i]
           /\ i - 1 \in DOMAIN Tail(s) /\ Len(Tail(s)) = Len(s) - 1
  <1>1. /\ Len(s) \in Nat \ {0} /\ Tail(s) \in Seq(S) /\ Len(Tail(s)) = Len(s) - 1
        /\ \A j \in 1 .. Len(s) - 1 : Tail(s)[j] = s[j + 1]
    BY HeadTailProperties, EmptySeq, LenProperties
  <1>2. i - 1 \in 1 .. Len(s) - 1 /\ (i - 1) + 1 = i  BY <1>1
  <1>3. DOMAIN Tail(s) = 1 .. Len(s) - 1  BY <1>1, LenProperties
  <1> QED  BY <1>1, <1>2, <1>3

LEMMA ExecuteAsked ==
    ASSUME AskedInv, Throttle!Execute
    PROVE  AskedInv'
  <1> DEFINE r == Head(requests)
             v == r.vehicle
             a == [vehicle |-> v, info |-> layout'[v]]
  <1>1. /\ requests # <<>> /\ answers' = Append(answers, a) /\ requests' = Tail(requests)
        /\ UNCHANGED <<box, dial, button, rows, heard, asked, drives, wished, rash>>
        /\ layout' = CASE r.kind = "drive" -> [layout EXCEPT ![v].speed = r.speed,
                                                             ![v].direction = r.direction]
                       [] r.kind = "switch" -> [layout EXCEPT ![v].function = r.function]
                       [] r.kind = "query" -> layout
    BY DEF Throttle!Execute, Throttle!People
  <1>2. /\ requests \in Seq(Orders) /\ answers \in Seq(Tidings) /\ r \in Orders
        /\ Tail(requests) \in Seq(Orders) /\ r = requests[1] /\ 1 \in 1 .. Len(requests)
        /\ DOMAIN requests = 1 .. Len(requests) /\ DOMAIN answers = 1 .. Len(answers)
    BY <1>1, HeadTailProperties, EmptySeq, LenProperties DEF AskedInv, LineInv
  <1>3. /\ v \in Vehicles /\ r.kind \in {"drive", "switch", "query"} /\ r.function \in BOOLEAN
        /\ r.speed \in 0..MaxSpeed /\ r.direction \in Throttle!Directions
        /\ layout \in [Vehicles -> Throttle!Infos] /\ asked \in [Vehicles -> Throttle!Infos]
        /\ layout[v] \in Throttle!Infos
    BY <1>2 DEF Orders, AskedInv, CabInv
  <1>4. layout' = [layout EXCEPT ![v] = Applied(r, layout[v])]
    BY <1>1, <1>3 DEF Applied, Throttle!Infos
  <1>5. Applied(r, layout[v]) \in Throttle!Infos
    BY <1>3 DEF Applied, Throttle!Infos
  <1>6. /\ layout' \in [Vehicles -> Throttle!Infos] /\ layout'[v] = Applied(r, layout[v])
        /\ \A u \in Vehicles \ {v} : layout'[u] = layout[u]
    BY <1>3, <1>4, <1>5
  <1>7. Orders' = Orders /\ Tidings' = Tidings /\ \A u \in Vehicles : Dials(u)' = Dials(u)
    BY <1>1 DEF Orders, Tidings, Dials
  <1>8. v \notin rash => layout'[v] = asked[v]
    <2> SUFFICES ASSUME v \notin rash PROVE Applied(r, layout[v]) = asked[v]  BY <1>6
    <2>1. CASE layout[v] = asked[v]
      BY <2>1, <1>2, FaithfulIsDone DEF AskedInv
    <2>2. CASE layout[v] # asked[v]
      <3>1. PICK i \in 1 .. Len(requests) :
                /\ requests[i].vehicle = v /\ \A j \in 1 .. i - 1 : requests[j].vehicle # v
                /\ Applied(requests[i], layout[v]) = asked[v]
        BY <2>2, <1>3 DEF AskedInv, DoneInv, AboutToDo
      <3>2. i = 1
        <4>1. 1 \notin 1 .. i - 1  BY <3>1, <1>2
        <4> QED  BY <4>1
      <3> QED  BY <3>1, <3>2, <1>2
    <2> QED  BY <2>1, <2>2
  <1>9. Throttle!DialOf(layout'[v]) \in Dials(v)
    <2>1. Throttle!DialOf(layout[v]) \in Dials(v)  BY <1>3 DEF AskedInv, LaidInv
    <2>2. CASE r.kind = "drive"
      <3>1. [speed |-> r.speed, direction |-> r.direction] \in Dials(v)
        BY <2>2, <1>2 DEF Orders
      <3> QED  BY <2>2, <3>1, <1>3, <1>6 DEF Applied, Throttle!DialOf, Throttle!Infos
    <2>3. CASE r.kind = "switch"
      BY <2>1, <2>3, <1>3, <1>6 DEF Applied, Throttle!DialOf, Throttle!Infos
    <2>4. CASE r.kind = "query"  BY <2>1, <2>4, <1>6 DEF Applied
    <2> QED  BY <2>2, <2>3, <2>4, <1>3
  <1>10. a \in Tidings /\ a.vehicle = v  BY <1>3, <1>6, <1>8, <1>9 DEF Tidings
  <1>11. /\ answers' \in Seq(Tidings) /\ Len(answers) + 1 \in DOMAIN answers'
         /\ answers'[Len(answers) + 1] = a
         /\ \A i \in DOMAIN answers : i \in DOMAIN answers' /\ answers'[i] = answers[i]
    <2> HIDE DEF a
    <2> QED  BY <1>1, <1>2, <1>10, AppendProperties, LenProperties
  <1> HIDE DEF a
  <1>12. \A u \in Vehicles : Throttle!Busy(u) => Throttle!Busy(u)'
    <2>1. ASSUME NEW u, u = v PROVE Throttle!Busy(u)'
      BY <2>1, <1>10, <1>11 DEF Throttle!Busy
    <2>2. ASSUME NEW u, u # v, NEW i \in DOMAIN requests, requests[i].vehicle = u
          PROVE  Throttle!Busy(u)'
      <3>1. i # 1  BY <2>2, <1>2
      <3>2. i - 1 \in DOMAIN requests' /\ requests'[i - 1].vehicle = u
        BY <2>2, <3>1, <1>1, <1>2, BehindHead
      <3> QED  BY <3>2 DEF Throttle!Busy
    <2>3. ASSUME NEW u, NEW i \in DOMAIN answers, answers[i].vehicle = u PROVE Throttle!Busy(u)'
      BY <2>3, <1>11 DEF Throttle!Busy
    <2> QED  BY <2>1, <2>2, <2>3 DEF Throttle!Busy
  <1>13. ASSUME NEW u \in Vehicles \ {v}, AboutToDo(u) PROVE AboutToDo(u)'
    <2>1. PICK i \in 1 .. Len(requests) :
              /\ requests[i].vehicle = u /\ \A j \in 1 .. i - 1 : requests[j].vehicle # u
              /\ Applied(requests[i], layout[u]) = asked[u]
      BY <1>13 DEF AboutToDo
    <2>2. i # 1  BY <2>1, <1>2
    <2>3. i - 1 \in 1 .. Len(requests') /\ requests'[i - 1] = requests[i]
      BY <2>2, <1>1, <1>2, BehindHead
    <2>4. ASSUME NEW j \in 1 .. (i - 1) - 1 PROVE requests'[j].vehicle # u
      <3>1. j + 1 \in 1 .. i - 1 /\ j + 1 \in 1 .. Len(requests) /\ j + 1 # 1
            /\ (j + 1) - 1 = j
        BY <1>2, <2>1
      <3>2. Tail(requests)[(j + 1) - 1] = requests[j + 1]  BY <3>1, <1>1, <1>2, BehindHead
      <3> QED  BY <3>1, <3>2, <2>1, <1>1
    <2>5. Applied(requests'[i - 1], layout'[u]) = asked'[u]  BY <2>1, <2>3, <1>1, <1>6
    <2> QED  BY <2>1, <2>3, <2>4, <2>5 DEF AboutToDo, Applied
  <1> HIDE DEF r, v
  <1>14. LineInv'  BY <1>1, <1>2, <1>7, <1>11 DEF LineInv
  <1>15. CabInv'  BY <1>1, <1>6 DEF AskedInv, CabInv
  <1>16. DoneInv'
    <2> SUFFICES ASSUME NEW u \in Vehicles \ rash PROVE layout'[u] = asked[u] \/ AboutToDo(u)'
      BY <1>1 DEF DoneInv
    <2>1. CASE u = v  BY <2>1, <1>8
    <2>2. CASE u # v  BY <2>2, <1>6, <1>13 DEF AskedInv, DoneInv
    <2> QED  BY <2>1, <2>2
  <1>17. ShownInv'  BY <1>1, <1>7, <1>12 DEF AskedInv, ShownInv
  <1>18. LaidInv'
    <2> SUFFICES ASSUME NEW u \in Vehicles PROVE Throttle!DialOf(layout'[u]) \in Dials(u)
      BY <1>7 DEF LaidInv
    <2>1. CASE u = v  BY <2>1, <1>9
    <2>2. CASE u # v  BY <2>2, <1>6 DEF AskedInv, LaidInv
    <2> QED  BY <2>1, <2>2
  <1> QED  BY <1>14, <1>15, <1>16, <1>17, <1>18 DEF AskedInv

LEMMA ReceiveAsked ==
    ASSUME AskedInv, Throttle!ThrottleAssumption, Throttle!Receive
    PROVE  AskedInv'
  <1> DEFINE a == Head(answers)
             v == a.vehicle
  <1>1. /\ answers # <<>> /\ rows' = [rows EXCEPT ![v] = a.info]
        /\ heard' = heard \union {v} /\ answers' = Tail(answers)
        /\ UNCHANGED <<box, layout, asked, drives, wished, rash>>
        /\ \/ v = box /\ Throttle!Follow(box, a.info)
           \/ v # box /\ UNCHANGED <<dial, button, requests>>
    BY DEF Throttle!Receive, Throttle!IsShown, Throttle!People
  <1>2. /\ requests \in Seq(Orders) /\ answers \in Seq(Tidings) /\ a \in Tidings
        /\ Tail(answers) \in Seq(Tidings) /\ a = answers[1]
        /\ DOMAIN answers = 1 .. Len(answers)
    BY <1>1, HeadTailProperties, EmptySeq, LenProperties DEF AskedInv, LineInv
  <1>3. /\ v \in Vehicles /\ a.info \in Throttle!Infos
        /\ Throttle!DialOf(a.info) \in Dials(v) /\ (v \in rash \/ a.info = asked[v])
        /\ rows \in [Vehicles -> Throttle!Infos]
    BY <1>2 DEF Tidings, AskedInv, CabInv
  <1>4. Orders' = Orders /\ Tidings' = Tidings /\ \A u \in Vehicles : Dials(u)' = Dials(u)
    BY <1>1 DEF Orders, Tidings, Dials
  <1>5. Throttle!DialOf(a.info) \in Throttle!Dial /\ a.info.function \in BOOLEAN
    BY <1>3 DEF Throttle!Infos, Throttle!DialOf, Throttle!Dial
  <1>6. CabInv'
    BY <1>1, <1>3, <1>5 DEF AskedInv, CabInv, Throttle!Follow
  <1>7. \E t \in Seq(Orders) : requests' = requests \o t
    <2>1. CASE v = box /\ Throttle!Follow(box, a.info)
      <3> DEFINE s == Throttle!FromDial(box, dial, Throttle!DialOf(a.info))
                 t == s \o Throttle!FromButton(box, button, a.info.function)
      <3>1. s \in Seq(Orders) /\ Throttle!FromButton(box, button, a.info.function) \in Seq(Orders)
        BY <2>1, <1>1, <1>3, <1>4, <1>5, <1>6, SentIsOrder
      <3>2. t \in Seq(Orders)
        <4> HIDE DEF s
        <4> QED  BY <3>1, ConcatProperties
      <3> QED  BY <2>1, <3>2 DEF Throttle!Follow
    <2>2. CASE v # box /\ UNCHANGED <<dial, button, requests>>
      <3>1. requests' = requests \o <<>>  BY <2>2, <1>2, ConcatEmptySeq
      <3> QED  BY <3>1, EmptySeq
    <2> QED  BY <1>1, <2>1, <2>2
  <1>8. PICK t \in Seq(Orders) : requests' = requests \o t  BY <1>7
  <1>9. LineInv'  BY <1>1, <1>2, <1>4, <1>8, ConcatProperties DEF LineInv
  <1>10. /\ \A u : AboutToDo(u) => AboutToDo(u)'
         /\ \A i \in DOMAIN requests : i \in DOMAIN requests' /\ requests'[i] = requests[i]
    BY <1>1, <1>2, <1>8, MoreRequests
  <1>11. ASSUME NEW u, u # v, Throttle!Busy(u) PROVE Throttle!Busy(u)'
    <2>1. ASSUME NEW i \in DOMAIN answers, answers[i].vehicle = u PROVE Throttle!Busy(u)'
      <3>1. i # 1  BY <2>1, <1>2, <1>11
      <3>2. i - 1 \in DOMAIN answers' /\ answers'[i - 1].vehicle = u
        BY <2>1, <3>1, <1>1, <1>2, BehindHead
      <3> QED  BY <3>2 DEF Throttle!Busy
    <2>2. ASSUME NEW i \in DOMAIN requests, requests[i].vehicle = u PROVE Throttle!Busy(u)'
      BY <2>2, <1>10 DEF Throttle!Busy
    <2> QED  BY <2>1, <2>2, <1>11 DEF Throttle!Busy
  <1> HIDE DEF a, v
  <1>12. DoneInv'  BY <1>1, <1>10 DEF AskedInv, DoneInv
  <1>13. ShownInv'
    <2> SUFFICES ASSUME NEW u \in Vehicles
                 PROVE  IF u \in heard'
                        THEN /\ Throttle!DialOf(rows'[u]) \in Dials(u)
                             /\ u \in rash \/ rows'[u] = asked[u] \/ Throttle!Busy(u)'
                        ELSE rows'[u] = Throttle!DefaultInfo
      BY <1>1, <1>4 DEF ShownInv
    <2>1. CASE u = v  BY <2>1, <1>1, <1>3
    <2>2. CASE u # v
      <3>1. rows'[u] = rows[u] /\ (u \in heard' <=> u \in heard)  BY <2>2, <1>1, <1>3
      <3> QED  BY <2>2, <3>1, <1>11 DEF AskedInv, ShownInv
    <2> QED  BY <2>1, <2>2
  <1>14. LaidInv'  BY <1>1, <1>4 DEF AskedInv, LaidInv
  <1> QED  BY <1>6, <1>9, <1>12, <1>13, <1>14 DEF AskedInv

LEMMA AheadRange ==
    ASSUME NEW n \in Nat \ {0}, NEW p \in 0 .. n - 1, NEW i \in 1 .. n
    PROVE  (IF i - 1 >= p THEN i - 1 - p ELSE i - 1 - p + n) \in 0 .. n - 1
  OBVIOUS

LEMMA GoesRound ==
    ASSUME NEW n \in Nat \ {0}, NEW p \in 0 .. n - 1, NEW k \in 0 .. n
    PROVE  (p + k) % n = IF p + k < n THEN p + k ELSE p + k - n
  <1> DEFINE a == p + k
  <1>1. a \in 0 .. 2 * n - 1  OBVIOUS
  <1> HIDE DEF a
  <1>2. a % n = IF a < n THEN a ELSE a - n  BY <1>1, ModOnce
  <1> QED  BY <1>2 DEF a

LEMMA QuotientBound ==
    ASSUME NEW a \in Nat, NEW q \in Nat \ {0}, NEW w \in Nat, w * q <= a
    PROVE  w <= a \div q
  <1> DEFINE d == a \div q
  <1>1. d \in Int  OBVIOUS
  <1>2. a < d * q + q
    <2>1. a = q * d + (a % q)  OBVIOUS
    <2>2. a % q \in 0 .. q - 1  OBVIOUS
    <2> QED  BY <2>1, <2>2
  <1> HIDE DEF d
  <1>3. ASSUME w >= d + 1 PROVE FALSE
    <2>1. w * q >= (d + 1) * q  BY <1>1, <1>3
    <2>2. (d + 1) * q = d * q + q  BY <1>1
    <2> QED  BY <1>1, <1>2, <2>1, <2>2
  <1> QED  BY <1>1, <1>3 DEF d

\* How many entries the loop has to look at before it comes to the i-th one.
Ahead(i) == IF i - 1 >= pointer THEN i - 1 - pointer
            ELSE i - 1 - pointer + Len(subscriptions)

\* The longer a vehicle has waited, the sooner it is its turn.
WaitInv ==
    \A i \in 1 .. Len(subscriptions) :
        waits[subscriptions[i]] * (QuerySlots - 1) + Ahead(i) <= Len(subscriptions) - 1

TurnInv ==
    /\ TurnType /\ waits \in [Vehicles -> Nat]
    /\ \A i, j \in 1 .. Len(subscriptions) : subscriptions[i] = subscriptions[j] => i = j
    /\ WaitInv
    /\ \A v \in Vehicles :
           (\A i \in 1 .. Len(subscriptions) : subscriptions[i] # v) => waits[v] = 0

LEMMA TurnInit ==
    ASSUME Throttle!ThrottleAssumption, Throttle!Init
    PROVE  TurnInv
  <1>1. PICK named \in SUBSET Vehicles : subscriptions \in Throttle!SetToSeqs(named)
    BY DEF Throttle!Init
  <1> DEFINE n == Throttle!Cardinality(named)
  <1>2. n \in Nat  BY SameSizes, FS_Subset, FS_CardinalityType DEF Throttle!ThrottleAssumption
  <1>3. /\ subscriptions \in [1 .. n -> named]
        /\ \A i, j \in 1 .. n : i # j => subscriptions[i] # subscriptions[j]
    BY <1>1 DEF Throttle!SetToSeqs
  <1>4. subscriptions \in Seq(Vehicles) /\ Len(subscriptions) = n
    <2> HIDE DEF n
    <2>1. subscriptions \in [1 .. n -> Vehicles]  BY <1>3
    <2>2. subscriptions \in Seq(Vehicles)  BY <1>2, <2>1, SeqDef
    <2>3. Len(subscriptions) \in Nat /\ 1 .. Len(subscriptions) = 1 .. n
      BY <2>1, <2>2, LenProperties
    <2> QED  BY <1>2, <2>2, <2>3
  <1> HIDE DEF n
  <1>5. pointer = 0 /\ current = None /\ waits = [v \in Vehicles |-> 0]  BY DEF Throttle!Init
  <1>6. TurnType  BY <1>2, <1>4, <1>5, EmptySeq DEF TurnType
  <1>7. WaitInv
    <2> SUFFICES ASSUME NEW i \in 1 .. n
                 PROVE  waits[subscriptions[i]] * (QuerySlots - 1) + Ahead(i) <= n - 1
      BY <1>4 DEF WaitInv
    <2>1. subscriptions[i] \in Vehicles  BY <1>3
    <2>2. waits[subscriptions[i]] = 0 /\ Ahead(i) = i - 1  BY <1>2, <1>5, <2>1 DEF Ahead
    <2> QED  BY <1>2, <2>2 DEF Throttle!ThrottleAssumption
  <1> QED  BY <1>2, <1>3, <1>4, <1>5, <1>6, <1>7 DEF TurnInv

\* A new subscription comes last, and all others wait one entry longer at most.
LEMMA SubscribeTurn ==
    ASSUME TurnInv, Throttle!ThrottleAssumption, NEW v \in Vehicles,
           subscriptions' = Throttle!Subscribed(v),
           current' \in Vehicles \union {None}, UNCHANGED <<pointer, waits>>
    PROVE  TurnInv'
  <1> DEFINE n == Len(subscriptions)
             q == QuerySlots - 1
  <1>1. /\ n \in Nat /\ DOMAIN subscriptions = 1 .. n /\ pointer \in 0 .. n
        /\ q \in Nat /\ subscriptions \in Seq(Vehicles) /\ waits \in [Vehicles -> Nat]
    BY LenProperties DEF TurnInv, TurnType, Throttle!ThrottleAssumption
  <1>2. CASE \E i \in 1 .. n : subscriptions[i] = v
    <2>1. subscriptions' = subscriptions  BY <1>1, <1>2 DEF Throttle!Subscribed
    <2> QED  BY <2>1 DEF TurnInv, TurnType, WaitInv, Ahead
  <1>3. CASE \A i \in 1 .. n : subscriptions[i] # v
    <2>1. subscriptions' = Append(subscriptions, v)  BY <1>1, <1>3 DEF Throttle!Subscribed
    <2>2. /\ subscriptions' \in Seq(Vehicles) /\ subscriptions' # <<>>
          /\ Len(subscriptions') = n + 1 /\ subscriptions'[n + 1] = v
          /\ \A i \in 1 .. n : subscriptions'[i] = subscriptions[i]
      BY <1>1, <2>1, AppendProperties
    <2>3. waits[v] = 0  BY <1>3 DEF TurnInv
    <2>4. TurnType'  BY <1>1, <2>2 DEF TurnInv, TurnType
    <2>5. \A i \in 1 .. n : subscriptions[i] \in Vehicles  BY <1>1, ElementOfSeq
    <2>6. WaitInv'
      <3> SUFFICES ASSUME NEW i \in 1 .. n + 1
                   PROVE  waits[subscriptions'[i]] * q + Ahead(i)' <= n
        BY <1>1, <2>2 DEF WaitInv
      <3>1. CASE i = n + 1
        <4>1. Ahead(i)' = n - pointer  BY <3>1, <1>1, <2>2 DEF Ahead
        <4>2. waits[subscriptions'[i]] * q = 0  BY <3>1, <1>1, <2>2, <2>3
        <4> QED  BY <1>1, <4>1, <4>2
      <3>2. CASE i # n + 1
        <4>1. i \in 1 .. n  BY <3>2, <1>1
        <4> DEFINE w == waits[subscriptions[i]] * q
        <4>2. w + Ahead(i) <= n - 1  BY <4>1 DEF TurnInv, WaitInv
        <4>3. Ahead(i)' \in {Ahead(i), Ahead(i) + 1} /\ Ahead(i) \in Int
          BY <1>1, <2>2, <4>1 DEF Ahead
        <4>4. w \in Nat
          <5>1. waits[subscriptions[i]] \in Nat  BY <1>1, <2>5, <4>1
          <5> QED  BY <1>1, <5>1
        <4>5. subscriptions'[i] = subscriptions[i]  BY <2>2, <4>1
        <4> HIDE DEF w
        <4>6. w + Ahead(i)' <= n  BY <1>1, <4>2, <4>3, <4>4
        <4> QED  BY <4>5, <4>6 DEF w
      <3> QED  BY <3>1, <3>2
    <2>7. \A i, j \in 1 .. n + 1 : subscriptions'[i] = subscriptions'[j] => i = j
      <3> SUFFICES ASSUME NEW i \in 1 .. n + 1, NEW j \in 1 .. n + 1,
                          subscriptions'[i] = subscriptions'[j]
                   PROVE  i = j
        OBVIOUS
      <3>1. i \in 1 .. n \/ i = n + 1  BY <1>1
      <3>2. j \in 1 .. n \/ j = n + 1  BY <1>1
      <3>3. \A a, b \in 1 .. n : subscriptions[a] = subscriptions[b] => a = b  BY DEF TurnInv
      <3> QED  BY <1>3, <2>2, <3>1, <3>2, <3>3
    <2>8. \A u \in Vehicles :
             (\A i \in 1 .. n + 1 : subscriptions'[i] # u) => waits[u] = 0
      <3>1. \A i \in 1 .. n : i \in 1 .. n + 1  BY <1>1
      <3> QED  BY <2>2, <3>1 DEF TurnInv
    <2> QED  BY <1>1, <2>2, <2>4, <2>6, <2>7, <2>8 DEF TurnInv
  <1> QED  BY <1>2, <1>3

\* A poll queries a vehicle, or goes on towards it.
LEMMA PollTurn ==
    ASSUME TurnInv, Throttle!ThrottleAssumption, Throttle!Poll
    PROVE  TurnInv'
  <1> DEFINE n  == Len(subscriptions)
             q  == QuerySlots - 1
             k  == Throttle!Looked
             vs == Throttle!Listed(k)
  <1>1. /\ UNCHANGED <<subscriptions, current>> /\ pointer' = Throttle!PointerAfter(k)
        /\ waits' = [v \in Vehicles |->
                         IF v \in vs \/ \A i \in DOMAIN subscriptions : subscriptions[i] # v
                         THEN 0 ELSE waits[v] + 1]
    BY DEF Throttle!Poll
  <1>2. /\ n \in Nat /\ DOMAIN subscriptions = 1 .. n /\ pointer \in 0 .. n
        /\ q \in Nat \ {0} /\ subscriptions \in Seq(Vehicles) /\ waits \in [Vehicles -> Nat]
        /\ TurnType /\ \A i \in 1 .. n : subscriptions[i] \in Vehicles
    BY LenProperties DEF TurnInv, TurnType, Throttle!ThrottleAssumption
  <1>3. k \in 0 .. n /\ (k = n \/ k >= q)  BY <1>2, LookedType
  <1>4. CASE subscriptions = <<>>
    <2>1. n = 0  BY <1>4, EmptySeq
    <2>2. pointer' = pointer  BY <1>1, <1>4 DEF Throttle!PointerAfter
    <2>3. \A v \in Vehicles : waits'[v] = 0  BY <1>1, <1>2, <2>1
    <2>4. waits' \in [Vehicles -> Nat]  BY <1>1, <1>2
    <2>5. TurnType'  BY <1>1, <1>2, <2>2 DEF TurnType
    <2> QED  BY <1>1, <2>1, <2>3, <2>4, <2>5 DEF TurnInv, WaitInv
  <1>5. CASE subscriptions # <<>>
    <2>1. n # 0 /\ pointer < n  BY <1>5, <1>2, EmptySeq DEF TurnType
    <2>2. pointer' = IF pointer + k < n THEN pointer + k ELSE pointer + k - n
      <3>1. pointer' = (pointer + k) % n  BY <1>1, <1>5 DEF Throttle!PointerAfter
      <3> HIDE DEF n, k
      <3>2. n \in Nat \ {0} /\ pointer \in 0 .. n - 1 /\ k \in 0 .. n  BY <1>2, <1>3, <2>1
      <3> QED  BY <3>1, <3>2, GoesRound
    <2>3. pointer' \in 0 .. n - 1
      <3> HIDE DEF n, k
      <3> QED  BY <1>2, <1>3, <2>1, <2>2
    <2>4. TurnType'  BY <1>1, <1>2, <2>3 DEF TurnType
    <2>5. waits' \in [Vehicles -> Nat]  BY <1>1, <1>2
    <2>6. \A v \in Vehicles : (\A i \in 1 .. n : subscriptions[i] # v) => waits'[v] = 0
      BY <1>1, <1>2
    <2>7. \A i \in 1 .. n : Ahead(i) < k => subscriptions[i] \in vs
      <3> SUFFICES ASSUME NEW i \in 1 .. n, Ahead(i) < k PROVE subscriptions[i] \in vs
        OBVIOUS
      <3> DEFINE p == pointer + Ahead(i)
      <3>1. p = IF i - 1 >= pointer THEN i - 1 ELSE i - 1 + n
        BY <1>2 DEF Ahead
      <3>2. p \in pointer .. pointer + k - 1 /\ p \in pointer .. pointer + n - 1
        <4>1. Ahead(i) \in Nat  BY <1>2, <2>1 DEF Ahead
        <4> HIDE DEF n, k
        <4> QED  BY <1>2, <1>3, <4>1
      <3>3. i = IF p < n THEN p + 1 ELSE p + 1 - n
        <4> HIDE DEF n, p
        <4> QED  BY <1>2, <3>1
      <3>4. Throttle!Entry(p) = subscriptions[i]
        <4> HIDE DEF p
        <4> QED  BY <1>2, <1>5, <3>2, <3>3, EntryAt
      <3> QED  BY <3>2, <3>4 DEF Throttle!Listed
    <2>8. WaitInv'
      <3> SUFFICES ASSUME NEW i \in 1 .. n
                   PROVE  waits'[subscriptions[i]] * q + Ahead(i)' <= n - 1
        BY <1>1 DEF WaitInv
      <3>1. subscriptions[i] \in Vehicles /\ waits[subscriptions[i]] \in Nat  BY <1>2
      <3>2. Ahead(i)' = IF i - 1 >= pointer' THEN i - 1 - pointer' ELSE i - 1 - pointer' + n
        BY <1>1 DEF Ahead
      <3>3. Ahead(i)' \in 0 .. n - 1
        <4> HIDE DEF n
        <4>1. n \in Nat \ {0} /\ pointer' \in 0 .. n - 1  BY <1>2, <2>1, <2>3
        <4> QED  BY <3>2, <4>1, AheadRange
      <3>4. CASE subscriptions[i] \in vs
        <4>1. waits'[subscriptions[i]] = 0  BY <3>4, <3>1, <1>1
        <4>2. waits'[subscriptions[i]] * q = 0  BY <4>1, <1>2
        <4> HIDE DEF n, q
        <4> QED  BY <1>2, <3>3, <4>2
      <3>5. CASE subscriptions[i] \notin vs
        <4> DEFINE w == waits[subscriptions[i]]
                   W == w * q
        <4>1. waits'[subscriptions[i]] = w + 1  BY <3>5, <3>1, <1>1, <1>2
        <4>2. ~(Ahead(i) < k)  BY <3>5, <2>7
        <4>3. Ahead(i) = IF i - 1 >= pointer THEN i - 1 - pointer ELSE i - 1 - pointer + n
          BY DEF Ahead
        <4>4. Ahead(i) \in 0 .. n - 1
          <5> HIDE DEF n
          <5> QED  BY <1>2, <2>1, <4>3
        <4>5. k >= q
          <5> HIDE DEF n, k, q
          <5> QED  BY <1>2, <1>3, <4>2, <4>4
        <4>6. Ahead(i)' = Ahead(i) - k
          <5> DEFINE A == Ahead(i)
          <5> HIDE DEF n, k
          <5>1. A \in 0 .. n - 1 /\ A >= k /\ k \in 0 .. n  BY <1>3, <4>2, <4>4
          <5>2. A = IF i - 1 >= pointer THEN i - 1 - pointer ELSE i - 1 - pointer + n
            BY <4>3
          <5> HIDE DEF A
          <5>3. CASE i - 1 >= pointer
            <6>1. A = i - 1 - pointer  BY <5>2, <5>3
            <6>2. pointer + k <= i - 1  BY <1>2, <5>1, <6>1
            <6>3. pointer' = pointer + k  BY <1>2, <5>1, <6>2, <2>2
            <6> QED  BY <1>2, <5>1, <6>1, <6>2, <6>3, <3>2 DEF A
          <5>4. CASE ~(i - 1 >= pointer)
            <6>1. A = i - 1 - pointer + n  BY <5>2, <5>4
            <6>2. CASE pointer + k < n
              <7>1. pointer' = pointer + k  BY <6>2, <2>2
              <7>2. ~(i - 1 >= pointer')  BY <1>2, <5>1, <5>4, <7>1
              <7> QED  BY <1>2, <5>1, <6>1, <7>1, <7>2, <3>2 DEF A
            <6>3. CASE ~(pointer + k < n)
              <7>1. pointer' = pointer + k - n  BY <6>3, <2>2
              <7>2. i - 1 >= pointer'  BY <1>2, <5>1, <6>1, <7>1
              <7> QED  BY <1>2, <5>1, <6>1, <7>1, <7>2, <3>2 DEF A
            <6> QED  BY <6>2, <6>3
          <5> QED  BY <5>3, <5>4
        <4>7. W + Ahead(i) <= n - 1  BY DEF TurnInv, WaitInv
        <4>8. w \in Nat /\ W \in Nat /\ (w + 1) * q = W + q  BY <1>2, <3>1
        <4> DEFINE A == Ahead(i)
        <4>9. (w + 1) * q + A - k <= n - 1
          <5> HIDE DEF k, q, n, W, w
          <5>1. A \in Int /\ k \in Int /\ q \in Int /\ n \in Int  BY <1>2, <1>3, <4>4
          <5> HIDE DEF A
          <5> QED  BY <4>5, <4>7, <4>8, <5>1 DEF A
        <4> QED  BY <4>1, <4>6, <4>9
      <3> QED  BY <3>4, <3>5
    <2> QED  BY <1>1, <2>4, <2>5, <2>6, <2>8 DEF TurnInv
  <1> QED  BY <1>4, <1>5

LEMMA NoneIsForgotten ==
    ASSUME TurnInv, Throttle!ThrottleAssumption
    PROVE  Throttle!NoVehicleForgotten
  <1> DEFINE n == Len(subscriptions)
             q == QuerySlots - 1
             N == Throttle!Cardinality(Vehicles)
  <1> SUFFICES ASSUME NEW v \in Vehicles PROVE waits[v] <= (N - 1) \div q
    BY DEF Throttle!NoVehicleForgotten
  <1>1. n \in Nat /\ subscriptions \in [1 .. n -> Vehicles] /\ q \in Nat \ {0} /\ N \in Nat
        /\ waits[v] \in Nat
    BY LenProperties, SameSizes, FS_CardinalityType
    DEF TurnInv, TurnType, Throttle!ThrottleAssumption
  <1>2. n <= N
    <2>1. \A i, j \in 1 .. n : subscriptions[i] = subscriptions[j] => i = j  BY DEF TurnInv
    <2> HIDE DEF n
    <2>2. IsFiniteSet(1 .. n) /\ Throttle!Cardinality(1 .. n) = n
      BY <1>1, SameSizes, FS_Interval
    <2>3. subscriptions \in Injection(1 .. n, Vehicles)  BY <1>1, <2>1, Fun_IsInj
    <2> QED  BY <2>2, <2>3, SameSizes, FS_Injection DEF Throttle!ThrottleAssumption
  <1>3. N >= 1
    <2>1. N # 0  BY SameSizes, FS_EmptySet DEF Throttle!ThrottleAssumption
    <2> QED  BY <1>1, <2>1
  <1>4. waits[v] * q <= N - 1
    <2>1. CASE \A i \in 1 .. n : subscriptions[i] # v
      <3>1. waits[v] = 0  BY <2>1 DEF TurnInv
      <3> QED  BY <1>1, <1>3, <3>1
    <2>2. ASSUME NEW i \in 1 .. n, subscriptions[i] = v PROVE waits[v] * q <= N - 1
      <3>1. waits[v] * q + Ahead(i) <= n - 1  BY <2>2 DEF TurnInv, WaitInv
      <3>2. Ahead(i) \in Nat
        <4>1. pointer \in 0 .. n  BY DEF TurnInv, TurnType
        <4> QED  BY <1>1, <4>1 DEF Ahead
      <3> DEFINE W == waits[v] * q
                 A == Ahead(i)
      <3>3. W \in Nat  BY <1>1
      <3> HIDE DEF W, A, n, N
      <3>4. W <= N - 1  BY <1>1, <1>2, <3>1, <3>2, <3>3 DEF A, W
      <3> QED  BY <3>4 DEF W
    <2> QED  BY <2>1, <2>2
  <1> HIDE DEF N, q
  <1>5. N - 1 \in Nat  BY <1>1, <1>3
  <1> QED  BY <1>1, <1>4, <1>5, QuotientBound

-----------------------------------------------------------------------------
(* The driving of vehicles: the theorems.                                    *)

CommandInv == AskedInv /\ TurnInv

LEMMA CommandInit ==
    ASSUME Throttle!ThrottleAssumption, Throttle!Init
    PROVE  CommandInv
  <1>1. 0 \in 0..MaxSpeed /\ 0 \in 0..MaxDrives  BY DEF Throttle!ThrottleAssumption
  <1>2. Throttle!DefaultInfo \in Throttle!Infos
    BY <1>1 DEF Throttle!Infos, Throttle!DefaultInfo, Throttle!Directions
  <1>3. CabInv
    <2>1. \A info \in Throttle!Infos : Throttle!DialOf(info) \in Throttle!Dial
      BY DEF Throttle!Infos, Throttle!DialOf, Throttle!Dial
    <2> QED
      BY <1>1, <1>2, <2>1 DEF Throttle!Init, CabInv, Throttle!Dial, Throttle!Directions
  <1>4. \A v \in Vehicles : Dials(v) = {Throttle!DialOf(layout[v])}
    BY DEF Throttle!Init, Dials
  <1>5. LineInv /\ LaidInv /\ DoneInv /\ ShownInv
    BY <1>4, EmptySeq DEF Throttle!Init, LineInv, LaidInv, DoneInv, ShownInv
  <1> QED  BY <1>3, <1>5, TurnInit DEF CommandInv, AskedInv

LEMMA CommandStep ==
    ASSUME CommandInv, [Throttle!Next]_Throttle!vars, Throttle!ThrottleAssumption
    PROVE  CommandInv'
  <1> USE DEF CommandInv
  <1>1. ASSUME UNCHANGED <<subscriptions, pointer, waits>>,
               current' \in Vehicles \union {None}
        PROVE  TurnInv'
    BY <1>1 DEF TurnInv, TurnType, WaitInv, Ahead
  <1>2. box \in Vehicles /\ current \in Vehicles \union {None}
    BY DEF AskedInv, CabInv, TurnInv, TurnType
  <1>3. ASSUME NEW v \in Vehicles, Throttle!ChooseVehicle(v) PROVE CommandInv'
    <2>1. subscriptions' = Throttle!Subscribed(v) /\ current' = v /\ UNCHANGED <<pointer, waits>>
      BY <1>3 DEF Throttle!ChooseVehicle
    <2> QED  BY <1>3, <2>1, ChooseAsked, SubscribeTurn
  <1>4. CASE Throttle!TurnDial
    BY <1>1, <1>2, <1>4, TurnAsked DEF Throttle!TurnDial, Throttle!Polling
  <1>5. CASE Throttle!PressButton
    BY <1>1, <1>2, <1>5, PressAsked DEF Throttle!PressButton, Throttle!Polling
  <1>6. CASE Throttle!Handset
    BY <1>1, <1>2, <1>6, HandsetAsked DEF Throttle!Handset, Throttle!Polling
  <1>7. CASE Throttle!Poll  BY <1>7, PollAsked, PollTurn DEF TurnInv
  <1>8. CASE Throttle!Execute
    BY <1>1, <1>2, <1>8, ExecuteAsked DEF Throttle!Execute, Throttle!Polling
  <1>9. CASE Throttle!Receive
    BY <1>1, <1>2, <1>9, ReceiveAsked DEF Throttle!Receive, Throttle!Follow, Throttle!Polling
  <1>10. CASE UNCHANGED Throttle!vars
    <2>1. dial' \in Throttle!Dial /\ drives' \in 0..MaxDrives
      BY <1>10 DEF Throttle!vars, AskedInv, CabInv
    <2>2. AskedInv'  BY <1>10, <2>1, SameAsked DEF Throttle!vars
    <2> QED  BY <1>1, <1>2, <1>10, <2>2 DEF Throttle!vars
  <1> QED  BY <1>3, <1>4, <1>5, <1>6, <1>7, <1>8, <1>9, <1>10 DEF Throttle!Next

LEMMA CommandsInvariant ==
    ASSUME Throttle!ThrottleAssumption
    PROVE  Throttle!Spec => []CommandInv
  <1>1. Throttle!Init => CommandInv  BY CommandInit
  <1>2. CommandInv /\ [Throttle!Next]_Throttle!vars => CommandInv'  BY CommandStep
  <1> QED  BY <1>1, <1>2, PTL DEF Throttle!Spec

\* The views, the queues and the records of all vehicles keep their types.
THEOREM ThrottleTypes ==
    ASSUME Throttle!ThrottleAssumption
    PROVE  Throttle!Spec => []Throttle!TypeOK
  <1>1. CommandInv => Throttle!TypeOK
    <2> SUFFICES ASSUME CommandInv PROVE Throttle!TypeOK  OBVIOUS
    <2> DEFINE R == [kind : {"drive", "switch", "query"}, vehicle : Vehicles,
                     speed : 0..MaxSpeed, direction : Throttle!Directions, function : BOOLEAN]
               A == [vehicle : Vehicles, info : Throttle!Infos]
    <2>1. Orders \subseteq R /\ Tidings \subseteq A  BY DEF Orders, Tidings
    <2>2. requests \in Seq(R) /\ answers \in Seq(A)
      <3> HIDE DEF R, A
      <3> QED  BY <2>1, SeqMonotonic DEF CommandInv, AskedInv, LineInv
    <2> QED  BY <2>2 DEF CommandInv, AskedInv, CabInv, TurnInv, TurnType, Throttle!TypeOK
  <1> QED  BY <1>1, CommandsInvariant, PTL

\* However people act on vehicles and choose them, while commands and answers are under
\* way: no vehicle takes a speed and direction nobody asked of it, but for the stop of one
\* chosen before anything was known of it; and once all is quiet each does what it was
\* asked last, unless people acted on it while something about it was under way.
THEOREM DoneAsAsked ==
    ASSUME Throttle!ThrottleAssumption
    PROVE  Throttle!Spec => []Throttle!VehiclesDoAsAsked
  <1>1. CommandInv => Throttle!VehiclesDoAsAsked
    <2> SUFFICES ASSUME CommandInv, NEW v \in Vehicles
                 PROVE  /\ \/ Throttle!DialOf(layout[v]) \in wished[v]
                           \/ /\ v \in rash
                              /\ Throttle!DialOf(layout[v]) = Throttle!DialOf(Throttle!DefaultInfo)
                        /\ Throttle!Quiet /\ v \notin rash => layout[v] = asked[v]
      BY DEF Throttle!VehiclesDoAsAsked
    <2>1. Throttle!DialOf(layout[v]) \in Dials(v)  BY DEF CommandInv, AskedInv, LaidInv
    <2>2. Throttle!Quiet => ~Throttle!Busy(v)
      <3>1. DOMAIN <<>> = {}  OBVIOUS
      <3> QED  BY <3>1 DEF Throttle!Quiet, Throttle!Busy
    <2> QED  BY <2>1, <2>2, QuietIsDone DEF CommandInv, Dials
  <1> QED  BY <1>1, CommandsInvariant, PTL

\* A vehicle that was driven is polled within one round of the list, however the list grows.
THEOREM NoneForgotten ==
    ASSUME Throttle!ThrottleAssumption
    PROVE  Throttle!Spec => []Throttle!NoVehicleForgotten
  <1>1. CommandInv => Throttle!NoVehicleForgotten  BY NoneIsForgotten DEF CommandInv
  <1> QED  BY <1>1, CommandsInvariant, PTL

-----------------------------------------------------------------------------
(* Automation plan: rows and the control they hear.                          *)

\* Events the model observes, connected to the control c once and to no other.
Heeding(c) ==
    {r \in Document!Row : /\ r.observed /\ r.action # "unobserved"
                 /\ \A d \in Devices : r.links[d] = IF d = c THEN 1 ELSE 0}

Controls == Devices \union {None}
Names    == FileNames \union {None}

\* A row that hears nobody is connected.
LEMMA LinkedHeeds ==
    ASSUME Document!DocumentAssumption, NEW c \in Controls, NEW u \in Document!Row, u.observed,
           u.action # "unobserved", \A d \in Devices : u.links[d] = 0
    PROVE  Document!Linked(u, c) \in Heeding(c)
  <1>1. CASE c = None
    <2>1. Document!Linked(u, c) = u  BY <1>1 DEF Document!Linked
    <2>2. \A d \in Devices : d # c  BY <1>1 DEF Document!DocumentAssumption
    <2> QED  BY <2>1, <2>2 DEF Heeding
  <1>2. CASE c # None
    <2> DEFINE v == Document!Linked(u, c)
    <2>1. v = [u EXCEPT !.links[c] = @ + 1] /\ c \in Devices
      BY <1>2 DEF Document!Linked, Controls
    <2>2. /\ v \in Document!Row /\ v.observed /\ v.action # "unobserved"
          /\ \A d \in Devices : v.links[d] = IF d = c THEN 1 ELSE 0
      BY <2>1 DEF Document!Row
    <2> QED  BY <2>2 DEF Heeding
  <1> QED  BY <1>1, <1>2

LEMMA NewHeeds ==
    ASSUME Document!DocumentAssumption, NEW c \in Controls, NEW b \in BOOLEAN
    PROVE  Document!NewRow(b, c) \in Heeding(c)
  <1> DEFINE row == [observed |-> TRUE, action |-> IF b THEN "observed" ELSE "none",
                     links |-> [d \in Devices |-> 0]]
  <1>1. /\ row \in Document!Row /\ row.observed /\ row.action # "unobserved"
        /\ \A d \in Devices : row.links[d] = 0
    BY DEF Document!Row
  <1>2. Document!NewRow(b, c) = Document!Linked(row, c)  BY DEF Document!NewRow
  <1> HIDE DEF row
  <1> QED  BY <1>1, <1>2, LinkedHeeds

LEMMA MovedHeeds ==
    ASSUME Document!DocumentAssumption, NEW a \in Controls, NEW c \in Controls,
           NEW r \in Heeding(a)
    PROVE  Document!Linked(Document!Unlinked(r, a), c) \in Heeding(c)
  <1>1. r \in Document!Row /\ r.observed /\ r.action # "unobserved"
        /\ \A d \in Devices : r.links[d] = IF d = a THEN 1 ELSE 0
    BY DEF Heeding
  <1> DEFINE u == Document!Unlinked(r, a)
  <1>2. /\ u \in Document!Row /\ u.observed /\ u.action # "unobserved"
        /\ \A d \in Devices : u.links[d] = 0
    <2>1. CASE a = None
      <3>1. u = r  BY <2>1 DEF Document!Unlinked
      <3> QED  BY <1>1, <2>1, <3>1 DEF Document!DocumentAssumption
    <2>2. CASE a # None
      <3>1. u = [r EXCEPT !.links[a] = 0] /\ a \in Devices
        BY <2>2 DEF Document!Unlinked, Controls
      <3> QED  BY <1>1, <3>1 DEF Document!Row
    <2> QED  BY <2>1, <2>2
  <1> HIDE DEF u
  <1>3. Document!Linked(u, c) \in Heeding(c)  BY <1>2, LinkedHeeds
  <1> QED  BY <1>3 DEF u

\* The manager, but for its menu and its dialog.
Manager(w) ==
    w \in [fileName : Names, modified : BOOLEAN, rows : {w.rows}, stamp : Nat,
           recent : {w.recent}, dialog : {w.dialog}, device : Controls, available : BOOLEAN,
           control : Controls]

\* Each row hears the control the model has, which is that of its device.
HeardInv(w) ==
    /\ w.control = Document!Offered(w) /\ (w.available => w.device # None)
    /\ w.rows \in Seq(Heeding(w.control)) /\ Len(w.rows) <= MaxRows

\* What setControl() leaves alone.
SamePlan(w, v) ==
    /\ v.fileName = w.fileName /\ v.modified = w.modified /\ v.stamp = w.stamp
    /\ v.recent = w.recent /\ v.dialog = w.dialog

LEMMA ControlSetHeeds ==
    ASSUME Document!DocumentAssumption, NEW w, Manager(w), w.rows \in Seq(Heeding(w.control)),
           NEW c \in Controls
    PROVE  LET v == Document!ControlSet(w, c)
           IN  /\ Manager(v) /\ SamePlan(w, v) /\ v.control = c
               /\ v.device = w.device /\ v.available = w.available
               /\ v.rows \in Seq(Heeding(c)) /\ Len(v.rows) = Len(w.rows)
  <1>1. CASE w.control = c
    <2>1. Document!ControlSet(w, c) = w  BY <1>1 DEF Document!ControlSet
    <2> QED  BY <1>1, <2>1 DEF SamePlan
  <1>2. CASE w.control # c
    <2> DEFINE edited == [i \in DOMAIN w.rows |-> Document!Linked(Document!Unlinked(w.rows[i],
               w.control), c)]
    <2>1. Document!ControlSet(w, c) = [w EXCEPT !.control = c, !.rows = edited]
      BY <1>2 DEF Document!ControlSet
    <2>2. edited \in Seq(Heeding(c)) /\ Len(edited) = Len(w.rows)
      <3> DEFINE n == Len(w.rows)
      <3>1. n \in Nat /\ DOMAIN w.rows = 1 .. n
              /\ \A i \in 1 .. n : w.rows[i] \in Heeding(w.control)
        BY LenProperties, ElementOfSeq
      <3>2. w.control \in Controls  BY DEF Manager
      <3> HIDE DEF n
      <3>3. edited \in [1 .. n -> Heeding(c)]  BY <1>2, <3>1, <3>2, MovedHeeds
      <3>4. edited \in Seq(Heeding(c))  BY <3>1, <3>3, SeqDef
      <3> HIDE DEF edited
      <3>5. Len(edited) \in Nat /\ 1 .. Len(edited) = 1 .. n  BY <3>3, <3>4, LenProperties
      <3> QED  BY <3>1, <3>4, <3>5 DEF n
    <2> HIDE DEF edited
    <2> DEFINE v == [w EXCEPT !.control = c, !.rows = edited]
    <2>3. /\ v.control = c /\ v.rows = edited /\ v.device = w.device /\ v.available = w.available
          /\ SamePlan(w, v)
      BY DEF Manager, SamePlan
    <2>4. Manager(v)
      <3>1. c \in Controls  OBVIOUS
      <3> QED  BY <2>3, <3>1 DEF Manager, SamePlan
    <2> HIDE DEF v
    <2> QED  BY <2>1, <2>2, <2>3, <2>4 DEF v
  <1> QED  BY <1>1, <1>2

LEMMA DeviceSetHeeds ==
    ASSUME Document!DocumentAssumption, NEW w, Manager(w), HeardInv(w), NEW d \in Controls,
           NEW a \in BOOLEAN, d = None => ~a
    PROVE  LET v == Document!DeviceSet(w, d, a)
           IN  Manager(v) /\ HeardInv(v) /\ SamePlan(w, v)
  <1> DEFINE left == IF w.device \notin {None, d} THEN Document!ControlSet(w, None) ELSE w
             v    == [left EXCEPT !.device = d, !.available = a]
  <1>1. None \in Controls  BY DEF Controls
  <1>2. /\ Manager(left) /\ SamePlan(w, left) /\ left.rows \in Seq(Heeding(left.control))
        /\ Len(left.rows) <= MaxRows
        /\ left.control = IF w.device \notin {None, d} THEN None ELSE w.control
    <2>1. CASE w.device \notin {None, d}
      <3>1. left = Document!ControlSet(w, None)  BY <2>1
      <3> HIDE DEF left
      <3> QED  BY <1>1, <2>1, <3>1, ControlSetHeeds DEF HeardInv
    <2>2. CASE ~(w.device \notin {None, d})
      <3>1. left = w  BY <2>2
      <3> HIDE DEF left
      <3> QED  BY <2>2, <3>1 DEF HeardInv, SamePlan
    <2> QED  BY <2>1, <2>2
  <1> HIDE DEF left
  <1>3. /\ v.device = d /\ v.available = a /\ v.control = left.control /\ v.rows = left.rows
        /\ SamePlan(left, v)
    BY <1>2 DEF Manager, SamePlan
  <1>4. Manager(v)
    BY <1>2, <1>3 DEF Manager, SamePlan
  <1>5. SamePlan(w, v)  BY <1>2, <1>3 DEF SamePlan
  <1>6. Document!DeviceSet(w, d, a) = IF d = None THEN v
          ELSE Document!ControlSet(v, Document!Offered(v))
    BY DEF Document!DeviceSet, left
  <1> HIDE DEF v
  <1>7. CASE d = None
    <2>1. Document!Offered(v) = None  BY <1>3, <1>7 DEF Document!Offered
    <2>2. v.control = None
      <3>1. CASE w.device = None  BY <3>1, <1>2, <1>3, <1>7 DEF HeardInv, Document!Offered
      <3>2. CASE w.device # None  BY <3>2, <1>2, <1>3, <1>7
      <3> QED  BY <3>1, <3>2
    <2> QED  BY <1>2, <1>3, <1>4, <1>5, <1>6, <1>7, <2>1, <2>2 DEF HeardInv
  <1>8. CASE d # None
    <2> DEFINE u == Document!ControlSet(v, Document!Offered(v))
    <2>1. Document!Offered(v) \in Controls  BY <1>1, <1>3 DEF Document!Offered
    <2>2. /\ Manager(u) /\ SamePlan(v, u) /\ u.control = Document!Offered(v)
          /\ u.device = v.device /\ u.available = v.available
          /\ u.rows \in Seq(Heeding(u.control)) /\ Len(u.rows) = Len(v.rows)
      BY <1>2, <1>3, <1>4, <2>1, ControlSetHeeds
    <2> HIDE DEF u
    <2>3. Len(u.rows) <= MaxRows  BY <1>2, <1>3, <2>2
    <2>4. HeardInv(u)  BY <1>3, <1>8, <2>2, <2>3 DEF HeardInv, Document!Offered
    <2> QED  BY <1>5, <1>6, <1>8, <2>2, <2>4 DEF SamePlan, u
  <1> QED  BY <1>7, <1>8

-----------------------------------------------------------------------------
(* Automation plan: files, and the dialogs an operation goes through.        *)

Disk(f)   == f \in [FileNames -> Document!Plan \union {None, Damaged}]
Stamps(f) == {f[n].stamp : n \in Document!Intact(f)}

\* A stored under this name that counts as saved is what is in the file.
Saved(w, f, name) ==
    ~w.modified => /\ name = None => w.stamp = 0
                   /\ name \in Document!Intact(f) => f[name].stamp = w.stamp

\* The name the stored has once the dialog is cancelled.
NameOf(w) == IF w.dialog # None /\ w.dialog.op = "saveAs" THEN w.dialog.old ELSE w.fileName

\* A dialog belongs to an operation that got there; one about unsaved changes, or
\* for the name of a stored that has none, to a modified stored.
Pending(w, d) ==
    /\ d = Document!Dialog(d.kind, d.op, d.name, d.old) /\ d.op \in Document!Operations
         /\ d.old \in Names
    /\ d.kind \in {"ask", "pickSave"} /\ d.op # "saveAs" => w.modified
    /\ d.kind = "ask" => d.op \in {"new", "open"}
    /\ d.kind = "pickOpen" => d.op = "open"
    /\ d.op = "saveAs" => d.name = None

\* What every step of an operation leaves.
Fine(w, f) ==
    /\ Manager(w) /\ HeardInv(w) /\ Disk(f) /\ Saved(w, f, NameOf(w))
    /\ w.dialog # None => Pending(w, w.dialog)

\* w differs from v in name, modification, menu or dialog only.
SameModel(w, v) ==
    /\ v.rows = w.rows /\ v.stamp = w.stamp /\ v.device = w.device
    /\ v.available = w.available /\ v.control = w.control

LEMMA SameModelHeard ==
    ASSUME NEW w, NEW v, HeardInv(w), SameModel(w, v)
    PROVE  HeardInv(v)
  BY DEF HeardInv, SameModel, Document!Offered

LEMMA ClosedIs ==
    ASSUME NEW w, Manager(w)
    PROVE  /\ Manager(Document!Closed(w)) /\ SameModel(w, Document!Closed(w))
                /\ Document!Closed(w).dialog = None
           /\ Document!Closed(w).fileName = w.fileName
                /\ Document!Closed(w).modified = w.modified
           /\ Document!Closed(w).recent = w.recent
  <1> DEFINE v == Document!Closed(w)
  <1>1. /\ SameModel(w, v) /\ v.dialog = None
        /\ v.fileName = w.fileName /\ v.modified = w.modified /\ v.recent = w.recent
    BY DEF Document!Closed, Manager, SameModel
  <1>2. v = [w EXCEPT !.dialog = None]  BY DEF Document!Closed
  <1> HIDE DEF v
  <1>3. Manager(v)  BY <1>1, <1>2 DEF Manager, SameModel
  <1> QED  BY <1>1, <1>3 DEF v

LEMMA OpenedIs ==
    ASSUME NEW w, Manager(w), NEW d
    PROVE  /\ Manager(Document!Opened(w, d)) /\ SameModel(w, Document!Opened(w, d))
                /\ Document!Opened(w, d).dialog = d
           /\ Document!Opened(w, d).fileName = w.fileName
                /\ Document!Opened(w, d).modified = w.modified
  <1> DEFINE v == Document!Opened(w, d)
  <1>1. /\ SameModel(w, v) /\ v.dialog = d
        /\ v.fileName = w.fileName /\ v.modified = w.modified /\ v.recent = w.recent
    BY DEF Document!Opened, Manager, SameModel
  <1>2. v = [w EXCEPT !.dialog = d]  BY DEF Document!Opened
  <1> HIDE DEF v
  <1>3. Manager(v)  BY <1>1, <1>2 DEF Manager, SameModel
  <1> QED  BY <1>1, <1>3 DEF v

\* The model is cleared, and keeps its device.
LEMMA ResetIs ==
    ASSUME NEW w, NEW f, Manager(w), HeardInv(w), Disk(f), Document!DocumentAssumption
    PROVE  Fine(Document!Reset(w), f) /\ Document!Reset(w).stamp = 0
             /\ Document!Reset(w).dialog = None
  <1> DEFINE u == Document!Closed(w)
             v == Document!Reset(w)
  <1>1. /\ Manager(u) /\ SameModel(w, u) /\ u.dialog = None /\ HeardInv(u)
    BY ClosedIs, SameModelHeard
  <1>2. v = [u EXCEPT !.fileName = None, !.modified = FALSE, !.rows = <<>>, !.stamp = 0]
    BY DEF Document!Reset
  <1> HIDE DEF u, v
  <1>3. /\ v.fileName = None /\ v.modified = FALSE /\ v.rows = <<>> /\ v.stamp = 0
        /\ v.device = u.device /\ v.available = u.available /\ v.control = u.control
        /\ v.recent = u.recent /\ v.dialog = None
    BY <1>1, <1>2 DEF Manager
  <1>4. Manager(v)  BY <1>1, <1>2, <1>3 DEF Manager, Names
  <1>5. HeardInv(v)
    BY <1>1, <1>3, EmptySeq DEF HeardInv, Document!Offered, Document!DocumentAssumption
  <1>6. None \notin Document!Intact(f)  BY DEF Document!Intact, Document!DocumentAssumption
  <1> QED  BY <1>3, <1>4, <1>5, <1>6 DEF Fine, Saved, NameOf, v

\* What Read() makes of an intact file.
LEMMA ReadIs ==
    ASSUME NEW w, NEW f, Manager(w), HeardInv(w), Disk(f), Document!DocumentAssumption,
           NEW name \in Document!Intact(f), NEW recent
    PROVE  LET v == [Document!Closed(Document!ReadModel(w, f[name])) EXCEPT !.fileName = name,
           !.recent = recent]
           IN  Fine(v, f) /\ v.stamp = f[name].stamp /\ v.dialog = None /\ ~v.modified
  <1> DEFINE stored == f[name]
             edited == [i \in DOMAIN stored.events |-> Document!NewRow(stored.events[i], None)]
             u == Document!ReadModel(w, stored)
             c == Document!Closed(u)
             v == [c EXCEPT !.fileName = name, !.recent = recent]
  <1>1. name \in FileNames /\ stored \in Document!Plan  BY DEF Document!Intact, Disk
  <1>2. PICK n \in 0..MaxRows : stored.events \in [1..n -> BOOLEAN]
    BY <1>1 DEF Document!Plan
  <1>3. stored.stamp \in Nat /\ n \in Nat
    BY <1>1 DEF Document!Plan, Document!DocumentAssumption
  <1>4. edited \in Seq(Heeding(None)) /\ Len(edited) <= MaxRows
    <2>1. \A i \in 1..n : stored.events[i] \in BOOLEAN  BY <1>2
    <2>2. None \in Controls  BY DEF Controls
    <2>3. DOMAIN stored.events = 1..n  BY <1>2
    <2> HIDE DEF stored
    <2>4. edited \in [1..n -> Heeding(None)]  BY <2>1, <2>2, <2>3, NewHeeds
    <2> HIDE DEF edited
    <2>5. edited \in Seq(Heeding(None))  BY <1>3, <2>4, SeqDef
    <2>6. Len(edited) \in Nat /\ 1 .. Len(edited) = 1 .. n  BY <2>4, <2>5, LenProperties
    <2> QED  BY <1>3, <2>5, <2>6 DEF Document!DocumentAssumption
  <1>5. u = [w EXCEPT !.rows = edited, !.stamp = stored.stamp, !.modified = FALSE,
                      !.device = None, !.available = FALSE, !.control = None]
    BY DEF Document!ReadModel
  <1> HIDE DEF stored, edited, u
  <1>6. /\ u.rows = edited /\ u.stamp = stored.stamp /\ u.modified = FALSE /\ u.device = None
        /\ u.available = FALSE /\ u.control = None /\ u.fileName = w.fileName
    BY <1>5 DEF Manager
  <1>7. u.recent = w.recent /\ u.dialog = w.dialog  BY <1>5 DEF Manager
  <1>8. Manager(u)  BY <1>3, <1>5, <1>6, <1>7 DEF Manager, Controls
  <1>9. Manager(c) /\ SameModel(u, c) /\ c.dialog = None /\ c.modified = u.modified
    BY <1>8, ClosedIs
  <1> HIDE DEF c
  <1>10. /\ v.rows = edited /\ v.stamp = stored.stamp /\ v.modified = FALSE /\ v.device = None
         /\ v.available = FALSE /\ v.control = None /\ v.fileName = name
         /\ v.recent = recent /\ v.dialog = None
    BY <1>6, <1>9 DEF Manager, SameModel
  <1>11. Manager(v)
    <2>1. v = [c EXCEPT !.fileName = name, !.recent = recent]  OBVIOUS
    <2> HIDE DEF v
    <2> QED  BY <1>1, <1>9, <1>10, <2>1 DEF Manager, Names
  <1> HIDE DEF v
  <1>12. HeardInv(v)  BY <1>4, <1>10 DEF HeardInv, Document!Offered
  <1>13. name # None  BY <1>1 DEF Document!DocumentAssumption
  <1>14. Saved(v, f, name)  BY <1>10, <1>13 DEF Saved, stored
  <1>15. Fine(v, f)  BY <1>10, <1>11, <1>12, <1>14 DEF Fine, NameOf
  <1> QED  BY <1>10, <1>15 DEF v, c, u, stored

\* What an operation makes of the plan: it is the same, or another that is on disk.
Outcome(w, r) ==
    /\ Fine(r.w, r.f)
    /\ \/ r.w.stamp = w.stamp /\ r.w.modified = w.modified
       \/ ~r.w.modified /\ r.w.stamp \in Stamps(r.f) \union {0}

LEMMA ReadResult ==
    ASSUME NEW w, NEW f, Manager(w), HeardInv(w), Disk(f), Document!DocumentAssumption,
           Saved(w, f, w.fileName), NEW name, NEW r \in Document!Read(w, f, name)
    PROVE  Outcome(w, r) /\ r.f = f /\ r.w.dialog = None
  <1>1. CASE name \notin Document!Intact(f)
    <2> DEFINE v == Document!Closed(w)
    <2>1. r = Document!Both(v, f)  BY <1>1 DEF Document!Read
    <2>2. r.w = v /\ r.f = f  BY <2>1 DEF Document!Both
    <2>3. /\ Manager(v) /\ SameModel(w, v) /\ v.dialog = None /\ HeardInv(v)
          /\ v.fileName = w.fileName /\ v.modified = w.modified
      BY ClosedIs, SameModelHeard
    <2> HIDE DEF v
    <2>4. Fine(v, f)  BY <2>3 DEF Fine, Saved, NameOf, SameModel
    <2> QED  BY <2>2, <2>3, <2>4 DEF Outcome, SameModel
  <1>2. CASE name \in Document!Intact(f)
    <2> DEFINE v == [Document!Closed(Document!ReadModel(w, f[name])) EXCEPT
                        !.fileName = name, !.recent = Document!AddRecent(w.recent, name, f)]
    <2>1. r = Document!Both(v, f)  BY <1>2 DEF Document!Read
    <2>2. r.w = v /\ r.f = f  BY <2>1 DEF Document!Both
    <2>3. Fine(v, f) /\ v.stamp = f[name].stamp /\ v.dialog = None /\ ~v.modified
      BY <1>2, ReadIs
    <2> HIDE DEF v
    <2> QED  BY <1>2, <2>2, <2>3 DEF Outcome, Stamps
  <1> QED  BY <1>1, <1>2

LEMMA GoOnResult ==
    ASSUME NEW w, NEW f, Manager(w), HeardInv(w), Disk(f), Document!DocumentAssumption,
           Saved(w, f, w.fileName), NEW op \in Document!Operations, NEW name,
           NEW r \in Document!GoOn(w, f, op, name)
    PROVE  /\ Outcome(w, r) /\ r.f = f
           /\ r.w.dialog # None => r.w.stamp = w.stamp /\ r.w.modified = w.modified
  <1>1. CASE op = "new"
    <2>1. r = Document!Both(Document!Reset(w), f)  BY <1>1 DEF Document!GoOn
    <2>2. r.w = Document!Reset(w) /\ r.f = f  BY <2>1 DEF Document!Both
    <2>3. Fine(r.w, r.f) /\ r.w.stamp = 0 /\ r.w.dialog = None  BY <2>2, ResetIs
    <2>4. ~r.w.modified
      <3>1. Manager(Document!Closed(w))  BY ClosedIs
      <3> QED  BY <2>2, <3>1 DEF Document!Reset, Manager
    <2> QED  BY <2>2, <2>3, <2>4 DEF Outcome
  <1>2. CASE op \in {"save", "saveAs"}
    <2> DEFINE v == Document!Closed(w)
    <2>1. r = Document!Both(v, f)  BY <1>2 DEF Document!GoOn
    <2>2. r.w = v /\ r.f = f  BY <2>1 DEF Document!Both
    <2>3. /\ Manager(v) /\ SameModel(w, v) /\ v.dialog = None /\ HeardInv(v)
          /\ v.fileName = w.fileName /\ v.modified = w.modified
      BY ClosedIs, SameModelHeard
    <2> HIDE DEF v
    <2>4. Fine(v, f)  BY <2>3 DEF Fine, Saved, NameOf, SameModel
    <2> QED  BY <2>2, <2>3, <2>4 DEF Outcome, SameModel
  <1>3. CASE op = "open" /\ name = None
    <2> DEFINE d == Document!Dialog("pickOpen", op, None, None)
               v == Document!Opened(w, d)
    <2>1. r = Document!Both(v, f)  BY <1>3 DEF Document!GoOn
    <2>2. r.w = v /\ r.f = f  BY <2>1 DEF Document!Both
    <2>3. /\ Manager(v) /\ SameModel(w, v) /\ v.dialog = d /\ HeardInv(v)
          /\ v.fileName = w.fileName /\ v.modified = w.modified
      BY OpenedIs, SameModelHeard
    <2>4. d.kind = "pickOpen" /\ d.op = "open" /\ d.name = None /\ d.old = None
      BY <1>3 DEF Document!Dialog
    <2>5. Pending(v, d)  BY <2>4 DEF Pending, Document!Dialog, Document!Operations, Names
    <2> HIDE DEF v, d
    <2>6. Fine(v, f)  BY <2>3, <2>4, <2>5 DEF Fine, Saved, NameOf, SameModel
    <2> QED  BY <2>2, <2>3, <2>6 DEF Outcome, SameModel
  <1>4. CASE op = "open" /\ name # None
    <2>1. r \in Document!Read(w, f, name)  BY <1>4 DEF Document!GoOn
    <2> QED  BY <2>1, ReadResult
  <1> QED  BY <1>1, <1>2, <1>3, <1>4 DEF Document!Operations

\* What holds when saveChanges() is called, or goes on once there is a name.
Saving(w, f, d) ==
    /\ Manager(w) /\ HeardInv(w) /\ Disk(f)
    /\ d = Document!Dialog(d.kind, d.op, d.name, d.old) /\ d.op \in Document!Operations
         /\ d.old \in Names
    /\ d.op # "saveAs" => w.modified
    /\ d.op = "saveAs" => Saved(w, f, d.old) /\ d.name = None

LEMMA GiveUpResult ==
    ASSUME NEW w, NEW f, NEW d, Saving(w, f, d), Document!DocumentAssumption,
           NEW g, Disk(g), \A n \in FileNames : g[n] = f[n] \/ n \notin Document!Intact(g),
           NEW r \in Document!GiveUp(w, g, d)
    PROVE  /\ Fine(r.w, r.f) /\ r.f = g /\ r.w.dialog = None
           /\ r.w.stamp = w.stamp /\ r.w.modified = w.modified
  <1> DEFINE c == Document!Closed(w)
             v == [c EXCEPT !.fileName = IF d.op = "saveAs" THEN d.old ELSE @]
  <1>1. r = Document!Both(v, g)  BY DEF Document!GiveUp
  <1>2. r.w = v /\ r.f = g  BY <1>1 DEF Document!Both
  <1>3. /\ Manager(c) /\ SameModel(w, c) /\ c.dialog = None /\ HeardInv(c)
        /\ c.fileName = w.fileName /\ c.modified = w.modified
    BY ClosedIs, SameModelHeard DEF Saving
  <1> HIDE DEF c
  <1>4. /\ SameModel(c, v) /\ v.dialog = None /\ v.modified = c.modified
        /\ v.recent = c.recent
        /\ v.fileName = IF d.op = "saveAs" THEN d.old ELSE c.fileName
    BY <1>3 DEF Manager, SameModel
  <1>5. Manager(v)
    <2>1. v = [c EXCEPT !.fileName = IF d.op = "saveAs" THEN d.old ELSE @]  OBVIOUS
    <2>2. v.fileName \in Names  BY <1>3, <1>4 DEF Manager, Saving
    <2> HIDE DEF v
    <2> QED  BY <1>3, <1>4, <2>1, <2>2 DEF Manager, SameModel
  <1> HIDE DEF v
  <1>6. HeardInv(v)  BY <1>3, <1>4, SameModelHeard
  <1>7. Saved(v, g, v.fileName)
    <2>1. CASE d.op # "saveAs"  BY <2>1, <1>3, <1>4 DEF Saved, Saving
    <2>2. CASE d.op = "saveAs"
      <3>1. Saved(w, f, d.old) /\ v.fileName = d.old  BY <2>2, <1>4 DEF Saving
      <3>2. \A n \in Document!Intact(g) : n \in Document!Intact(f) /\ g[n] = f[n]
        BY DEF Document!Intact
      <3> QED  BY <1>3, <1>4, <3>1, <3>2 DEF Saved, SameModel
    <2> QED  BY <2>1, <2>2
  <1>8. Fine(v, g)  BY <1>4, <1>5, <1>6, <1>7 DEF Fine, NameOf
  <1> QED  BY <1>2, <1>3, <1>4, <1>8 DEF SameModel

\* Writing the stored puts it on disk, or changes nothing but its file.
LEMMA WriteResult ==
    ASSUME NEW w, NEW f, NEW d, Saving(w, f, d), Document!DocumentAssumption,
           NEW name \in FileNames, NEW r \in Document!Write(w, f, name, d)
    PROVE  /\ Fine(r.w, r.f)
           /\ \/ r.w.dialog = None /\ r.w.stamp = w.stamp /\ r.w.modified = w.modified
              \/ /\ w.stamp \in Stamps(r.f) /\ ~r.w.modified
                 /\ r.w.stamp \in Stamps(r.f) \union {0}
  <1> DEFINE v     == [w EXCEPT !.fileName = name]
             events == [i \in DOMAIN w.rows |-> w.rows[i].action # "none"]
             stored  == [events |-> events, stamp |-> w.stamp]
             saved == [f EXCEPT ![name] = stored]
             recent == Document!AddRecent(w.recent, name, saved)
             u     == [v EXCEPT !.modified = FALSE, !.recent = recent]
  <1>1. Manager(w) /\ HeardInv(w) /\ Disk(f)  BY DEF Saving
  <1>2. \/ r \in Document!GoOn(u, saved, d.op, d.name)
        \/ \E left \in {f[name], Damaged} : r \in Document!GiveUp(v, [f EXCEPT ![name] = left],
           d)
    <2> HIDE DEF saved, stored
    <2>1. r \in Document!GoOn(u, saved, d.op, d.name)
               \union UNION {Document!GiveUp(v, [f EXCEPT ![name] = left],
               d) : left \in {f[name], Damaged}}
      BY DEF Document!Write, saved, stored
    <2> HIDE DEF u, v, saved
    <2> QED  BY <2>1
  <1>3. /\ v.fileName = name /\ v.modified = w.modified /\ SameModel(w, v)
        /\ v.recent = w.recent /\ v.dialog = w.dialog
    BY <1>1 DEF Manager, SameModel
  <1>4. Manager(v)
    <2>1. v = [w EXCEPT !.fileName = name]  OBVIOUS
    <2> HIDE DEF v
    <2> QED  BY <1>1, <1>3, <2>1 DEF Manager, SameModel, Names
  <1> HIDE DEF v
  <1>5. HeardInv(v)  BY <1>1, <1>3, SameModelHeard
  <1>6. CASE r \in Document!GoOn(u, saved, d.op, d.name)
    <2>1. /\ u.fileName = name /\ u.modified = FALSE /\ SameModel(v, u)
          /\ u.recent = recent /\ u.dialog = v.dialog
      <3>1. u = [v EXCEPT !.modified = FALSE, !.recent = recent]  OBVIOUS
      <3> HIDE DEF recent, u, events, stored, saved
      <3> QED  BY <1>3, <1>4, <3>1 DEF Manager, SameModel
    <2>2. Manager(u)
      <3>1. u = [v EXCEPT !.modified = FALSE, !.recent = recent]  OBVIOUS
      <3> HIDE DEF recent, u
      <3> QED  BY <1>4, <2>1, <3>1 DEF Manager, SameModel
    <2> HIDE DEF recent, u
    <2>3. HeardInv(u)  BY <1>5, <2>1, SameModelHeard
    <2>4. stored \in Document!Plan
      <3> DEFINE n == Len(w.rows)
      <3>1. n \in 0..MaxRows /\ DOMAIN w.rows = 1..n
        BY <1>1, LenProperties DEF HeardInv, Document!DocumentAssumption
      <3> HIDE DEF n
      <3>2. events \in [1..n -> BOOLEAN]  BY <3>1
      <3>3. events \in UNION {[1..k -> BOOLEAN] : k \in 0..MaxRows}
        <4> HIDE DEF events
        <4> QED  BY <3>1, <3>2
      <3>4. w.stamp \in Nat  BY <1>1 DEF Manager
      <3> HIDE DEF events
      <3> QED  BY <3>3, <3>4 DEF Document!Plan
    <2>5. stored.stamp = w.stamp  OBVIOUS
    <2> HIDE DEF stored
    <2>6. Disk(saved) /\ saved[name] = stored  BY <1>1, <2>4 DEF Disk
    <2>7. name \in Document!Intact(saved)
      <3>1. stored \notin {None, Damaged}  BY <2>4 DEF Document!DocumentAssumption
      <3> QED  BY <2>6, <3>1 DEF Document!Intact
    <2> HIDE DEF saved
    <2>8. Saved(u, saved, u.fileName)
      <3>1. name # None  BY DEF Document!DocumentAssumption
      <3> QED  BY <1>3, <2>1, <2>5, <2>6, <3>1 DEF Saved, SameModel
    <2>9. d.op \in Document!Operations  BY DEF Saving
    <2>10. Outcome(u, r) /\ r.f = saved
      BY <1>6, <2>2, <2>3, <2>6, <2>8, <2>9, GoOnResult
    <2>11. w.stamp \in Stamps(saved)  BY <2>5, <2>6, <2>7 DEF Stamps
    <2>12. u.stamp = w.stamp  BY <1>3, <2>1 DEF SameModel
    <2> QED  BY <2>1, <2>10, <2>11, <2>12 DEF Outcome
  <1>7. ASSUME NEW left \in {f[name], Damaged}, r \in Document!GiveUp(v,
               [f EXCEPT ![name] = left], d)
        PROVE  Fine(r.w, r.f) /\ r.w.dialog = None
               /\ r.w.stamp = w.stamp /\ r.w.modified = w.modified
    <2> DEFINE g == [f EXCEPT ![name] = left]
    <2>1. Disk(g)  BY <1>1 DEF Disk
    <2>2. \A n \in FileNames : g[n] = f[n] \/ n \notin Document!Intact(g)
      BY <1>1 DEF Disk, Document!Intact
    <2>3. Saving(v, f, d)
      <3>1. d.op = "saveAs" => Saved(v, f, d.old)  BY <1>3 DEF Saving, Saved, SameModel
      <3> QED  BY <1>3, <1>4, <1>5, <3>1 DEF Saving
    <2>4. r \in Document!GiveUp(v, g, d)  BY <1>7
    <2> HIDE DEF g
    <2>5. /\ Fine(r.w, r.f) /\ r.w.dialog = None
          /\ r.w.stamp = v.stamp /\ r.w.modified = v.modified
      BY <2>1, <2>2, <2>3, <2>4, GiveUpResult
    <2> QED  BY <1>3, <2>5 DEF SameModel
  <1> QED  BY <1>2, <1>6, <1>7

LEMMA SaveChangesResult ==
    ASSUME NEW w, NEW f, NEW d, Saving(w, f, d), Document!DocumentAssumption,
           NEW r \in Document!SaveChanges(w, f, d)
    PROVE  /\ Fine(r.w, r.f)
           /\ \/ /\ r.w.stamp = w.stamp /\ r.w.modified = w.modified
                 /\ r.w.dialog # None => r.w.dialog.kind = "pickSave"
              \/ /\ w.stamp \in Stamps(r.f) /\ ~r.w.modified
                 /\ r.w.stamp \in Stamps(r.f) \union {0}
  <1>1. CASE w.fileName # None
    <2>1. r \in Document!Write(w, f, w.fileName, d)  BY <1>1 DEF Document!SaveChanges
    <2>2. w.fileName \in FileNames  BY <1>1 DEF Saving, Manager, Names
    <2> QED  BY <2>1, <2>2, WriteResult
  <1>2. CASE w.fileName = None
    <2> DEFINE e == [d EXCEPT !.kind = "pickSave"]
               v == Document!Opened(w, e)
    <2>1. r = Document!Both(v, f)  BY <1>2 DEF Document!SaveChanges
    <2>2. r.w = v /\ r.f = f  BY <2>1 DEF Document!Both
    <2>3. /\ e = Document!Dialog("pickSave", d.op, d.name, d.old) /\ e.kind = "pickSave"
               /\ e.op = d.op
          /\ e.name = d.name /\ e.old = d.old
      <3>1. d = [kind |-> d.kind, op |-> d.op, name |-> d.name, old |-> d.old]
        BY DEF Saving, Document!Dialog
      <3> QED  BY <3>1 DEF Document!Dialog
    <2> HIDE DEF e
    <2>4. /\ Manager(v) /\ SameModel(w, v) /\ v.dialog = e /\ HeardInv(v)
          /\ v.fileName = w.fileName /\ v.modified = w.modified
      BY OpenedIs, SameModelHeard DEF Saving
    <2> HIDE DEF v
    <2>5. Pending(v, e)  BY <2>3, <2>4 DEF Pending, Saving
    <2>6. Saved(v, f, NameOf(v))
      <3>1. CASE d.op # "saveAs"  BY <3>1, <2>4 DEF Saved, Saving
      <3>2. CASE d.op = "saveAs"
        <4>1. e \in Document!Dialogs
          BY <3>2, <2>3
          DEF Saving, Document!Dialog, Document!Dialogs, Names, Document!Operations
        <4>2. e # None  BY <4>1 DEF Document!DocumentAssumption
        <4>3. NameOf(v) = d.old  BY <3>2, <2>3, <2>4, <4>2 DEF NameOf
        <4> QED  BY <3>2, <2>4, <4>3 DEF Saved, Saving, SameModel
      <3> QED  BY <3>1, <3>2
    <2>7. Fine(v, f)  BY <2>4, <2>5, <2>6 DEF Fine, Saving
    <2> QED  BY <2>2, <2>3, <2>4, <2>7 DEF SameModel
  <1> QED  BY <1>1, <1>2

-----------------------------------------------------------------------------
(* Automation plan: the actions.                                             *)

KnownInv ==
    /\ ~doc.modified => doc.stamp \in written
    /\ Stamps(disk) \subseteq written /\ 0 \in written
    /\ doc.dialog # None /\ doc.dialog.kind = "pickOpen" /\ doc.modified => agreed

DocInv == Fine(doc, disk) /\ KnownInv /\ latest \in Nat

\* What every step does to the history.
Recorded == written' = written \union Stamps(disk')

\* No stored with unsaved changes is replaced.
Kept == doc'.stamp # doc.stamp /\ latest' = latest => agreed' \/ doc.stamp \in written'

LEMMA InsertedIn ==
    ASSUME NEW S, NEW s \in Seq(S), NEW i \in 1 .. Len(s) + 1, NEW e \in S
    PROVE  Document!InsertAt(s, i, e) \in Seq(S) /\ Len(Document!InsertAt(s, i, e)) = Len(s) + 1
  <1>1. Len(s) \in Nat /\ \A j \in 1 .. Len(s) : s[j] \in S  BY LenProperties, ElementOfSeq
  <1> DEFINE a == SubSeq(s, 1, i - 1)
             b == <<e>>
             c == SubSeq(s, i, Len(s))
  <1>2. a \in Seq(S) /\ Len(a) = i - 1
    <2>1. \A j \in 1 .. i - 1 : s[j] \in S  BY <1>1
    <2>2. a \in Seq(S) /\ Len(a) = IF 1 <= i - 1 THEN (i - 1) - 1 + 1 ELSE 0
      BY <1>1, <2>1, SubSeqProperties
    <2> QED  BY <1>1, <2>2
  <1>3. c \in Seq(S) /\ Len(c) = Len(s) - i + 1
    <2>1. \A j \in i .. Len(s) : s[j] \in S  BY <1>1
    <2>2. c \in Seq(S) /\ Len(c) = IF i <= Len(s) THEN Len(s) - i + 1 ELSE 0
      BY <1>1, <2>1, SubSeqProperties
    <2> QED  BY <1>1, <2>2
  <1>4. b \in Seq(S) /\ Len(b) = 1  OBVIOUS
  <1>5. Document!InsertAt(s, i, e) = (a \o b) \o c  BY DEF Document!InsertAt
  <1> HIDE DEF a, b, c
  <1>6. a \o b \in Seq(S) /\ Len(a \o b) = Len(a) + Len(b)  BY <1>2, <1>4, ConcatProperties
  <1>7. (a \o b) \o c \in Seq(S) /\ Len((a \o b) \o c) = Len(a \o b) + Len(c)
    BY <1>3, <1>6, ConcatProperties
  <1> QED  BY <1>1, <1>2, <1>3, <1>4, <1>5, <1>6, <1>7

LEMMA RemovedFrom ==
    ASSUME NEW S, NEW s \in Seq(S), NEW i \in 1 .. Len(s)
    PROVE  Document!RemoveAt(s, i) \in Seq(S) /\ Len(Document!RemoveAt(s, i)) = Len(s) - 1
  <1>1. Len(s) \in Nat /\ \A j \in 1 .. Len(s) : s[j] \in S  BY LenProperties, ElementOfSeq
  <1> DEFINE a == SubSeq(s, 1, i - 1)
             c == SubSeq(s, i + 1, Len(s))
  <1>2. a \in Seq(S) /\ Len(a) = i - 1
    <2>1. \A j \in 1 .. i - 1 : s[j] \in S  BY <1>1
    <2>2. a \in Seq(S) /\ Len(a) = IF 1 <= i - 1 THEN (i - 1) - 1 + 1 ELSE 0
      BY <1>1, <2>1, SubSeqProperties
    <2> QED  BY <1>1, <2>2
  <1>3. c \in Seq(S) /\ Len(c) = Len(s) - i
    <2>1. \A j \in i + 1 .. Len(s) : s[j] \in S  BY <1>1
    <2>2. c \in Seq(S) /\ Len(c) = IF i + 1 <= Len(s) THEN Len(s) - (i + 1) + 1 ELSE 0
      BY <1>1, <2>1, SubSeqProperties
    <2> QED  BY <1>1, <2>2
  <1>4. Document!RemoveAt(s, i) = a \o c  BY DEF Document!RemoveAt
  <1> HIDE DEF a, c
  <1>5. a \o c \in Seq(S) /\ Len(a \o c) = Len(a) + Len(c)  BY <1>2, <1>3, ConcatProperties
  <1> QED  BY <1>1, <1>2, <1>3, <1>4, <1>5

LEMMA EditStep ==
    ASSUME DocInv, Document!DocumentAssumption, Recorded, NEW edited \in Seq(Heeding(doc.control)),
           Len(edited) <= MaxRows, Document!Edit(edited, TRUE)
    PROVE  DocInv' /\ Kept
  <1>1. doc.dialog = None /\ latest' = latest + 1 /\ disk' = disk
        /\ doc' = [doc EXCEPT !.rows = edited, !.stamp = latest + 1, !.modified = @ \/ TRUE]
    BY DEF Document!Edit
  <1>2. Manager(doc) /\ HeardInv(doc) /\ Disk(disk) /\ latest \in Nat  BY DEF DocInv, Fine
  <1>3. /\ doc'.rows = edited /\ doc'.stamp = latest + 1 /\ doc'.modified = TRUE
        /\ doc'.fileName = doc.fileName /\ doc'.dialog = None /\ doc'.device = doc.device
        /\ doc'.available = doc.available /\ doc'.control = doc.control
        /\ doc'.recent = doc.recent
    BY <1>1, <1>2 DEF Manager
  <1>4. Manager(doc')
    <2> DEFINE v == [doc EXCEPT !.rows = edited, !.stamp = latest + 1, !.modified = TRUE]
    <2>1. doc' = v
      <3>1. (doc.modified \/ TRUE) = TRUE  OBVIOUS
      <3> QED  BY <1>1, <3>1
    <2>2. /\ v.rows = edited /\ v.stamp = latest + 1 /\ v.modified = TRUE
          /\ v.fileName = doc.fileName /\ v.dialog = doc.dialog /\ v.device = doc.device
          /\ v.available = doc.available /\ v.control = doc.control
          /\ v.recent = doc.recent
      BY <1>2 DEF Manager
    <2>3. v = [doc EXCEPT !.rows = edited, !.stamp = latest + 1, !.modified = TRUE]  OBVIOUS
    <2>4. latest + 1 \in Nat  BY <1>2
    <2> HIDE DEF v
    <2>5. Manager(v)  BY <1>2, <2>2, <2>3, <2>4 DEF Manager
    <2> QED  BY <2>1, <2>5
  <1>5. HeardInv(doc')  BY <1>2, <1>3 DEF HeardInv, Document!Offered
  <1>6. Fine(doc', disk')  BY <1>1, <1>2, <1>3, <1>4, <1>5 DEF Fine, Saved
  <1>7. KnownInv'  BY <1>1, <1>3 DEF DocInv, KnownInv, Recorded
  <1>8. latest' \in Nat /\ Kept  BY <1>1, <1>2 DEF Kept
  <1>9. Fine(doc, disk)'  BY <1>6
  <1> QED  BY <1>7, <1>8, <1>9 DEF DocInv

\* An event that an edit finds is observed, and its action too.
LEMMA RowIsObserved ==
    ASSUME DocInv, NEW i \in DOMAIN doc.rows
    PROVE  /\ i \in 1 .. Len(doc.rows) /\ doc.rows \in Seq(Heeding(doc.control))
           /\ doc.rows[i] \in Heeding(doc.control) /\ doc.rows[i].observed = TRUE
           /\ doc.rows[i].action \in {"none", "observed"} /\ Len(doc.rows) <= MaxRows
  <1>1. doc.rows \in Seq(Heeding(doc.control)) /\ Len(doc.rows) <= MaxRows
    BY DEF DocInv, Fine, HeardInv
  <1>2. i \in 1 .. Len(doc.rows)  BY <1>1, LenProperties
  <1>3. doc.rows[i] \in Heeding(doc.control)  BY <1>1, <1>2, ElementOfSeq
  <1>4. doc.rows[i] \in Document!Row /\ doc.rows[i].observed /\ doc.rows[i].action # "unobserved"
    BY <1>3 DEF Heeding
  <1> QED  BY <1>1, <1>2, <1>3, <1>4 DEF Document!Row

LEMMA EditsStep ==
    ASSUME DocInv, Document!DocumentAssumption, Recorded,
           Document!InsertEvent \/ Document!RemoveEvent \/ Document!AppendAction
             \/ Document!ChangeEvent \/ Document!ChangeAction
    PROVE  DocInv' /\ Kept
  <1>1. /\ doc.rows \in Seq(Heeding(doc.control)) /\ Len(doc.rows) \in Nat
        /\ Len(doc.rows) <= MaxRows /\ doc.control = Document!Offered(doc)
             /\ doc.control \in Controls
        /\ MaxRows \in Nat
    BY LenProperties DEF DocInv, Fine, HeardInv, Manager, Document!DocumentAssumption
  <1>2. CASE Document!InsertEvent
    <2>1. PICK i \in 1 .. Len(doc.rows) + 1 :
              /\ Len(doc.rows) < MaxRows
              /\ Document!Edit(Document!InsertAt(doc.rows, i, Document!NewRow(FALSE,
                 Document!Offered(doc))), TRUE)
      BY <1>2 DEF Document!InsertEvent
    <2> DEFINE e == Document!NewRow(FALSE, Document!Offered(doc))
    <2>2. e \in Heeding(doc.control)  BY <1>1, NewHeeds
    <2> DEFINE edited == Document!InsertAt(doc.rows, i, e)
    <2>3. Document!Edit(edited, TRUE)  BY <2>1
    <2> HIDE DEF e
    <2>4. edited \in Seq(Heeding(doc.control)) /\ Len(edited) = Len(doc.rows) + 1
      BY <1>1, <2>2, InsertedIn
    <2> HIDE DEF edited
    <2>5. Len(edited) <= MaxRows  BY <1>1, <2>1, <2>4
    <2> QED  BY <2>3, <2>4, <2>5, EditStep
  <1>3. CASE Document!RemoveEvent
    <2>1. PICK i \in DOMAIN doc.rows : Document!Edit(Document!RemoveAt(doc.rows, i), TRUE)
      BY <1>3 DEF Document!RemoveEvent
    <2>2. i \in 1 .. Len(doc.rows)  BY RowIsObserved
    <2> DEFINE edited == Document!RemoveAt(doc.rows, i)
    <2>3. edited \in Seq(Heeding(doc.control)) /\ Len(edited) = Len(doc.rows) - 1
      BY <1>1, <2>2, RemovedFrom
    <2>4. Document!Edit(edited, TRUE)  BY <2>1
    <2> HIDE DEF edited
    <2>5. Len(edited) <= MaxRows  BY <1>1, <2>3
    <2> QED  BY <2>3, <2>4, <2>5, EditStep
  <1>4. CASE Document!AppendAction
    <2>1. PICK i \in DOMAIN doc.rows :
              Document!Edit([doc.rows EXCEPT ![i].action = "observed"], doc.rows[i].observed)
      BY <1>4 DEF Document!AppendAction
    <2>2. /\ i \in 1 .. Len(doc.rows) /\ doc.rows[i] \in Heeding(doc.control)
          /\ doc.rows[i].observed = TRUE
      BY RowIsObserved
    <2> DEFINE e == [doc.rows[i] EXCEPT !.action = "observed"]
               edited == [doc.rows EXCEPT ![i] = e]
    <2>3. e \in Heeding(doc.control)
      <3> DEFINE row == doc.rows[i]
      <3>1. row \in Document!Row /\ row.observed
              /\ \A d \in Devices : row.links[d] = IF d = doc.control THEN 1 ELSE 0
        BY <2>2 DEF Heeding
      <3> HIDE DEF row
      <3>2. /\ [row EXCEPT !.action = "observed"] \in Document!Row
            /\ [row EXCEPT !.action = "observed"].observed = row.observed
            /\ [row EXCEPT !.action = "observed"].action = "observed"
            /\ [row EXCEPT !.action = "observed"].links = row.links
        BY <3>1 DEF Document!Row
      <3>3. [row EXCEPT !.action = "observed"] \in Heeding(doc.control)
        BY <3>1, <3>2 DEF Heeding
      <3> QED  BY <3>3 DEF row
    <2>4. edited \in Seq(Heeding(doc.control)) /\ Len(edited) = Len(doc.rows)
      <3> HIDE DEF e
      <3> QED  BY <1>1, <2>2, <2>3, ExceptSeq
    <2>5. Document!Edit(edited, TRUE)
      <3>1. [doc.rows EXCEPT ![i].action = "observed"] = edited  OBVIOUS
      <3> QED  BY <2>1, <2>2, <3>1
    <2> HIDE DEF edited
    <2> QED  BY <1>1, <2>4, <2>5, EditStep
  <1>5. CASE Document!ChangeEvent
    <2>1. PICK i \in DOMAIN doc.rows : Document!Edit(doc.rows, doc.rows[i].observed)
      BY <1>5 DEF Document!ChangeEvent
    <2>2. doc.rows[i].observed = TRUE  BY RowIsObserved
    <2> QED  BY <1>1, <2>1, <2>2, EditStep
  <1>6. CASE Document!ChangeAction
    <2>1. PICK i \in DOMAIN doc.rows : doc.rows[i].action # "none"
              /\ Document!Edit(doc.rows, doc.rows[i].action = "observed")
      BY <1>6 DEF Document!ChangeAction
    <2>2. (doc.rows[i].action = "observed") = TRUE  BY <2>1, RowIsObserved
    <2> QED  BY <1>1, <2>1, <2>2, EditStep
  <1> QED  BY <1>2, <1>3, <1>4, <1>5, <1>6

\* Devices and their controls come and go, the stored stays.
LEMMA DeviceStep ==
    ASSUME DocInv, Document!DocumentAssumption, Recorded, Document!DeviceChanges
    PROVE  DocInv' /\ Kept
  <1>1. PICK d \in Controls, a \in BOOLEAN : (d = None => ~a)
               /\ doc' = Document!DeviceSet(doc, d, a)
    BY DEF Document!DeviceChanges, Controls
  <1>2. disk' = disk /\ agreed' = agreed /\ latest' = latest  BY DEF Document!DeviceChanges
  <1>3. Fine(doc, disk) /\ latest \in Nat  BY DEF DocInv
  <1>4. Manager(doc') /\ HeardInv(doc') /\ SamePlan(doc, doc')
    BY <1>1, <1>3, DeviceSetHeeds DEF Fine
  <1>5. Fine(doc', disk')
    BY <1>2, <1>3, <1>4 DEF Fine, Saved, NameOf, Pending, SamePlan
  <1>6. KnownInv'
    BY <1>2, <1>4 DEF DocInv, KnownInv, SamePlan, Recorded
  <1>7. Kept  BY <1>4 DEF Kept, SamePlan
  <1>8. Fine(doc, disk)'  BY <1>5
  <1> QED  BY <1>2, <1>3, <1>6, <1>7, <1>8 DEF DocInv

LEMMA FileGoesStep ==
    ASSUME DocInv, Document!DocumentAssumption, Recorded, Document!FileGoes
    PROVE  DocInv' /\ Kept
  <1>1. PICK name \in FileNames : disk' = [disk EXCEPT ![name] = None]
    BY DEF Document!FileGoes
  <1>2. doc' = doc /\ agreed' = agreed /\ latest' = latest  BY DEF Document!FileGoes
  <1>3. Fine(doc, disk) /\ latest \in Nat  BY DEF DocInv
  <1>4. Disk(disk') /\ \A n \in Document!Intact(disk') : n \in Document!Intact(disk)
          /\ disk'[n] = disk[n]
    BY <1>1, <1>3 DEF Fine, Disk, Document!Intact
  <1>5. Fine(doc', disk')
    BY <1>2, <1>3, <1>4 DEF Fine, Saved
  <1>6. KnownInv'
    BY <1>2 DEF DocInv, KnownInv, Recorded
  <1>7. Kept  BY <1>2 DEF Kept
  <1>8. Fine(doc, disk)'  BY <1>5
  <1> QED  BY <1>2, <1>3, <1>6, <1>7, <1>8 DEF DocInv

\* No dialog is open when an operation starts.
LEMMA StartIs ==
    ASSUME DocInv, doc.dialog = None
    PROVE  /\ Manager(doc) /\ HeardInv(doc) /\ Disk(disk) /\ Saved(doc, disk, doc.fileName)
           /\ latest \in Nat
  BY DEF DocInv, Fine, NameOf

\* What a step of the manager leaves is recorded.
LEMMA ResultStep ==
    ASSUME DocInv, Recorded, NEW r, doc' = r.w, disk' = r.f, latest' = latest,
           Fine(r.w, r.f),
           \/ r.w.stamp = doc.stamp /\ r.w.modified = doc.modified
           \/ /\ ~r.w.modified /\ r.w.stamp \in Stamps(r.f) \union {0}
              /\ agreed' \/ ~doc.modified \/ doc.stamp \in Stamps(r.f),
           r.w.dialog # None /\ r.w.dialog.kind = "pickOpen" /\ r.w.modified => agreed'
    PROVE  DocInv' /\ Kept
  <1>1. Fine(doc, disk)' /\ latest' \in Nat  BY DEF DocInv
  <1>2. Stamps(disk)' = Stamps(r.f)  BY DEF Stamps, Document!Intact
  <1>3. KnownInv'  BY <1>2 DEF DocInv, KnownInv, Recorded
  <1>4. Kept  BY DEF DocInv, KnownInv, Kept, Recorded
  <1> QED  BY <1>1, <1>3, <1>4 DEF DocInv

LEMMA OpenedStep ==
    ASSUME DocInv, Document!DocumentAssumption, Recorded, NEW op \in {"new", "open"}, NEW name,
           Document!NewOrOpen(op, name)
    PROVE  DocInv' /\ Kept
  <1>1. doc.dialog = None /\ agreed' = FALSE /\ latest' = latest
    BY DEF Document!NewOrOpen, Document!Start
  <1>2. /\ Manager(doc) /\ HeardInv(doc) /\ Disk(disk) /\ Saved(doc, disk, doc.fileName)
    BY <1>1, StartIs
  <1>3. CASE doc.modified
    <2> DEFINE d == Document!Dialog("ask", op, name, None)
               v == Document!Opened(doc, d)
    <2>1. Document!Becomes({Document!Both(v, disk)})
      BY <1>3 DEF Document!NewOrOpen, Document!Unsaved
    <2>2. doc' = v /\ disk' = disk  BY <2>1 DEF Document!Becomes, Document!Both
    <2>3. /\ Manager(v) /\ SameModel(doc, v) /\ v.dialog = d /\ HeardInv(v)
          /\ v.fileName = doc.fileName /\ v.modified = doc.modified
      BY <1>2, OpenedIs, SameModelHeard
    <2>4. d.kind = "ask" /\ d.op = op /\ d.name = name /\ d.old = None  BY DEF Document!Dialog
    <2> HIDE DEF v
    <2>5. Pending(v, d)
      BY <1>3, <2>3, <2>4 DEF Pending, Document!Dialog, Document!Operations, Names
    <2> HIDE DEF d
    <2>6. Fine(v, disk)  BY <1>2, <1>3, <2>3, <2>5 DEF Fine, Saved
    <2> DEFINE r == Document!Both(v, disk)
    <2>7. r.w = v /\ r.f = disk  BY DEF Document!Both
    <2> HIDE DEF r
    <2> QED  BY <1>1, <2>2, <2>3, <2>4, <2>6, <2>7, ResultStep DEF SameModel
  <1>4. CASE ~doc.modified
    <2>1. Document!Becomes(Document!GoOn(doc, disk, op, name))
      BY <1>4 DEF Document!NewOrOpen, Document!Unsaved
    <2>2. PICK r \in Document!GoOn(doc, disk, op, name) : doc' = r.w /\ disk' = r.f
      BY <2>1 DEF Document!Becomes
    <2>3. op \in Document!Operations  BY DEF Document!Operations
    <2>4. /\ Outcome(doc, r)
          /\ r.w.dialog # None => r.w.stamp = doc.stamp /\ r.w.modified = doc.modified
      BY <1>2, <2>2, <2>3, GoOnResult
    <2> QED  BY <1>1, <1>4, <2>2, <2>4, ResultStep DEF Outcome
  <1> QED  BY <1>3, <1>4

LEMMA SaveStep ==
    ASSUME DocInv, Document!DocumentAssumption, Recorded, Document!Save \/ Document!SaveAs
    PROVE  DocInv' /\ Kept
  <1>1. doc.dialog = None /\ latest' = latest
    BY DEF Document!Save, Document!SaveAs, Document!Start
  <1>2. /\ Manager(doc) /\ HeardInv(doc) /\ Disk(disk) /\ Saved(doc, disk, doc.fileName)
    BY <1>1, StartIs
  <1>3. CASE Document!Save
    <2> DEFINE d == Document!Dialog("none", "save", None, None)
    <2>1. doc.modified /\ Document!Becomes(Document!SaveChanges(doc, disk, d))
      BY <1>3 DEF Document!Save
    <2>2. PICK r \in Document!SaveChanges(doc, disk, d) : doc' = r.w /\ disk' = r.f
      BY <2>1 DEF Document!Becomes
    <2>3. Saving(doc, disk, d)
      BY <1>2, <2>1 DEF Saving, Document!Dialog, Document!Operations, Names
    <2> HIDE DEF d
    <2>4. /\ Fine(r.w, r.f)
          /\ \/ /\ r.w.stamp = doc.stamp /\ r.w.modified = doc.modified
                /\ r.w.dialog # None => r.w.dialog.kind = "pickSave"
             \/ /\ doc.stamp \in Stamps(r.f) /\ ~r.w.modified
                /\ r.w.stamp \in Stamps(r.f) \union {0}
      BY <2>2, <2>3, SaveChangesResult
    <2> QED  BY <1>1, <2>2, <2>4, ResultStep
  <1>4. CASE Document!SaveAs
    <2> DEFINE d == Document!Dialog("none", "saveAs", None, doc.fileName)
               v == [doc EXCEPT !.fileName = None]
    <2>1. Document!Becomes(Document!SaveChanges(v, disk, d))  BY <1>4 DEF Document!SaveAs
    <2>2. PICK r \in Document!SaveChanges(v, disk, d) : doc' = r.w /\ disk' = r.f
      BY <2>1 DEF Document!Becomes
    <2>3. /\ v.fileName = None /\ v.modified = doc.modified /\ SameModel(doc, v)
          /\ v.recent = doc.recent /\ v.dialog = doc.dialog
      BY <1>2 DEF Manager, SameModel
    <2>4. Manager(v)
      <3>1. v = [doc EXCEPT !.fileName = None]  OBVIOUS
      <3> HIDE DEF v
      <3> QED  BY <1>2, <2>3, <3>1 DEF Manager, SameModel, Names
    <2> HIDE DEF v
    <2>5. HeardInv(v)  BY <1>2, <2>3, SameModelHeard
    <2>6. doc.fileName \in Names  BY <1>2 DEF Manager
    <2>7. Saved(v, disk, doc.fileName)  BY <1>2, <2>3 DEF Saved, SameModel
    <2>8. Saving(v, disk, d)
      BY <1>2, <2>4, <2>5, <2>6, <2>7 DEF Saving, Document!Dialog, Document!Operations
    <2> HIDE DEF d
    <2>9. /\ Fine(r.w, r.f)
          /\ \/ /\ r.w.stamp = v.stamp /\ r.w.modified = v.modified
                /\ r.w.dialog # None => r.w.dialog.kind = "pickSave"
             \/ /\ v.stamp \in Stamps(r.f) /\ ~r.w.modified
                /\ r.w.stamp \in Stamps(r.f) \union {0}
      BY <2>2, <2>8, SaveChangesResult
    <2> QED  BY <1>1, <2>2, <2>3, <2>9, ResultStep DEF SameModel
  <1> QED  BY <1>3, <1>4

\* A closed dialog leaves the stored it was about.
LEMMA ClosedResult ==
    ASSUME DocInv, doc.dialog # None, doc.dialog.op # "saveAs"
    PROVE  LET r == Document!Both(Document!Closed(doc), disk)
           IN  /\ Fine(r.w, r.f) /\ r.w.dialog = None
               /\ r.w.stamp = doc.stamp /\ r.w.modified = doc.modified
  <1> DEFINE v == Document!Closed(doc)
             r == Document!Both(v, disk)
  <1>1. r.w = v /\ r.f = disk  BY DEF Document!Both
  <1>2. Manager(doc) /\ HeardInv(doc) /\ Disk(disk) /\ Saved(doc, disk, doc.fileName)
    BY DEF DocInv, Fine, NameOf
  <1>3. /\ Manager(v) /\ SameModel(doc, v) /\ v.dialog = None /\ HeardInv(v)
        /\ v.fileName = doc.fileName /\ v.modified = doc.modified
    BY <1>2, ClosedIs, SameModelHeard
  <1> HIDE DEF v
  <1>4. Fine(v, disk)  BY <1>2, <1>3 DEF Fine, Saved, NameOf, SameModel
  <1> QED  BY <1>1, <1>3, <1>4 DEF SameModel, v

LEMMA AnswerStep ==
    ASSUME DocInv, Document!DocumentAssumption, Recorded, Document!Answer
    PROVE  DocInv' /\ Kept
  <1> DEFINE d == doc.dialog
  <1>1. d # None /\ d.kind = "ask" /\ latest' = latest
    BY DEF Document!Answer, Document!Answering
  <1>2. /\ Manager(doc) /\ HeardInv(doc) /\ Disk(disk) /\ Pending(doc, d)
    BY <1>1 DEF DocInv, Fine
  <1>3. doc.modified /\ d.op \in {"new", "open"}  BY <1>1, <1>2 DEF Pending
  <1>4. CASE Document!Becomes({Document!Both(Document!Closed(doc), disk)}) /\ UNCHANGED agreed
    <2> DEFINE r == Document!Both(Document!Closed(doc), disk)
    <2>1. doc' = r.w /\ disk' = r.f  BY <1>4 DEF Document!Becomes
    <2>2. /\ Fine(r.w, r.f) /\ r.w.dialog = None
          /\ r.w.stamp = doc.stamp /\ r.w.modified = doc.modified
      BY <1>1, <1>3, ClosedResult
    <2> HIDE DEF r
    <2> QED  BY <1>1, <2>1, <2>2, ResultStep
  <1>5. CASE Document!Becomes(Document!GoOn(doc, disk, d.op, d.name)) /\ agreed' = TRUE
    <2>1. PICK r \in Document!GoOn(doc, disk, d.op, d.name) : doc' = r.w /\ disk' = r.f
      BY <1>5 DEF Document!Becomes
    <2>2. Saved(doc, disk, doc.fileName) /\ d.op \in Document!Operations
      BY <1>3 DEF Saved, Document!Operations
    <2>3. Outcome(doc, r)  BY <1>2, <2>1, <2>2, GoOnResult
    <2> QED  BY <1>1, <1>5, <2>1, <2>3, ResultStep DEF Outcome
  <1>6. CASE Document!Becomes(Document!SaveChanges(doc, disk, d)) /\ UNCHANGED agreed
    <2>1. PICK r \in Document!SaveChanges(doc, disk, d) : doc' = r.w /\ disk' = r.f
      BY <1>6 DEF Document!Becomes
    <2>2. Saving(doc, disk, d)  BY <1>2, <1>3 DEF Saving, Pending
    <2>3. /\ Fine(r.w, r.f)
          /\ \/ /\ r.w.stamp = doc.stamp /\ r.w.modified = doc.modified
                /\ r.w.dialog # None => r.w.dialog.kind = "pickSave"
             \/ /\ doc.stamp \in Stamps(r.f) /\ ~r.w.modified
                /\ r.w.stamp \in Stamps(r.f) \union {0}
      BY <2>1, <2>2, SaveChangesResult
    <2> QED  BY <1>1, <2>1, <2>3, ResultStep
  <1> QED  BY <1>4, <1>5, <1>6 DEF Document!Answer

LEMMA PickFileStep ==
    ASSUME DocInv, Document!DocumentAssumption, Recorded, Document!PickFile
    PROVE  DocInv' /\ Kept
  <1> DEFINE d == doc.dialog
  <1>1. d # None /\ d.kind = "pickOpen" /\ latest' = latest /\ agreed' = agreed
    BY DEF Document!PickFile, Document!Answering
  <1>2. /\ Manager(doc) /\ HeardInv(doc) /\ Disk(disk) /\ Pending(doc, d)
    BY <1>1 DEF DocInv, Fine
  <1>3. d.op = "open" /\ (doc.modified => agreed)
    BY <1>1, <1>2 DEF Pending, DocInv, KnownInv
  <1>4. CASE Document!Becomes({Document!Both(Document!Closed(doc), disk)})
    <2> DEFINE r == Document!Both(Document!Closed(doc), disk)
    <2>1. doc' = r.w /\ disk' = r.f  BY <1>4 DEF Document!Becomes
    <2>2. /\ Fine(r.w, r.f) /\ r.w.dialog = None
          /\ r.w.stamp = doc.stamp /\ r.w.modified = doc.modified
      BY <1>1, <1>3, ClosedResult
    <2> HIDE DEF r
    <2> QED  BY <1>1, <2>1, <2>2, ResultStep
  <1>5. ASSUME NEW name \in FileNames, Document!Becomes(Document!Read(doc, disk,
               name)) PROVE DocInv' /\ Kept
    <2>1. PICK r \in Document!Read(doc, disk, name) : doc' = r.w /\ disk' = r.f
      BY <1>5 DEF Document!Becomes
    <2>2. Saved(doc, disk, doc.fileName)  BY <1>1, <1>3 DEF DocInv, Fine, NameOf
    <2>3. Outcome(doc, r) /\ r.w.dialog = None  BY <1>2, <2>1, <2>2, ReadResult
    <2> QED  BY <1>1, <1>3, <2>1, <2>3, ResultStep DEF Outcome
  <1> QED  BY <1>4, <1>5 DEF Document!PickFile

LEMMA PickNameStep ==
    ASSUME DocInv, Document!DocumentAssumption, Recorded, Document!PickName
    PROVE  DocInv' /\ Kept
  <1> DEFINE d == doc.dialog
  <1>1. d # None /\ d.kind = "pickSave" /\ latest' = latest
    BY DEF Document!PickName, Document!Answering
  <1>2. /\ Manager(doc) /\ HeardInv(doc) /\ Disk(disk) /\ Pending(doc, d)
        /\ Saved(doc, disk, NameOf(doc))
    BY <1>1 DEF DocInv, Fine
  <1>3. Saving(doc, disk, d)
    BY <1>1, <1>2 DEF Saving, Pending, NameOf
  <1>4. CASE Document!Becomes(Document!GiveUp(doc, disk, d))
    <2>1. PICK r \in Document!GiveUp(doc, disk, d) : doc' = r.w /\ disk' = r.f
      BY <1>4 DEF Document!Becomes
    <2>2. /\ Fine(r.w, r.f) /\ r.w.dialog = None
          /\ r.w.stamp = doc.stamp /\ r.w.modified = doc.modified
      BY <1>2, <1>3, <2>1, GiveUpResult
    <2> QED  BY <1>1, <2>1, <2>2, ResultStep
  <1>5. ASSUME NEW name \in FileNames, Document!Becomes(Document!Write(doc, disk, name, d))
        PROVE  DocInv' /\ Kept
    <2>1. PICK r \in Document!Write(doc, disk, name, d) : doc' = r.w /\ disk' = r.f
      BY <1>5 DEF Document!Becomes
    <2>2. /\ Fine(r.w, r.f)
          /\ \/ r.w.dialog = None /\ r.w.stamp = doc.stamp /\ r.w.modified = doc.modified
             \/ /\ doc.stamp \in Stamps(r.f) /\ ~r.w.modified
                /\ r.w.stamp \in Stamps(r.f) \union {0}
      BY <1>3, <2>1, WriteResult
    <2> QED  BY <1>1, <2>1, <2>2, ResultStep
  <1> QED  BY <1>4, <1>5 DEF Document!PickName

-----------------------------------------------------------------------------
(* Automation plan: the theorems.                                            *)

LEMMA DocumentInit ==
    ASSUME Document!DocumentAssumption, Document!Init
    PROVE  DocInv
  <1>1. /\ Manager(doc) /\ HeardInv(doc)
    BY EmptySeq
    DEF Document!Init, Manager, HeardInv, Document!Offered, Names, Controls,
        Document!DocumentAssumption
  <1>2. Disk(disk) /\ Document!Intact(disk) = {}
    BY DEF Document!Init, Disk, Document!Intact
  <1>3. doc.fileName = None /\ doc.stamp = 0 /\ doc.dialog = None  BY DEF Document!Init
  <1>4. Fine(doc, disk)  BY <1>1, <1>2, <1>3 DEF Fine, Saved, NameOf
  <1>5. KnownInv  BY <1>2, <1>3 DEF Document!Init, KnownInv, Stamps
  <1> QED  BY <1>4, <1>5 DEF DocInv, Document!Init

LEMMA DocumentStep ==
    ASSUME DocInv, [Document!Next]_Document!vars, Document!DocumentAssumption
    PROVE  DocInv' /\ Kept
  <1>1. CASE Document!Next
    <2>1. Recorded
      <3>1. written' = written \union {disk'[n].stamp : n \in Document!Intact(disk')}
        BY <1>1 DEF Document!Next
      <3> QED  BY <3>1 DEF Recorded, Stamps
    <2>2. Document!NewDocument \/ Document!OpenDocument \/ Document!OpenRecent => DocInv' /\ Kept
      BY <2>1, OpenedStep DEF Document!NewDocument, Document!OpenDocument, Document!OpenRecent
    <2> QED
      BY <1>1, <2>1, <2>2, EditsStep, DeviceStep, FileGoesStep, SaveStep, AnswerStep,
         PickFileStep, PickNameStep
      DEF Document!Next
  <1>2. CASE UNCHANGED Document!vars
    BY <1>2 DEF Document!vars, DocInv, KnownInv, Kept
  <1> QED  BY <1>1, <1>2

LEMMA DocumentInvariant ==
    ASSUME Document!DocumentAssumption
    PROVE  Document!Spec => []DocInv
  <1>1. Document!Init => DocInv  BY DocumentInit
  <1>2. DocInv /\ [Document!Next]_Document!vars => DocInv'  BY DocumentStep
  <1> QED  BY <1>1, <1>2, PTL DEF Document!Spec

\* Each event hears the control the model has, once, and no other one.
THEOREM HeardOnce ==
    ASSUME Document!DocumentAssumption
    PROVE  Document!Spec => []Document!EventsHearOnce
  <1>1. DocInv => Document!EventsHearOnce
    <2> SUFFICES ASSUME DocInv PROVE Document!EventsHearOnce  OBVIOUS
    <2>1. doc.control = Document!Offered(doc) /\ doc.rows \in Seq(Heeding(doc.control))
      BY DEF DocInv, Fine, HeardInv
    <2>2. \A i \in DOMAIN doc.rows : doc.rows[i] \in Heeding(doc.control)
      BY <2>1, LenProperties, ElementOfSeq
    <2> QED  BY <2>1, <2>2 DEF Document!EventsHearOnce, Heeding
  <1> QED  BY <1>1, DocumentInvariant, PTL

\* A plan that counts as saved is in its file, unless that is gone or was damaged.
THEOREM SavedIsKept ==
    ASSUME Document!DocumentAssumption
    PROVE  Document!Spec => []Document!SavedIsOnDisk
  <1>1. DocInv => Document!SavedIsOnDisk
    BY DEF DocInv, Fine, Saved, NameOf, Document!SavedIsOnDisk
  <1> QED  BY <1>1, DocumentInvariant, PTL

\* A document goes only if people agreed to lose it, or some file had it.
THEOREM NoEditIsLost ==
    ASSUME Document!DocumentAssumption
    PROVE  Document!Spec => Document!EditsAreKept
  <1>1. DocInv /\ [Document!Next]_Document!vars =>
            [doc'.stamp # doc.stamp /\ latest' = latest => agreed'
              \/ doc.stamp \in written']_Document!vars
    BY DocumentStep DEF Kept
  <1> QED  BY <1>1, DocumentInvariant, PTL DEF Document!Spec, Document!EditsAreKept

-----------------------------------------------------------------------------
(* The choice of the device: what is inductive.                              *)

\* What the interface shows hangs together: it names devices of the list only, the page on
\* top has its box, and the box names the device that is shown, if it has that.
Framed(u, entries) ==
    /\ u \in Selection!UiType
    /\ u.page \in Pages => u.boxes[u.page] # None
    /\ u.row \in Selection!AllRows(entries) /\ u.shown \in Selection!ToSet(entries) \union {None}
    /\ \A p \in Pages : u.boxes[p] # None => u.boxes[p] \subseteq Selection!ToSet(entries)

BoxNames(u) ==
    u.picked # None => u.page \in Pages /\ u.picked = u.shown /\ u.picked \in u.boxes[u.page]

Coherent(u, entries) == Framed(u, entries) /\ BoxNames(u) /\ u.main = u.shown

\* A device that leaves is shown nowhere; its row may still be the current one.
SelectionInv ==
    /\ Selection!TypeOK /\ Selection!NoPortTwice
    /\ Coherent(ui, list)
    /\ leaving # None => ui.shown = None

-----------------------------------------------------------------------------
(* The choice of the device: rows.                                           *)

\* The least row there is.
LEMMA LeastRow ==
    ASSUME NEW n \in Nat, NEW S \in SUBSET (1..n), S # {}
    PROVE  Selection!Min(S) \in S /\ \A i \in S : Selection!Min(S) <= i
  <1>1. S \in SUBSET Nat  OBVIOUS
  <1>2. \E m \in S : \A j \in S : m <= j  BY <1>1, LeastNatural
  <1> QED  BY <1>2 DEF Selection!Min

\* And the last one: the least one, counted from the end.
LEMMA LastRow ==
    ASSUME NEW n \in Nat, NEW S \in SUBSET (1..n), S # {}
    PROVE  Selection!Max(S) \in S
  <1> DEFINE T == {n + 1 - i : i \in S}
  <1>1. T \in SUBSET Nat
    <2> SUFFICES ASSUME NEW i \in S  PROVE n + 1 - i \in Nat  OBVIOUS
    <2>1. i \in 1..n  OBVIOUS
    <2> QED  BY <2>1
  <1>2. T # {}  OBVIOUS
  <1> HIDE DEF T
  <1>3. PICK m \in T : \A j \in T : m <= j  BY <1>1, <1>2, LeastNatural
  <1>4. PICK x \in S : m = n + 1 - x  BY <1>3 DEF T
  <1>5. ASSUME NEW y \in S  PROVE x >= y
    <2>1. n + 1 - y \in T  BY DEF T
    <2>2. m <= n + 1 - y  BY <2>1, <1>3
    <2>3. x \in 1..n /\ y \in 1..n  OBVIOUS
    <2> QED  BY <2>2, <2>3, <1>4
  <1> QED  BY <1>4, <1>5 DEF Selection!Max

\* A box that is not empty has a row on top.
LEMMA TopIsIn ==
    ASSUME NEW entries \in Seq(Selection!Instances),
           NEW accepted \in SUBSET Selection!ToSet(entries), accepted # {}
    PROVE  Selection!Top(entries, accepted) \in accepted
  <1> DEFINE S == {i \in DOMAIN entries : entries[i] \in accepted}
  <1>1. DOMAIN entries = 1..Len(entries) /\ Len(entries) \in Nat  BY LenProperties
  <1>2. S \in SUBSET (1..Len(entries)) /\ S # {}  BY <1>1 DEF Selection!ToSet
  <1>3. Selection!Min(S) \in S  BY <1>1, <1>2, LeastRow
  <1> QED  BY <1>3 DEF Selection!Top

\* What is above a row is not that row.
LEMMA AboveIsIn ==
    ASSUME NEW entries \in Seq(Selection!Instances), Selection!IsInjective(entries), NEW accepted,
           NEW d \in Selection!ToSet(entries)
    PROVE  Selection!Above(entries, accepted, d) \in (accepted \ {d}) \union {None}
  <1> DEFINE at     == CHOOSE i \in DOMAIN entries : entries[i] = d
             higher == {i \in 1..(at - 1) : entries[i] \in accepted}
  <1>1. DOMAIN entries = 1..Len(entries) /\ Len(entries) \in Nat  BY LenProperties
  <1>2. at \in DOMAIN entries /\ entries[at] = d  BY DEF Selection!ToSet
  <1>3. CASE higher = {}  BY <1>3 DEF Selection!Above
  <1>4. CASE higher # {}
    <2>1. higher \in SUBSET (1..Len(entries))  BY <1>1, <1>2
    <2>2. Selection!Max(higher) \in higher  BY <1>1, <2>1, <1>4, LastRow
    <2>3. entries[Selection!Max(higher)] # d  BY <1>1, <1>2, <2>1, <2>2 DEF Selection!IsInjective
    <2>4. Selection!Above(entries, accepted, d) = entries[Selection!Max(higher)]
      BY <1>4 DEF Selection!Above
    <2> QED  BY <2>2, <2>3, <2>4
  <1> QED  BY <1>3, <1>4

\* A new device comes last.
LEMMA RowAdded ==
    ASSUME NEW entries \in Seq(Selection!Instances), Selection!IsInjective(entries),
           NEW d \in Selection!Instances,
           d \notin Selection!ToSet(entries)
    PROVE  /\ Selection!AddDevice(entries, d) \in Seq(Selection!Instances)
              /\ Selection!IsInjective(Selection!AddDevice(entries, d))
           /\ Selection!ToSet(Selection!AddDevice(entries, d)) = Selection!ToSet(entries) \union {d}
           /\ \A i \in DOMAIN entries : i \in DOMAIN Selection!AddDevice(entries, d) /\ Selection!AddDevice(entries, d)[i] = entries[i]
           /\ DOMAIN Selection!AddDevice(entries, d) = DOMAIN entries \union {Len(entries) + 1}
           /\ Selection!AddDevice(entries, d)[Len(entries) + 1] = d
  <1> DEFINE more == Append(entries, d)
  <1>1. /\ more \in Seq(Selection!Instances) /\ Len(more) = Len(entries) + 1
           /\ more[Len(entries) + 1] = d
        /\ \A i \in 1..Len(entries) : more[i] = entries[i]
    BY AppendProperties
  <1>2. DOMAIN entries = 1..Len(entries) /\ Len(entries) \in Nat
        /\ DOMAIN more = 1..(Len(entries) + 1)
    BY <1>1, LenProperties
  <1>3. DOMAIN more = DOMAIN entries \union {Len(entries) + 1}  BY <1>2
  <1>4. Selection!ToSet(more) = Selection!ToSet(entries) \union {d}
    <2> HIDE DEF more
    <2> QED  BY <1>1, <1>2, <1>3 DEF Selection!ToSet
  <1>5. Selection!IsInjective(more)
    <2> HIDE DEF more
    <2> SUFFICES ASSUME NEW i \in DOMAIN more, NEW j \in DOMAIN more, more[i] = more[j]
                 PROVE  i = j
      BY DEF Selection!IsInjective
    <2>1. \A k \in DOMAIN entries : entries[k] # d  BY DEF Selection!ToSet
    <2> QED  BY <1>1, <1>2, <1>3, <2>1 DEF Selection!IsInjective
  <1> QED  BY <1>1, <1>2, <1>3, <1>4, <1>5 DEF Selection!AddDevice

\* A device that is gone takes its row with it.
LEMMA RowRemoved ==
    ASSUME NEW entries \in Seq(Selection!Instances), Selection!IsInjective(entries),
           NEW at \in DOMAIN entries
    PROVE  /\ Selection!RemoveAt(entries, at) \in Seq(Selection!Instances)
              /\ Selection!IsInjective(Selection!RemoveAt(entries, at))
           /\ Selection!ToSet(Selection!RemoveAt(entries, at)) = Selection!ToSet(entries) \ {entries[at]}
  <1> DEFINE a == SubSeq(entries, 1, at - 1)
             c == SubSeq(entries, at + 1, Len(entries))
             less == Selection!RemoveAt(entries, at)
  <1>1. DOMAIN entries = 1..Len(entries) /\ Len(entries) \in Nat /\ at \in 1..Len(entries)
    BY LenProperties
  <1>2. /\ a \in Seq(Selection!Instances) /\ Len(a) = at - 1
        /\ \A i \in 1..(at - 1) : a[i] = entries[i]
    BY <1>1, SubSeqProperties
  <1>3. /\ c \in Seq(Selection!Instances) /\ Len(c) = Len(entries) - at
        /\ \A i \in 1..(Len(entries) - at) : c[i] = entries[at + i]
    BY <1>1, SubSeqProperties
  <1>4. less = a \o c  BY DEF Selection!RemoveAt
  <1> HIDE DEF a, c, less
  <1>5. /\ less \in Seq(Selection!Instances) /\ Len(less) = Len(entries) - 1
        /\ \A i \in 1..(Len(entries) - 1) :
              less[i] = IF i <= at - 1 THEN a[i] ELSE c[i - (at - 1)]
    <2>1. /\ less \in Seq(Selection!Instances) /\ Len(less) = Len(a) + Len(c)
          /\ \A i \in 1..(Len(a) + Len(c)) :
                less[i] = IF i <= Len(a) THEN a[i] ELSE c[i - Len(a)]
      BY <1>2, <1>3, <1>4, ConcatProperties
    <2>2. Len(a) + Len(c) = Len(entries) - 1  BY <1>1, <1>2, <1>3
    <2> QED  BY <2>1, <2>2, <1>2
  <1>6. DOMAIN less = 1..(Len(entries) - 1)  BY <1>5, LenProperties
  <1>7. \A i \in DOMAIN less : less[i] = IF i < at THEN entries[i] ELSE entries[i + 1]
    <2> TAKE i \in DOMAIN less
    <2>1. CASE i < at  BY <2>1, <1>1, <1>2, <1>5, <1>6
    <2>2. CASE i >= at
      <3>1. i - (at - 1) \in 1..(Len(entries) - at) /\ at + (i - (at - 1)) = i + 1
        BY <2>2, <1>1, <1>6
      <3> QED  BY <2>2, <3>1, <1>1, <1>3, <1>5, <1>6
    <2> QED  BY <2>1, <2>2, <1>1, <1>6
  <1>8. Selection!IsInjective(less)
    <2> SUFFICES ASSUME NEW i \in DOMAIN less, NEW j \in DOMAIN less, less[i] = less[j]
                 PROVE  i = j
      BY DEF Selection!IsInjective
    <2> DEFINE k == IF i < at THEN i ELSE i + 1
               l == IF j < at THEN j ELSE j + 1
    <2>1. entries[k] = entries[l] /\ k \in DOMAIN entries /\ l \in DOMAIN entries
      BY <1>1, <1>6, <1>7
    <2>2. k = l  BY <2>1 DEF Selection!IsInjective
    <2> QED  BY <2>2, <1>1, <1>6
  <1>9. Selection!ToSet(less) \subseteq Selection!ToSet(entries) \ {entries[at]}
    <2> SUFFICES ASSUME NEW i \in DOMAIN less
                 PROVE  less[i] \in Selection!ToSet(entries) \ {entries[at]}
      BY DEF Selection!ToSet
    <2> DEFINE k == IF i < at THEN i ELSE i + 1
    <2>1. less[i] = entries[k] /\ k \in DOMAIN entries /\ k # at  BY <1>1, <1>6, <1>7
    <2>2. entries[k] # entries[at]  BY <2>1, <1>1 DEF Selection!IsInjective
    <2> QED  BY <2>1, <2>2 DEF Selection!ToSet
  <1>10. Selection!ToSet(entries) \ {entries[at]} \subseteq Selection!ToSet(less)
    <2> SUFFICES ASSUME NEW k \in DOMAIN entries, entries[k] # entries[at]
                 PROVE  entries[k] \in Selection!ToSet(less)
      BY DEF Selection!ToSet
    <2>1. k # at /\ k \in 1..Len(entries)  BY <1>1
    <2>2. CASE k < at
      <3>1. k \in DOMAIN less /\ less[k] = entries[k]  BY <2>1, <2>2, <1>1, <1>6, <1>7
      <3> QED  BY <3>1 DEF Selection!ToSet
    <2>3. CASE k > at
      <3>1. k - 1 \in DOMAIN less /\ ~(k - 1 < at) /\ (k - 1) + 1 = k
        BY <2>1, <2>3, <1>1, <1>6
      <3>2. less[k - 1] = entries[k]  BY <3>1, <1>7
      <3> QED  BY <3>1, <3>2 DEF Selection!ToSet
    <2> QED  BY <2>1, <2>2, <2>3, <1>1
  <1> QED  BY <1>5, <1>8, <1>9, <1>10 DEF less

-----------------------------------------------------------------------------
(* The choice of the device: the chain of signals.                           *)

\* A page that is shown has its box, which names the device if it has it.
LEMMA PageIsShown ==
    ASSUME Selection!SelectionAssumption, NEW entries \in Seq(Selection!Instances), NEW devices,
           NEW u,
           Framed(u, entries), NEW p \in Pages \union {Selection!Connect0}
    PROVE  LET r == Selection!ShownPage(u, devices, entries, p)
           IN  /\ Framed(r, entries) /\ BoxNames(r)
               /\ r.main = u.main /\ r.shown = u.shown /\ r.row = u.row
  <1> DEFINE made == IF p = Selection!Connect0 \/ u.boxes[p] # None THEN u.boxes
                     ELSE [u.boxes EXCEPT ![p] = {d \in Selection!ToSet(entries) : Selection!Accepts(devices, p, d)}]
             holds == p # Selection!Connect0 /\ u.shown # None /\ u.shown \in made[p]
             picked == IF holds THEN u.shown ELSE None
             r == Selection!ShownPage(u, devices, entries, p)
  <1>1. u \in Selection!UiType /\ u.boxes \in [Pages -> (SUBSET Selection!Instances) \union {None}]
    BY DEF Framed, Selection!UiType
  <1>2. Selection!ToSet(entries) \subseteq Selection!Instances
    <2>1. \A i \in DOMAIN entries : entries[i] \in Selection!Instances
      BY LenProperties, ElementOfSeq
    <2> QED  BY <2>1 DEF Selection!ToSet
  <1>3. /\ made \in [Pages -> (SUBSET Selection!Instances) \union {None}]
        /\ \A q \in Pages : made[q] # None => made[q] \subseteq Selection!ToSet(entries)
        /\ p \in Pages => made[p] # None
    <2>1. CASE p = Selection!Connect0 \/ u.boxes[p] # None
      BY <2>1, <1>1 DEF Framed, Selection!SelectionAssumption
    <2>2. CASE p # Selection!Connect0 /\ u.boxes[p] = None
      <3> DEFINE new == {d \in Selection!ToSet(entries) : Selection!Accepts(devices, p, d)}
      <3>1. new \in SUBSET Selection!Instances /\ new \subseteq Selection!ToSet(entries)
            /\ p \in Pages
        BY <2>2, <1>2
      <3>2. new # None  BY <3>1 DEF Selection!SelectionAssumption
      <3>3. made = [u.boxes EXCEPT ![p] = new]  BY <2>2
      <3> HIDE DEF new, made
      <3>4. made \in [Pages -> (SUBSET Selection!Instances) \union {None}] /\ made[p] = new
            /\ \A q \in Pages : q # p => made[q] = u.boxes[q]
        BY <3>1, <3>3, <1>1
      <3> QED  BY <3>1, <3>2, <3>4 DEF Framed
    <2> QED  BY <2>1, <2>2
  <1>4. picked \in Selection!Instances \union {None}  BY <1>1 DEF Selection!UiType
  <1>5. r = [u EXCEPT !.page = p, !.boxes = made, !.picked = picked]  BY DEF Selection!ShownPage
  <1>6. picked # None => p \in Pages /\ picked = u.shown /\ picked \in made[p]  OBVIOUS
  <1> HIDE DEF made, holds, picked, r
  <1>7. /\ r \in Selection!UiType /\ r.page = p /\ r.boxes = made /\ r.picked = picked
        /\ r.main = u.main /\ r.shown = u.shown /\ r.row = u.row
    BY <1>1, <1>3, <1>4, <1>5 DEF Selection!UiType
  <1>8. Framed(r, entries)  BY <1>3, <1>7 DEF Framed
  <1>9. BoxNames(r)  BY <1>6, <1>7 DEF BoxNames
  <1> QED  BY <1>7, <1>8, <1>9 DEF r

\* The state of the device may send the window back to the page with the list.
LEMMA StateIsTold ==
    ASSUME Selection!SelectionAssumption, NEW entries \in Seq(Selection!Instances), NEW devices,
           NEW u,
           Framed(u, entries)
    PROVE  LET r == Selection!ToldState(u, devices, entries)
           IN  /\ Framed(r, entries) /\ (BoxNames(u) => BoxNames(r))
               /\ r.main = u.main /\ r.shown = u.shown /\ r.row = u.row
  <1> DEFINE told == [u EXCEPT !.menu = devices[u.main].state = "Connected"]
             r == Selection!ToldState(u, devices, entries)
  <1>1. u \in Selection!UiType  BY DEF Framed
  <1>2. /\ told \in Selection!UiType /\ told.page = u.page /\ told.boxes = u.boxes
        /\ told.picked = u.picked /\ told.main = u.main /\ told.shown = u.shown
        /\ told.row = u.row
    BY <1>1 DEF Selection!UiType
  <1>3. r = IF u.page = Selection!Connect0 \/ u.page \in u.usable THEN told
            ELSE Selection!ShownPage(told, devices, entries, Selection!Connect0)
    BY DEF Selection!ToldState
  <1> HIDE DEF told, r
  <1>4. Framed(told, entries) /\ (BoxNames(u) => BoxNames(told))  BY <1>2 DEF Framed, BoxNames
  <1>5. CASE u.page = Selection!Connect0 \/ u.page \in u.usable  BY <1>5, <1>2, <1>3, <1>4 DEF r
  <1>6. CASE ~(u.page = Selection!Connect0 \/ u.page \in u.usable)
    BY <1>6, <1>2, <1>3, <1>4, PageIsShown DEF r
  <1> QED  BY <1>5, <1>6

\* The main window takes the device that is shown, and the box names that or nothing.
LEMMA DeviceIsTold ==
    ASSUME Selection!SelectionAssumption, NEW entries \in Seq(Selection!Instances), NEW devices,
           NEW u,
           Framed(u, entries), u.main = u.shown => BoxNames(u)
    PROVE  LET r == Selection!ToldDevice(u, devices, entries, u.shown)
           IN  Coherent(r, entries) /\ r.shown = u.shown /\ r.row = u.row
  <1> DEFINE d == u.shown
             handed == [u EXCEPT !.main = d, !.usable = Selection!Usable(devices, d)]
             told   == IF d = None THEN handed ELSE Selection!ToldState(handed, devices, entries)
             holds  == d # None /\ told.page # Selection!Connect0 /\ d \in told.boxes[told.page]
             r      == Selection!ToldDevice(u, devices, entries, d)
  <1>1. u \in Selection!UiType  BY DEF Framed
  <1>2. CASE d = u.main
    <2>1. r = u  BY <1>2 DEF Selection!ToldDevice
    <2> QED  BY <2>1, <1>2 DEF Coherent
  <1>3. CASE d # u.main
    <2>1. Selection!Usable(devices, d) \in SUBSET Pages  BY DEF Selection!Usable
    <2>2. /\ handed \in Selection!UiType /\ handed.page = u.page /\ handed.boxes = u.boxes
          /\ handed.main = d /\ handed.shown = d /\ handed.row = u.row
      BY <1>1, <2>1 DEF Selection!UiType
    <2>3. r = [told EXCEPT !.picked = IF holds THEN d ELSE None]  BY <1>3 DEF Selection!ToldDevice
    <2> HIDE DEF handed
    <2>4. Framed(handed, entries)  BY <2>2 DEF Framed
    <2>5. Framed(told, entries) /\ told.main = d /\ told.shown = d /\ told.row = u.row
      BY <2>2, <2>4, StateIsTold
    <2> HIDE DEF told, r
    <2>6. told \in Selection!UiType /\ d \in Selection!Instances \union {None}
      BY <1>1, <2>5 DEF Framed, Selection!UiType
    <2>7. /\ r \in Selection!UiType /\ r.page = told.page /\ r.boxes = told.boxes
          /\ r.main = d /\ r.shown = d /\ r.row = u.row
          /\ r.picked = IF holds THEN d ELSE None
      BY <2>3, <2>5, <2>6 DEF Selection!UiType
    <2>8. Framed(r, entries)  BY <2>5, <2>7 DEF Framed
    <2>9. BoxNames(r)
      <3>1. told.page # Selection!Connect0 => told.page \in Pages  BY <2>6 DEF Selection!UiType
      <3> QED  BY <2>7, <3>1 DEF BoxNames
    <2> QED  BY <2>7, <2>8, <2>9 DEF Coherent, r
  <1> QED  BY <1>2, <1>3

\* The form is enabled or not.
LEMMA FormType ==
    ASSUME NEW devices, NEW d
    PROVE  Selection!Form(devices, d) \in BOOLEAN
  BY DEF Selection!Form

\* The device of another row that becomes current is the one shown then.
LEMMA RowIsCurrent ==
    ASSUME Selection!SelectionAssumption, NEW entries \in Seq(Selection!Instances), NEW devices,
           NEW u,
           Coherent(u, entries), NEW k \in Selection!AllRows(entries)
    PROVE  LET r == Selection!CurrentRow(u, devices, entries, k)
           IN  /\ Coherent(r, entries) /\ r.row = k
               /\ k # u.row => r.shown = (IF k = Selection!AddRow THEN None ELSE k)
  <1> DEFINE d == IF k = Selection!AddRow THEN None ELSE k
             w == [u EXCEPT !.row = k, !.shown = d, !.form = Selection!Form(devices, d)]
             r == Selection!CurrentRow(u, devices, entries, k)
  <1>1. u \in Selection!UiType  BY DEF Coherent, Framed
  <1>2. /\ d \in Selection!ToSet(entries) \union {None}
           /\ k \in Selection!Instances \union {Selection!AddRow}
        /\ d \in Selection!Instances \union {None}
    <2>1. Selection!ToSet(entries) \subseteq Selection!Instances
      <3>1. \A i \in DOMAIN entries : entries[i] \in Selection!Instances
        BY LenProperties, ElementOfSeq
      <3> QED  BY <3>1 DEF Selection!ToSet
    <2> QED  BY <2>1 DEF Selection!AllRows
  <1>3. r = IF k = u.row THEN u
            ELSE IF d = u.shown THEN w ELSE Selection!ToldDevice(w, devices, entries, d)
    BY DEF Selection!CurrentRow
  <1> HIDE DEF d, r
  <1>4. /\ w \in Selection!UiType /\ w.page = u.page /\ w.boxes = u.boxes /\ w.picked = u.picked
        /\ w.main = u.main /\ w.shown = d /\ w.row = k
    BY <1>1, <1>2, FormType DEF Selection!UiType
  <1> HIDE DEF w
  <1>5. CASE k = u.row  BY <1>3, <1>5 DEF r
  <1>6. CASE k # u.row /\ d = u.shown
    <2>1. Coherent(w, entries)  BY <1>4, <1>6 DEF Coherent, Framed, BoxNames
    <2> QED  BY <1>3, <1>4, <1>6, <2>1 DEF r, d
  <1>7. CASE k # u.row /\ d # u.shown
    <2>1. Framed(w, entries) /\ w.main # w.shown  BY <1>2, <1>4, <1>7 DEF Coherent, Framed
    <2>2. r = Selection!ToldDevice(w, devices, entries, w.shown)  BY <1>3, <1>4, <1>7
    <2>3. Coherent(r, entries) /\ r.shown = d /\ r.row = k  BY <1>4, <2>1, <2>2, DeviceIsTold
    <2> QED  BY <2>3 DEF r, d
  <1> QED  BY <1>5, <1>6, <1>7

\* What is picked in the box of the page on top is the device shown then.
LEMMA PickIsShown ==
    ASSUME Selection!SelectionAssumption, NEW entries \in Seq(Selection!Instances), NEW devices,
           NEW u,
           Framed(u, entries), u.main = u.shown, u.page \in Pages,
           NEW d, d # None => d \in u.boxes[u.page]
    PROVE  Coherent(Selection!PickedInBox(u, devices, entries, d), entries)
  <1> DEFINE here == [u EXCEPT !.picked = d]
             r == Selection!PickedInBox(u, devices, entries, d)
  <1>1. u \in Selection!UiType  BY DEF Framed
  <1>2. d # None => d \in Selection!ToSet(entries) /\ d \in Selection!Instances
    <2>1. u.boxes[u.page] \in (SUBSET Selection!Instances) \union {None}
      BY <1>1 DEF Selection!UiType
    <2> QED  BY <2>1 DEF Framed
  <1>3. /\ here \in Selection!UiType /\ here.page = u.page /\ here.boxes = u.boxes
           /\ here.picked = d
        /\ here.main = u.main /\ here.shown = u.shown /\ here.row = u.row
    BY <1>1, <1>2 DEF Selection!UiType
  <1>4. CASE d = None \/ d = u.shown
    <2>1. r = here  BY <1>4 DEF Selection!PickedInBox
    <2> HIDE DEF r, here
    <2>2. Framed(here, entries)  BY <1>3 DEF Framed
    <2>3. BoxNames(here)  BY <1>3, <1>4 DEF BoxNames
    <2> QED  BY <1>3, <2>1, <2>2, <2>3 DEF Coherent, r
  <1>5. CASE ~(d = None \/ d = u.shown)
    <2> DEFINE w == [here EXCEPT !.shown = d]
    <2>1. r = Selection!ToldDevice(w, devices, entries, d)  BY <1>5 DEF Selection!PickedInBox
    <2> HIDE DEF here, r
    <2>2. /\ w \in Selection!UiType /\ w.page = u.page /\ w.boxes = u.boxes
          /\ w.main = u.main /\ w.shown = d /\ w.row = u.row
      BY <1>2, <1>3, <1>5 DEF Selection!UiType
    <2> HIDE DEF w
    <2>3. Framed(w, entries) /\ w.main # w.shown  BY <2>2, <1>2, <1>5 DEF Framed
    <2>4. Coherent(r, entries)  BY <2>1, <2>2, <2>3, DeviceIsTold
    <2> QED  BY <2>4 DEF r
  <1> QED  BY <1>4, <1>5

\* When its rows change, a box picks another one only in place of one that is gone, or
\* when it had none.
LEMMA BoxIsTold ==
    ASSUME Selection!SelectionAssumption, NEW entries \in Seq(Selection!Instances),
           Selection!IsInjective(entries), NEW devices,
           NEW u, Framed(u, entries), u.main = u.shown, u.page \in Pages,
           NEW before \in SUBSET Selection!ToSet(entries), NEW after, after = u.boxes[u.page],
           u.picked # None => u.picked = u.shown /\ u.picked \in before,
           u.picked # None /\ u.picked \notin after => before \ {u.picked} \subseteq after
    PROVE  Coherent(Selection!BoxTold(u, devices, entries, before, after), entries)
  <1> DEFINE r == Selection!BoxTold(u, devices, entries, before, after)
  <1>1. after # None /\ after \subseteq Selection!ToSet(entries)  BY DEF Framed
  <1>2. CASE before = {} /\ after # {} /\ u.picked = None
    <2> DEFINE d == Selection!Top(entries, after)
    <2>1. d \in after  BY <1>1, <1>2, TopIsIn
    <2>2. r = Selection!PickedInBox(u, devices, entries, d)  BY <1>2 DEF Selection!BoxTold
    <2> HIDE DEF d
    <2> QED  BY <2>1, <2>2, PickIsShown
  <1>3. CASE u.picked # None /\ u.picked \notin after
    <2> DEFINE d == Selection!Above(entries, before, u.picked)
    <2>1. d \in (before \ {u.picked}) \union {None}  BY <1>3, AboveIsIn
    <2>2. r = Selection!PickedInBox(u, devices, entries, d)  BY <1>3 DEF Selection!BoxTold
    <2> HIDE DEF d
    <2>3. d # None => d \in after  BY <2>1, <1>3
    <2> QED  BY <2>2, <2>3, PickIsShown
  <1>4. CASE /\ ~(before = {} /\ after # {} /\ u.picked = None)
             /\ ~(u.picked # None /\ u.picked \notin after)
    <2>1. r = u  BY <1>4 DEF Selection!BoxTold
    <2>2. BoxNames(u)  BY <1>4 DEF BoxNames
    <2> QED  BY <2>1, <2>2 DEF Coherent
  <1> QED  BY <1>2, <1>3, <1>4

\* The boxes take a device or drop it, and nothing but the box on top changes what is shown;
\* that keeps what is shown as long as it accepts the device that is.
LEMMA BoxesAreFiltered ==
    ASSUME Selection!SelectionAssumption, NEW entries \in Seq(Selection!Instances),
           Selection!IsInjective(entries), NEW devices,
           NEW u, Coherent(u, entries), NEW d \in Selection!ToSet(entries)
    PROVE  LET r == Selection!Refiltered(u, devices, entries, d)
           IN  /\ Coherent(r, entries)
               /\ d = u.shown
                  /\ (u.page = Selection!Connect0 \/ Selection!Accepts(devices, u.page, d))
                      => r.shown = u.shown
  <1> DEFINE kept(p) == IF Selection!Accepts(devices, p, d) THEN u.boxes[p] \union {d}
                        ELSE u.boxes[p] \ {d}
             boxes == [p \in Pages |-> IF u.boxes[p] = None THEN None
                                       ELSE IF Selection!Accepts(devices, p, d)
                                            THEN u.boxes[p] \union {d} ELSE u.boxes[p] \ {d}]
             told == [u EXCEPT !.boxes = boxes]
             r == Selection!Refiltered(u, devices, entries, d)
  <1>1. u \in Selection!UiType /\ u.boxes \in [Pages -> (SUBSET Selection!Instances) \union {None}]
    BY DEF Coherent, Framed, Selection!UiType
  <1>2. d \in Selection!Instances /\ d \in Selection!ToSet(entries)
    <2>1. \A i \in DOMAIN entries : entries[i] \in Selection!Instances
      BY LenProperties, ElementOfSeq
    <2> QED  BY <2>1 DEF Selection!ToSet
  <1>3. \A p \in Pages : /\ u.boxes[p] = None => boxes[p] = None
                         /\ u.boxes[p] # None => boxes[p] = kept(p)
    OBVIOUS
  <1>4. \A p \in Pages : u.boxes[p] # None =>
            /\ kept(p) \in SUBSET Selection!Instances /\ kept(p) \subseteq Selection!ToSet(entries)
            /\ kept(p) # None
    <2> SUFFICES ASSUME NEW p \in Pages, u.boxes[p] # None
                 PROVE  /\ kept(p) \in SUBSET Selection!Instances
                           /\ kept(p) \subseteq Selection!ToSet(entries)
                        /\ kept(p) # None
      OBVIOUS
    <2>1. u.boxes[p] \in SUBSET Selection!Instances /\ u.boxes[p] \subseteq Selection!ToSet(entries)
      BY <1>1 DEF Coherent, Framed
    <2>2. kept(p) \in SUBSET Selection!Instances /\ kept(p) \subseteq Selection!ToSet(entries)
      BY <1>2, <2>1
    <2> HIDE DEF kept
    <2>3. kept(p) # None  BY <2>2 DEF Selection!SelectionAssumption
    <2> QED  BY <2>2, <2>3
  <1>5. boxes \in [Pages -> (SUBSET Selection!Instances) \union {None}]
    <2>1. ASSUME NEW p \in Pages PROVE boxes[p] \in (SUBSET Selection!Instances) \union {None}
      BY <1>3, <1>4
    <2>2. boxes = [p \in Pages |-> boxes[p]]  OBVIOUS
    <2> HIDE DEF boxes
    <2> QED  BY <2>1, <2>2
  <1>6. r = IF told.page = Selection!Connect0 THEN told
            ELSE Selection!BoxTold(told, devices, entries, u.boxes[u.page], boxes[u.page])
    <2>1. told.page = u.page  BY <1>1 DEF Selection!UiType
    <2> QED  BY <2>1 DEF Selection!Refiltered
  <1> HIDE DEF kept, boxes, r
  <1>7. /\ told \in Selection!UiType /\ told.page = u.page /\ told.boxes = boxes
        /\ told.picked = u.picked /\ told.main = u.main /\ told.shown = u.shown
        /\ told.row = u.row
    BY <1>1, <1>5 DEF Selection!UiType
  <1> HIDE DEF told
  <1>8. Framed(told, entries)  BY <1>3, <1>4, <1>7 DEF Coherent, Framed
  <1>9. told.main = told.shown  BY <1>7 DEF Coherent
  <1>10. CASE u.page = Selection!Connect0
    <2>1. BoxNames(told)  BY <1>7, <1>10 DEF Coherent, BoxNames, Selection!SelectionAssumption
    <2>2. r = told  BY <1>6, <1>7, <1>10
    <2> QED  BY <2>1, <2>2, <1>7, <1>8, <1>9 DEF Coherent, r
  <1>11. CASE u.page # Selection!Connect0
    <2> DEFINE before == u.boxes[u.page]
               after  == boxes[u.page]
    <2>1. u.page \in Pages /\ before # None /\ before \in SUBSET Selection!ToSet(entries)
      BY <1>1, <1>11 DEF Selection!UiType, Coherent, Framed
    <2>2. after = kept(u.page) /\ after = told.boxes[told.page]  BY <1>3, <1>7, <2>1
    <2>3. u.picked # None => u.picked = u.shown /\ u.picked \in before
      BY DEF Coherent, BoxNames
    <2>4. u.picked # None /\ u.picked \notin after => before \ {u.picked} \subseteq after
      BY <2>2, <2>3 DEF kept
    <2>5. r = Selection!BoxTold(told, devices, entries, before, after)  BY <1>6, <1>7, <1>11
    <2>6. ASSUME d = u.shown, Selection!Accepts(devices, u.page, d)  PROVE r.shown = u.shown
      <3>1. after = before \union {d}  BY <2>2, <2>6 DEF kept
      <3>2. ~(told.picked # None /\ told.picked \notin after)  BY <1>7, <2>3, <2>6, <3>1
      <3>3. CASE before = {} /\ after # {} /\ told.picked = None
        <4>1. after = {d}  BY <3>1, <3>3
        <4>2. Selection!Top(entries, after) \in after  BY <4>1, TopIsIn
        <4>3. Selection!Top(entries, after) = told.shown  BY <4>1, <4>2, <2>6, <1>7
        <4>4. r = Selection!PickedInBox(told, devices, entries, Selection!Top(entries, after))
          BY <2>5, <3>3 DEF Selection!BoxTold
        <4>5. r = [told EXCEPT !.picked = Selection!Top(entries, after)]
          BY <4>3, <4>4 DEF Selection!PickedInBox
        <4> QED  BY <4>5, <1>7 DEF Selection!UiType
      <3>4. CASE ~(before = {} /\ after # {} /\ told.picked = None)
        <4>1. r = told  BY <2>5, <3>2, <3>4 DEF Selection!BoxTold
        <4> QED  BY <4>1, <1>7
      <3> QED  BY <3>3, <3>4
    <2> HIDE DEF before, after
    <2>7. Coherent(r, entries)
      BY <1>7, <1>8, <1>9, <2>1, <2>2, <2>3, <2>4, <2>5, BoxIsTold
    <2> QED  BY <2>6, <2>7, <1>11 DEF r
  <1> QED  BY <1>10, <1>11

\* A device reports its state to the list first, and to the main window then.
LEMMA StateIsReported ==
    ASSUME Selection!SelectionAssumption, NEW entries \in Seq(Selection!Instances),
           Selection!IsInjective(entries), NEW devices,
           NEW u, Coherent(u, entries), NEW d \in Selection!ToSet(entries)
    PROVE  LET r == Selection!Reported(u, devices, entries, d)
           IN  /\ Coherent(r, entries)
               /\ d = u.shown
                  /\ (u.page = Selection!Connect0 \/ Selection!Accepts(devices, u.page, d))
                      => r.shown = u.shown
  <1> DEFINE w == [u EXCEPT !.form = Selection!Form(devices, u.shown)]
             listed == Selection!Refiltered(w, devices, entries, d)
             r == Selection!Reported(u, devices, entries, d)
  <1>1. r = IF listed.main = d THEN Selection!ToldState(listed, devices, entries) ELSE listed
    BY DEF Selection!Reported
  <1>2. /\ Coherent(listed, entries)
        /\ d = u.shown /\ (u.page = Selection!Connect0 \/ Selection!Accepts(devices, u.page, d))
               => listed.shown = u.shown
    <2>1. u \in Selection!UiType  BY DEF Coherent, Framed
    <2>2. /\ w \in Selection!UiType /\ w.page = u.page /\ w.boxes = u.boxes /\ w.picked = u.picked
          /\ w.main = u.main /\ w.shown = u.shown /\ w.row = u.row
      BY <2>1, FormType DEF Selection!UiType
    <2> HIDE DEF w
    <2>3. Coherent(w, entries)  BY <2>2 DEF Coherent, Framed, BoxNames
    <2> QED  BY <2>2, <2>3, BoxesAreFiltered
  <1> HIDE DEF listed, r
  <1>3. CASE listed.main = d
    <2>1. r = Selection!ToldState(listed, devices, entries)  BY <1>1, <1>3
    <2>2. /\ Framed(r, entries) /\ BoxNames(r)
          /\ r.main = listed.main /\ r.shown = listed.shown /\ r.row = listed.row
      BY <2>1, <1>2, StateIsTold DEF Coherent
    <2> QED  BY <2>2, <1>2 DEF Coherent, r
  <1>4. CASE listed.main # d  BY <1>1, <1>2, <1>4 DEF r
  <1> QED  BY <1>3, <1>4

-----------------------------------------------------------------------------
(* The choice of the device: the steps.                                      *)

\* Devices that keep their types and targets are no second ones at a port.
LEMMA DeviceChanges ==
    ASSUME SelectionInv, Selection!SelectionAssumption, NEW d \in Selection!Instances,
           device[d] # None,
           NEW e \in Selection!DeviceType, e.type = device[d].type, e.target = device[d].target,
           device' = [device EXCEPT ![d] = e], list' = list
    PROVE  /\ device' \in [Selection!Instances -> Selection!DeviceType \union {None}]
           /\ \A x \in Selection!Instances : device'[x] # None <=> x \in Selection!ToSet(list')
           /\ Selection!NoPortTwice'
  <1>1. device \in [Selection!Instances -> Selection!DeviceType \union {None}]
        /\ list \in Seq(Selection!Instances)
        /\ \A x \in Selection!Instances : device[x] # None <=> x \in Selection!ToSet(list)
    BY DEF SelectionInv, Selection!TypeOK
  <1>2. /\ device' \in [Selection!Instances -> Selection!DeviceType \union {None}]
        /\ device'[d] = e /\ \A x \in Selection!Instances : x # d => device'[x] = device[x]
    BY <1>1
  <1>3. e # None  BY DEF Selection!SelectionAssumption
  <1>4. \A x \in Selection!Instances : /\ device'[x] # None <=> device[x] # None
                             /\ device'[x].type = device[x].type
                             /\ device'[x].target = device[x].target
    BY <1>2, <1>3
  <1>5. \A i \in DOMAIN list : list[i] \in Selection!Instances  BY <1>1, LenProperties, ElementOfSeq
  <1>6. Selection!NoPortTwice'
    <2> SUFFICES ASSUME NEW i \in DOMAIN list, NEW j \in DOMAIN list, i # j,
                        device'[list[i]].type # "z21",
                        device'[list[i]].type = device'[list[j]].type
                 PROVE  device'[list[i]].target # device'[list[j]].target
      BY DEF Selection!NoPortTwice
    <2> QED  BY <1>4, <1>5 DEF SelectionInv, Selection!NoPortTwice
  <1> QED  BY <1>1, <1>2, <1>4, <1>6

\* One more device was created, or station locked.
LEMMA Spending ==
    ASSUME Selection!SelectionAssumption, Selection!TypeOK
    PROVE  /\ spent[1] < MaxCreated
                 => [spent EXCEPT ![1] = @ + 1] \in (0..MaxCreated) \X (0..MaxLocks)
           /\ spent[2] < MaxLocks
                 => [spent EXCEPT ![2] = @ + 1] \in (0..MaxCreated) \X (0..MaxLocks)
  <1>1. PICK a \in 0..MaxCreated, b \in 0..MaxLocks : spent = <<a, b>>  BY DEF Selection!TypeOK
  <1>2. /\ [spent EXCEPT ![1] = @ + 1] = <<a + 1, b>>
        /\ [spent EXCEPT ![2] = @ + 1] = <<a, b + 1>>
        /\ spent[1] = a /\ spent[2] = b
    BY <1>1
  <1>3. MaxCreated \in Nat /\ MaxLocks \in Nat  BY DEF Selection!SelectionAssumption
  <1> QED  BY <1>2, <1>3

\* What a step needs of the list.
LEMMA ListTypes ==
    ASSUME SelectionInv
    PROVE  /\ list \in Seq(Selection!Instances) /\ Selection!IsInjective(list)
              /\ Selection!ToSet(list) \subseteq Selection!Instances
           /\ ui \in Selection!UiType /\ Coherent(ui, list)
           /\ \A i \in DOMAIN list : list[i] \in Selection!Instances
           /\ \A x \in Selection!Instances : device[x] # None <=> x \in Selection!ToSet(list)
           /\ device \in [Selection!Instances -> Selection!DeviceType \union {None}]
           /\ ui.shown # None => ui.shown \in Selection!ToSet(list)
  <1>1. list \in Seq(Selection!Instances)  BY DEF SelectionInv, Selection!TypeOK
  <1>2. \A i \in DOMAIN list : list[i] \in Selection!Instances  BY <1>1, LenProperties, ElementOfSeq
  <1>3. Selection!ToSet(list) \subseteq Selection!Instances  BY <1>2 DEF Selection!ToSet
  <1> QED  BY <1>1, <1>2, <1>3 DEF SelectionInv, Selection!TypeOK, Coherent, Framed

\* When nothing leaves, a step that keeps the devices keeps the invariant.
LEMMA IdleStep ==
    ASSUME SelectionInv, Selection!Idle, UNCHANGED <<device, list, leaving, spent>>,
           Coherent(ui', list)
    PROVE  SelectionInv' /\ Selection!ShownDeviceGoes
  <1>1. Selection!TypeOK'  BY DEF SelectionInv, Selection!TypeOK, Coherent, Framed
  <1>2. Selection!NoPortTwice'  BY DEF SelectionInv, Selection!NoPortTwice
  <1>3. leaving' = None /\ Coherent(ui', list')  BY DEF Selection!Idle
  <1>4. Coherent(ui, list)'  BY <1>3
  <1> QED  BY <1>1, <1>2, <1>3, <1>4 DEF SelectionInv, Selection!ShownDeviceGoes

LEMMA ShowPageStep ==
    ASSUME SelectionInv, Selection!SelectionAssumption,
           NEW p \in Pages \union {Selection!Connect0}, Selection!ShowPage(p)
    PROVE  SelectionInv' /\ Selection!ShownDeviceGoes
  <1>1. Coherent(ui, list) /\ list \in Seq(Selection!Instances)  BY ListTypes
  <1>2. ui' = Selection!ShownPage(ui, device, list, p)  BY DEF Selection!ShowPage
  <1>3. /\ Framed(ui', list) /\ BoxNames(ui')
        /\ ui'.main = ui.main /\ ui'.shown = ui.shown /\ ui'.row = ui.row
    BY <1>1, <1>2, PageIsShown DEF Coherent
  <1>4. Coherent(ui', list)  BY <1>1, <1>3 DEF Coherent
  <1> QED  BY <1>4, IdleStep DEF Selection!ShowPage

LEMMA PickDeviceStep ==
    ASSUME SelectionInv, Selection!SelectionAssumption, NEW d \in Selection!Instances,
           Selection!PickDevice(d)
    PROVE  SelectionInv' /\ Selection!ShownDeviceGoes
  <1>1. Coherent(ui, list) /\ list \in Seq(Selection!Instances) /\ ui \in Selection!UiType
    BY ListTypes
  <1>2. ui.page \in Pages /\ d \in ui.boxes[ui.page]
    BY <1>1 DEF Selection!PickDevice, Selection!UiType
  <1>3. ui' = Selection!PickedInBox(ui, device, list, d)  BY DEF Selection!PickDevice
  <1>4. Coherent(ui', list)  BY <1>1, <1>2, <1>3, PickIsShown DEF Coherent
  <1> QED  BY <1>4, IdleStep DEF Selection!PickDevice

LEMMA SelectRowStep ==
    ASSUME SelectionInv, Selection!SelectionAssumption,
           NEW r \in Selection!Instances \union {Selection!AddRow}, Selection!SelectRow(r)
    PROVE  SelectionInv' /\ Selection!ShownDeviceGoes
  <1>1. Coherent(ui', list)  BY ListTypes, RowIsCurrent DEF Selection!SelectRow
  <1> QED  BY <1>1, IdleStep DEF Selection!SelectRow

\* The form looks at the device once more.
LEMMA EditFormStep ==
    ASSUME SelectionInv, Selection!SelectionAssumption, Selection!EditForm
    PROVE  SelectionInv' /\ Selection!ShownDeviceGoes
  <1> DEFINE form == Selection!Form(device, ui.shown)
  <1>1. ui' = [ui EXCEPT !.form = form] /\ form \in BOOLEAN  BY FormType DEF Selection!EditForm
  <1> HIDE DEF form
  <1>2. /\ ui' \in Selection!UiType /\ ui'.page = ui.page /\ ui'.boxes = ui.boxes
        /\ ui'.picked = ui.picked /\ ui'.main = ui.main /\ ui'.shown = ui.shown
        /\ ui'.row = ui.row
    BY <1>1, ListTypes DEF Selection!UiType
  <1>3. Coherent(ui', list)  BY <1>2, ListTypes DEF Coherent, Framed, BoxNames
  <1> QED  BY <1>3, IdleStep DEF Selection!EditForm

\* A device of another id is a new row, and not a second one at its port.
LEMMA ConnectStep ==
    ASSUME SelectionInv, Selection!SelectionAssumption, NEW type \in Selection!Types,
           NEW target \in TargetsOf[type], Selection!Connect(type, target)
    PROVE  SelectionInv' /\ Selection!ShownDeviceGoes
  <1> DEFINE new  == [type |-> type, target |-> target, state |-> "Disconnected",
                      named |-> FALSE, able |-> FALSE]
             same == {i \in DOMAIN list : Selection!UniqueId(device[list[i]]) = Selection!UniqueId(new)}
             free == {i \in Selection!Instances : device[i] = None} \union {MaxDevices + 1}
  <1>1. Selection!Idle  BY DEF Selection!Connect
  <1>2. CASE same # {}
    <2>1. ui' = Selection!CurrentRow(ui, device, list, list[Selection!Min(same)])
          /\ UNCHANGED <<device, list, leaving, spent>>
      BY <1>2 DEF Selection!Connect
    <2>2. DOMAIN list = 1..Len(list) /\ Len(list) \in Nat  BY ListTypes, LenProperties
    <2>3. Selection!Min(same) \in same  BY <1>2, <2>2, LeastRow
    <2>4. list[Selection!Min(same)] \in Selection!AllRows(list)
      BY <2>3 DEF Selection!AllRows, Selection!ToSet
    <2>5. Coherent(ui', list)  BY <2>1, <2>4, ListTypes, RowIsCurrent
    <2> QED  BY <1>1, <2>1, <2>5, IdleStep
  <1>3. CASE same = {}
    <2>1. PICK d \in {Selection!Min(free)} \intersect Selection!Instances, state \in {"Disconnected", "Connecting"} :
             LET entries   == Selection!AddDevice(list, d)
                 before == [device EXCEPT ![d] = new]
                 after  == [before EXCEPT ![d].state = state]
                 added  == Selection!Refiltered(ui, before, entries, d)
                 chosen == Selection!CurrentRow(added, before, entries, d)
             IN /\ device' = after /\ list' = entries
                /\ ui' = IF state = new.state THEN chosen ELSE Selection!Reported(chosen, after, entries, d)
      BY <1>3 DEF Selection!Connect
    <2>2. leaving' = leaving /\ spent[1] < MaxCreated /\ spent' = [spent EXCEPT ![1] = @ + 1]
      BY <1>3 DEF Selection!Connect
    <2> DEFINE entries   == Selection!AddDevice(list, d)
               before == [device EXCEPT ![d] = new]
               after  == [before EXCEPT ![d].state = state]
               added  == Selection!Refiltered(ui, before, entries, d)
               chosen == Selection!CurrentRow(added, before, entries, d)
    <2>3. d \in Selection!Instances /\ device[d] = None /\ d \notin Selection!ToSet(list)
      <3>1. MaxDevices \in Nat  BY DEF Selection!SelectionAssumption
      <3>2. free \in SUBSET (1..(MaxDevices + 1)) /\ free # {}  BY <3>1 DEF Selection!Instances
      <3>3. Selection!Min(free) \in free
        <4> HIDE DEF free
        <4>1. MaxDevices + 1 \in Nat  BY <3>1
        <4> QED  BY <4>1, <3>2, LeastRow
      <3>4. MaxDevices + 1 \notin Selection!Instances  BY <3>1 DEF Selection!Instances
      <3> QED  BY <2>1, <3>3, <3>4, ListTypes
    <2>4. /\ entries \in Seq(Selection!Instances) /\ Selection!IsInjective(entries)
          /\ Selection!ToSet(entries) = Selection!ToSet(list) \union {d}
          /\ \A i \in DOMAIN list : i \in DOMAIN entries /\ entries[i] = list[i]
          /\ DOMAIN entries = DOMAIN list \union {Len(list) + 1} /\ entries[Len(list) + 1] = d
      BY <2>3, ListTypes, RowAdded
    <2>5. new \in Selection!DeviceType
      <3>1. target \in UNION {TargetsOf[t] : t \in Selection!Types}  OBVIOUS
      <3> QED  BY <3>1 DEF Selection!DeviceType
    <2>6. /\ after \in [Selection!Instances -> Selection!DeviceType \union {None}]
          /\ after[d] \in Selection!DeviceType /\ after[d].type = type /\ after[d].target = target
          /\ \A x \in Selection!Instances : x # d => after[x] = device[x]
      <3>1. before \in [Selection!Instances -> Selection!DeviceType \union {None}]
            /\ before[d] = new
            /\ \A x \in Selection!Instances : x # d => before[x] = device[x]
        BY <2>3, <2>5, ListTypes
      <3>2. [new EXCEPT !.state = state] \in Selection!DeviceType  BY <2>5 DEF Selection!DeviceType
      <3>3. after = [before EXCEPT ![d] = [new EXCEPT !.state = state]]  BY <3>1
      <3> HIDE DEF before, after
      <3>4. after[d] = [new EXCEPT !.state = state]  BY <2>3, <3>1, <3>3
      <3> QED  BY <2>3, <3>1, <3>2, <3>3, <3>4
    <2>7. device' = after /\ list' = entries
          /\ ui' = IF state = new.state THEN chosen ELSE Selection!Reported(chosen, after, entries, d)
      BY <2>1
    <2>8. d \in Selection!ToSet(entries) /\ d \in Selection!AllRows(entries)
      BY <2>4 DEF Selection!AllRows
    <2> HIDE DEF entries, before, after
    <2>9. Coherent(ui, entries)  BY <2>4, ListTypes DEF Coherent, Framed, Selection!AllRows
    <2>10. Coherent(added, entries)  BY <1>1, <2>4, <2>8, <2>9, BoxesAreFiltered
    <2> HIDE DEF added
    <2>11. Coherent(chosen, entries)  BY <2>4, <2>8, <2>10, RowIsCurrent
    <2> HIDE DEF chosen
    <2>12. Coherent(ui', entries)
      <3>1. CASE state = new.state  BY <2>7, <2>11, <3>1
      <3>2. CASE state # new.state
        BY <2>4, <2>7, <2>8, <2>11, <3>2, StateIsReported
      <3> QED  BY <3>1, <3>2
    <2>13. Selection!TypeOK'
      <3>1. \A x \in Selection!Instances : device'[x] # None <=> x \in Selection!ToSet(list')
        BY <2>3, <2>4, <2>6, <2>7, ListTypes DEF Selection!SelectionAssumption
      <3>2. ui' \in Selection!UiType  BY <2>12 DEF Coherent, Framed
      <3>3. spent' \in (0..MaxCreated) \X (0..MaxLocks)  BY <2>2, Spending DEF SelectionInv
      <3>4. leaving' = None  BY <1>1, <2>2 DEF Selection!Idle
      <3> QED  BY <2>4, <2>6, <2>7, <3>1, <3>2, <3>3, <3>4 DEF Selection!TypeOK
    <2>14. Selection!NoPortTwice'
      <3>1. \A i \in DOMAIN list : /\ device[list[i]] # None
                                   /\ Selection!UniqueId(device[list[i]]) # Selection!UniqueId(new)
        BY <1>3, ListTypes DEF Selection!ToSet
      <3>2. \A i \in DOMAIN list : list[i] \in Selection!Instances /\ list[i] # d
        BY <2>3, ListTypes DEF Selection!ToSet
      <3>3. \A i \in DOMAIN list : type # "z21" /\ device[list[i]].type = type
                                     => device[list[i]].target # target
        BY <3>1 DEF Selection!UniqueId
      <3> SUFFICES ASSUME NEW i \in DOMAIN entries, NEW j \in DOMAIN entries, i # j,
                          after[entries[i]].type # "z21",
                          after[entries[i]].type = after[entries[j]].type
                   PROVE  after[entries[i]].target # after[entries[j]].target
        BY <2>7 DEF Selection!NoPortTwice
      <3>4. CASE i \in DOMAIN list /\ j \in DOMAIN list
        <4>1. after[entries[i]] = device[list[i]] /\ after[entries[j]] = device[list[j]]
          BY <2>4, <2>6, <3>2, <3>4
        <4> QED  BY <3>4, <4>1 DEF SelectionInv, Selection!NoPortTwice
      <3>5. CASE i \in DOMAIN list /\ j \notin DOMAIN list
        <4>1. after[entries[i]] = device[list[i]] /\ entries[j] = d  BY <2>4, <2>6, <3>2, <3>5
        <4> QED  BY <2>6, <3>3, <3>5, <4>1
      <3>6. CASE i \notin DOMAIN list /\ j \in DOMAIN list
        <4>1. after[entries[j]] = device[list[j]] /\ entries[i] = d  BY <2>4, <2>6, <3>2, <3>6
        <4> QED  BY <2>6, <3>3, <3>6, <4>1
      <3> QED  BY <2>4, <3>4, <3>5, <3>6
    <2>15. leaving' = None  BY <1>1, <2>2 DEF Selection!Idle
    <2>16. Coherent(ui, list)'  BY <2>7, <2>12
    <2> QED  BY <2>13, <2>14, <2>15, <2>16 DEF SelectionInv, Selection!ShownDeviceGoes
  <1> QED  BY <1>2, <1>3

\* What closes is what is shown, unless the box moves on to another device meanwhile.
LEMMA DisconnectStep ==
    ASSUME SelectionInv, Selection!SelectionAssumption, Selection!Disconnect
    PROVE  SelectionInv' /\ Selection!ShownDeviceGoes
  <1> DEFINE d      == ui.shown
             closed == [device EXCEPT ![d].state = "Disconnected"]
             told   == IF closed = device THEN ui ELSE Selection!Reported(ui, closed, list, d)
             empty  == [told EXCEPT !.shown = None, !.form = TRUE]
  <1>1. Selection!Idle /\ d # None /\ d \in Selection!ToSet(list)
    BY ListTypes DEF SelectionInv, Selection!Disconnect, Selection!Idle
  <1>2. /\ device' = closed /\ leaving' = told.shown /\ list' = list /\ spent' = spent
        /\ ui' = Selection!ToldDevice(empty, closed, list, None)
    BY DEF Selection!Disconnect
  <1>3. d \in Selection!Instances /\ device[d] \in Selection!DeviceType
    BY <1>1, ListTypes
  <1>4. /\ device' \in [Selection!Instances -> Selection!DeviceType \union {None}]
        /\ \A x \in Selection!Instances : device'[x] # None <=> x \in Selection!ToSet(list')
        /\ Selection!NoPortTwice'
    <2> DEFINE e == [device[d] EXCEPT !.state = "Disconnected"]
    <2>1. e \in Selection!DeviceType /\ e.type = device[d].type /\ e.target = device[d].target
      BY <1>3 DEF Selection!DeviceType
    <2>2. device' = [device EXCEPT ![d] = e]  BY <1>2
    <2>3. device[d] # None  BY <1>1, ListTypes
    <2> HIDE DEF e
    <2> QED  BY <1>2, <1>3, <2>1, <2>2, <2>3, DeviceChanges
  <1>5. /\ Coherent(told, list)
        /\ ui.page = Selection!Connect0 \/ Selection!Accepts(closed, ui.page, d) => told.shown = d
    <2>1. CASE closed = device  BY <2>1, <1>1, ListTypes
    <2>2. CASE closed # device
      <3>1. told = Selection!Reported(ui, closed, list, d)  BY <2>2
      <3> HIDE DEF told, closed
      <3> QED  BY <3>1, <1>1, ListTypes, StateIsReported
    <2> QED  BY <2>1, <2>2
  <1>6. ui.page # Selection!Connect0 => (Selection!Accepts(closed, ui.page, d)
                                             <=> Selection!Accepts(device, ui.page, d))
    <2>1. closed[d].type = device[d].type /\ closed[d].able = device[d].able
      BY <1>3, ListTypes DEF Selection!DeviceType
    <2> QED  BY <2>1 DEF Selection!Accepts, Selection!Controls
  <1> HIDE DEF closed, told
  <1>7. told \in Selection!UiType  BY <1>5 DEF Coherent, Framed
  <1>8. /\ empty \in Selection!UiType /\ empty.page = told.page /\ empty.boxes = told.boxes
        /\ empty.picked = told.picked /\ empty.main = told.main /\ empty.shown = None
        /\ empty.row = told.row
    BY <1>7 DEF Selection!UiType
  <1> HIDE DEF empty
  <1>9. Framed(empty, list)  BY <1>5, <1>8 DEF Coherent, Framed
  <1>10. empty.main = empty.shown => BoxNames(empty)
    BY <1>5, <1>8 DEF Coherent, BoxNames
  <1>11. Coherent(ui', list) /\ ui'.shown = None
    BY <1>2, <1>8, <1>9, <1>10, ListTypes, DeviceIsTold
  <1>12. Selection!TypeOK'
    <2>1. ui' \in Selection!UiType  BY <1>11 DEF Coherent, Framed
    <2>2. leaving' \in Selection!ToSet(list') \union {None}  BY <1>2, <1>5 DEF Coherent, Framed
    <2>3. spent' \in (0..MaxCreated) \X (0..MaxLocks)  BY <1>2 DEF SelectionInv, Selection!TypeOK
    <2> QED  BY <1>2, <1>4, <2>1, <2>2, <2>3, ListTypes DEF Selection!TypeOK
  <1>13. Selection!ShownDeviceGoes  BY <1>2, <1>5, <1>6 DEF Selection!ShownDeviceGoes
  <1>14. Coherent(ui, list)'  BY <1>2, <1>11
  <1> QED  BY <1>4, <1>11, <1>12, <1>13, <1>14 DEF SelectionInv

\* The row below the one that is gone becomes the current one, if that was.
LEMMA DestroyedStep ==
    ASSUME SelectionInv, Selection!SelectionAssumption, Selection!Destroyed
    PROVE  SelectionInv' /\ Selection!ShownDeviceGoes
  <1> DEFINE at    == CHOOSE i \in DOMAIN list : list[i] = leaving
             next  == IF at < Len(list) THEN list[at + 1] ELSE Selection!AddRow
             entries  == Selection!RemoveAt(list, at)
             moved == IF ui.row = leaving THEN Selection!CurrentRow(ui, device, list, next) ELSE ui
             boxes == [p \in Pages |-> IF moved.boxes[p] = None THEN None
                                       ELSE moved.boxes[p] \ {leaving}]
             told  == [moved EXCEPT !.boxes = boxes]
  <1>1. /\ list' = entries /\ device' = [device EXCEPT ![leaving] = None]
        /\ ui' = IF told.page = Selection!Connect0 THEN told
                 ELSE Selection!BoxTold(told, device, list, moved.boxes[told.page], boxes[told.page])
        /\ leaving' = None /\ spent' = spent /\ leaving # None
    BY DEF Selection!Destroyed
  <1>2. leaving \in Selection!ToSet(list) /\ leaving \in Selection!Instances /\ ui.shown = None
    BY <1>1, ListTypes DEF SelectionInv, Selection!TypeOK
  <1>3. at \in DOMAIN list /\ list[at] = leaving  BY <1>2 DEF Selection!ToSet
  <1>4. DOMAIN list = 1..Len(list) /\ Len(list) \in Nat  BY ListTypes, LenProperties
  <1>5. /\ entries \in Seq(Selection!Instances) /\ Selection!IsInjective(entries)
        /\ Selection!ToSet(entries) = Selection!ToSet(list) \ {leaving}
    BY <1>3, ListTypes, RowRemoved
  <1>6. next \in Selection!AllRows(list) /\ next # leaving
    <2>1. CASE at < Len(list)
      <3>1. at + 1 \in DOMAIN list /\ at + 1 # at
        <4> HIDE DEF at
        <4> QED  BY <1>3, <1>4, <2>1
      <3>2. list[at + 1] # leaving  BY <1>3, <3>1, ListTypes DEF Selection!IsInjective
      <3> QED  BY <2>1, <3>1, <3>2 DEF Selection!AllRows, Selection!ToSet
    <2>2. CASE ~(at < Len(list))
      <3>1. leaving # Selection!AddRow  BY <1>2 DEF Selection!Instances, Selection!AddRow
      <3> QED  BY <2>2, <3>1 DEF Selection!AllRows
    <2> QED  BY <2>1, <2>2
  <1> HIDE DEF at, next, entries
  <1>7. Coherent(moved, list) /\ moved.row # leaving /\ moved.shown # leaving
    <2>1. CASE ui.row = leaving
      <3>1. moved = Selection!CurrentRow(ui, device, list, next)  BY <2>1
      <3> HIDE DEF moved
      <3>2. /\ Coherent(moved, list) /\ moved.row = next
            /\ moved.shown = (IF next = Selection!AddRow THEN None ELSE next)
        BY <2>1, <3>1, <1>6, ListTypes, RowIsCurrent
      <3> QED  BY <3>2, <1>1, <1>6
    <2>2. CASE ui.row # leaving  BY <2>2, <1>1, <1>2, ListTypes
    <2> QED  BY <2>1, <2>2
  <1> HIDE DEF moved
  <1>8. moved \in Selection!UiType
        /\ moved.boxes \in [Pages -> (SUBSET Selection!Instances) \union {None}]
    BY <1>7 DEF Coherent, Framed, Selection!UiType
  <1>9. \A p \in Pages : /\ moved.boxes[p] = None => boxes[p] = None
                         /\ moved.boxes[p] # None =>
                               /\ boxes[p] = moved.boxes[p] \ {leaving}
                               /\ boxes[p] \in SUBSET Selection!Instances /\ boxes[p] # None
                               /\ boxes[p] \subseteq Selection!ToSet(entries)
    <2> SUFFICES ASSUME NEW p \in Pages, moved.boxes[p] # None
                 PROVE  /\ boxes[p] = moved.boxes[p] \ {leaving}
                        /\ boxes[p] \in SUBSET Selection!Instances /\ boxes[p] # None
                        /\ boxes[p] \subseteq Selection!ToSet(entries)
      OBVIOUS
    <2>1. boxes[p] = moved.boxes[p] \ {leaving}  OBVIOUS
    <2>2. moved.boxes[p] \in SUBSET Selection!Instances
          /\ moved.boxes[p] \subseteq Selection!ToSet(list)
      BY <1>7, <1>8 DEF Coherent, Framed
    <2> HIDE DEF boxes
    <2>3. boxes[p] \in SUBSET Selection!Instances /\ boxes[p] \subseteq Selection!ToSet(entries)
      BY <1>5, <2>1, <2>2
    <2> QED  BY <2>1, <2>3 DEF Selection!SelectionAssumption
  <1>10. boxes \in [Pages -> (SUBSET Selection!Instances) \union {None}]
    <2>1. ASSUME NEW p \in Pages PROVE boxes[p] \in (SUBSET Selection!Instances) \union {None}
      BY <1>9
    <2>2. boxes = [p \in Pages |-> boxes[p]]  OBVIOUS
    <2> HIDE DEF boxes
    <2> QED  BY <2>1, <2>2
  <1> HIDE DEF boxes
  <1>11. /\ told \in Selection!UiType /\ told.page = moved.page /\ told.boxes = boxes
         /\ told.picked = moved.picked /\ told.main = moved.main /\ told.shown = moved.shown
         /\ told.row = moved.row
    BY <1>8, <1>10 DEF Selection!UiType
  <1> HIDE DEF told
  <1>12. Framed(told, entries)
    <2>1. told.row \in Selection!AllRows(entries)
      BY <1>5, <1>7, <1>11 DEF Coherent, Framed, Selection!AllRows
    <2>2. told.shown \in Selection!ToSet(entries) \union {None}
      BY <1>5, <1>7, <1>11 DEF Coherent, Framed
    <2>3. told.page \in Pages => told.boxes[told.page] # None
      BY <1>7, <1>9, <1>11 DEF Coherent, Framed
    <2>4. \A p \in Pages : told.boxes[p] # None => told.boxes[p] \subseteq Selection!ToSet(entries)
      BY <1>9, <1>11
    <2> QED  BY <1>11, <2>1, <2>2, <2>3, <2>4 DEF Framed
  <1>13. moved.picked # None =>
            /\ moved.page \in Pages /\ moved.picked = moved.shown
            /\ moved.picked \in boxes[moved.page]
    BY <1>7, <1>9 DEF Coherent, BoxNames, Framed
  <1>14. BoxNames(told)  BY <1>11, <1>13 DEF BoxNames
  <1>15. Coherent(told, entries)  BY <1>7, <1>11, <1>12, <1>14 DEF Coherent
  <1>16. ui' = told
    <2>1. CASE told.page = Selection!Connect0  BY <1>1, <2>1
    <2>2. CASE told.page # Selection!Connect0
      <3> DEFINE before == moved.boxes[told.page]
                 after  == boxes[told.page]
      <3>1. told.page \in Pages  BY <1>11, <2>2 DEF Selection!UiType
      <3>2. after = before \ {leaving}
        BY <1>7, <1>9, <1>11, <3>1 DEF Coherent, Framed
      <3>3. ~(before = {} /\ after # {} /\ told.picked = None)  BY <3>2
      <3>4. ~(told.picked # None /\ told.picked \notin after)  BY <1>11, <1>13
      <3>5. ui' = Selection!BoxTold(told, device, list, before, after)  BY <1>1, <2>2
      <3> HIDE DEF before, after
      <3> QED  BY <3>3, <3>4, <3>5 DEF Selection!BoxTold
    <2> QED  BY <2>1, <2>2
  <1>17. /\ device' \in [Selection!Instances -> Selection!DeviceType \union {None}]
         /\ \A x \in Selection!Instances : device'[x] # None <=> x \in Selection!ToSet(entries)
         /\ \A x \in Selection!Instances : x # leaving => device'[x] = device[x]
    BY <1>1, <1>2, <1>5, ListTypes
  <1>18. Selection!NoPortTwice'
    <2>1. \A i \in DOMAIN entries : \E k \in DOMAIN list : entries[i] = list[k]
      BY <1>5 DEF Selection!ToSet
    <2>2. \A i \in DOMAIN entries : entries[i] \in Selection!Instances /\ entries[i] # leaving
      <3>1. \A i \in DOMAIN entries : entries[i] \in Selection!ToSet(entries)
        BY DEF Selection!ToSet
      <3> QED  BY <3>1, <1>5, ListTypes
    <2> SUFFICES ASSUME NEW i \in DOMAIN entries, NEW j \in DOMAIN entries, i # j,
                        device'[entries[i]].type # "z21",
                        device'[entries[i]].type = device'[entries[j]].type
                 PROVE  device'[entries[i]].target # device'[entries[j]].target
      BY <1>1 DEF Selection!NoPortTwice
    <2>3. entries[i] # entries[j]  BY <1>5 DEF Selection!IsInjective
    <2>4. PICK k \in DOMAIN list, l \in DOMAIN list : entries[i] = list[k] /\ entries[j] = list[l]
      BY <2>1
    <2>5. k # l  BY <2>3, <2>4
    <2>6. device'[entries[i]] = device[list[k]] /\ device'[entries[j]] = device[list[l]]
      BY <1>17, <2>2, <2>4
    <2> QED  BY <2>5, <2>6 DEF SelectionInv, Selection!NoPortTwice
  <1>19. Selection!TypeOK'
    <2>1. spent' \in (0..MaxCreated) \X (0..MaxLocks)  BY <1>1 DEF SelectionInv, Selection!TypeOK
    <2> QED  BY <1>1, <1>5, <1>11, <1>16, <1>17, <2>1 DEF Selection!TypeOK
  <1>20. Coherent(ui, list)'  BY <1>1, <1>15, <1>16
  <1>21. Selection!ShownDeviceGoes  BY <1>1 DEF Selection!ShownDeviceGoes
  <1> QED  BY <1>1, <1>18, <1>19, <1>20, <1>21 DEF SelectionInv

\* A device that changes keeps its type and its target.
LEMMA ReportStep ==
    ASSUME SelectionInv, Selection!SelectionAssumption, Selection!Idle,
           NEW d \in Selection!Instances, device[d] # None,
           NEW e \in Selection!DeviceType, e.type = device[d].type, e.target = device[d].target,
           device' = [device EXCEPT ![d] = e], UNCHANGED <<list, leaving>>,
           spent' \in (0..MaxCreated) \X (0..MaxLocks),
           Coherent(ui', list)
    PROVE  SelectionInv' /\ Selection!ShownDeviceGoes
  <1>1. /\ device' \in [Selection!Instances -> Selection!DeviceType \union {None}]
        /\ \A x \in Selection!Instances : device'[x] # None <=> x \in Selection!ToSet(list')
        /\ Selection!NoPortTwice'
    BY DeviceChanges
  <1>2. Selection!TypeOK'
    <2>1. ui' \in Selection!UiType  BY DEF Coherent, Framed
    <2>2. leaving' \in Selection!ToSet(list') \union {None}  BY DEF Selection!Idle
    <2> QED  BY <1>1, <2>1, <2>2, ListTypes DEF Selection!TypeOK
  <1>3. leaving' = None  BY DEF Selection!Idle
  <1>4. Coherent(ui, list)'  OBVIOUS
  <1> QED  BY <1>1, <1>2, <1>3, <1>4 DEF SelectionInv, Selection!ShownDeviceGoes

LEMMA DeviceStateStep ==
    ASSUME SelectionInv, Selection!SelectionAssumption, NEW d \in Selection!Instances,
           NEW s \in {"Connected", "Disconnected"}, Selection!DeviceState(d, s)
    PROVE  SelectionInv' /\ Selection!ShownDeviceGoes
  <1> DEFINE e == [device[d] EXCEPT !.state = s]
  <1>1. Selection!Idle /\ device[d] # None  BY DEF Selection!DeviceState
  <1>2. device[d] \in Selection!DeviceType /\ d \in Selection!ToSet(list)  BY <1>1, ListTypes
  <1>3. e \in Selection!DeviceType /\ e.type = device[d].type /\ e.target = device[d].target
    BY <1>2 DEF Selection!DeviceType
  <1>4. device' = [device EXCEPT ![d] = e]  BY DEF Selection!DeviceState
  <1>5. ui' = Selection!Reported(ui, device', list, d) /\ UNCHANGED <<list, leaving, spent>>
    BY DEF Selection!DeviceState
  <1>6. Coherent(ui', list)  BY <1>1, <1>2, <1>5, ListTypes, StateIsReported
  <1>7. spent' \in (0..MaxCreated) \X (0..MaxLocks)  BY <1>5 DEF SelectionInv, Selection!TypeOK
  <1> HIDE DEF e
  <1> QED  BY <1>1, <1>3, <1>4, <1>5, <1>6, <1>7, ReportStep

LEMMA SerialNumberStep ==
    ASSUME SelectionInv, Selection!SelectionAssumption, NEW d \in Selection!Instances,
           Selection!TellSerialNumber(d)
    PROVE  SelectionInv' /\ Selection!ShownDeviceGoes
  <1> DEFINE e == [device[d] EXCEPT !.named = TRUE]
  <1>1. Selection!Idle /\ device[d] # None  BY DEF Selection!TellSerialNumber
  <1>2. device[d] \in Selection!DeviceType  BY <1>1, ListTypes
  <1>3. e \in Selection!DeviceType /\ e.type = device[d].type /\ e.target = device[d].target
    BY <1>2 DEF Selection!DeviceType
  <1>4. device' = [device EXCEPT ![d] = e]  BY DEF Selection!TellSerialNumber
  <1>5. UNCHANGED <<list, ui, leaving, spent>>  BY DEF Selection!TellSerialNumber
  <1>6. Coherent(ui', list)  BY <1>1, <1>5, ListTypes
  <1>7. spent' \in (0..MaxCreated) \X (0..MaxLocks)  BY <1>5 DEF SelectionInv, Selection!TypeOK
  <1> HIDE DEF e
  <1> QED  BY <1>1, <1>3, <1>4, <1>5, <1>6, <1>7, ReportStep

LEMMA ControlsStep ==
    ASSUME SelectionInv, Selection!SelectionAssumption, NEW d \in Selection!Instances,
           NEW announced \in BOOLEAN,
           Selection!TellControls(d, announced)
    PROVE  SelectionInv' /\ Selection!ShownDeviceGoes
  <1> DEFINE e == [device[d] EXCEPT !.able = ~@]
  <1>1. Selection!Idle /\ device[d] # None  BY DEF Selection!TellControls
  <1>2. device[d] \in Selection!DeviceType  BY <1>1, ListTypes
  <1>3. e \in Selection!DeviceType /\ e.type = device[d].type /\ e.target = device[d].target
    BY <1>2 DEF Selection!DeviceType
  <1>4. device' = [device EXCEPT ![d] = e]  BY DEF Selection!TellControls
  <1>5. /\ ui' = IF announced /\ ui.main = d THEN [ui EXCEPT !.usable = Selection!Usable(device', d)]
                 ELSE ui
        /\ UNCHANGED <<list, leaving>>
    BY DEF Selection!TellControls
  <1>6. Coherent(ui', list)
    <2> DEFINE used == Selection!Usable(device', d)
               w == [ui EXCEPT !.usable = used]
    <2>1. used \in SUBSET Pages  BY DEF Selection!Usable
    <2>2. ui' = w \/ ui' = ui  BY <1>5
    <2> HIDE DEF used
    <2>3. /\ w \in Selection!UiType /\ w.page = ui.page /\ w.boxes = ui.boxes
             /\ w.picked = ui.picked
          /\ w.main = ui.main /\ w.shown = ui.shown /\ w.row = ui.row
      BY <2>1, ListTypes DEF Selection!UiType
    <2> HIDE DEF w
    <2>4. Coherent(w, list)  BY <1>1, <2>3, ListTypes DEF Coherent, Framed, BoxNames
    <2> QED  BY <1>1, <2>2, <2>4, ListTypes
  <1>7. spent' \in (0..MaxCreated) \X (0..MaxLocks)
    <2>1. spent' = spent \/ (spent[2] < MaxLocks /\ spent' = [spent EXCEPT ![2] = @ + 1])
      BY DEF Selection!TellControls
    <2>2. Selection!TypeOK  BY DEF SelectionInv
    <2> QED  BY <2>1, <2>2, Spending DEF Selection!TypeOK
  <1> HIDE DEF e
  <1> QED  BY <1>1, <1>3, <1>4, <1>5, <1>6, <1>7, ReportStep

-----------------------------------------------------------------------------
(* The choice of the device: the theorem.                                    *)

LEMMA SelectionStarts ==
    ASSUME Selection!SelectionAssumption, Selection!Init
    PROVE  SelectionInv
  <1>1. ui \in Selection!UiType
    <2>1. [p \in Pages |-> None] \in [Pages -> (SUBSET Selection!Instances) \union {None}]  OBVIOUS
    <2> QED  BY <2>1 DEF Selection!Init, Selection!UiType
  <1>2. /\ ui.row = Selection!AddRow /\ ui.shown = None /\ ui.main = None
           /\ ui.page = Selection!Connect0
        /\ ui.picked = None /\ ui.boxes = [p \in Pages |-> None]
    BY DEF Selection!Init
  <1>3. list = <<>> /\ list \in Seq(Selection!Instances) /\ DOMAIN list = {}
        /\ Selection!ToSet(list) = {}
    <2>1. DOMAIN list = {}  BY DEF Selection!Init
    <2> QED  BY <2>1 DEF Selection!Init, Selection!ToSet
  <1>4. Selection!TypeOK
    <2>1. spent \in (0..MaxCreated) \X (0..MaxLocks)
      BY DEF Selection!Init, Selection!SelectionAssumption
    <2>2. Selection!IsInjective(list)  BY <1>3 DEF Selection!IsInjective
    <2> QED  BY <1>1, <1>3, <2>1, <2>2 DEF Selection!Init, Selection!TypeOK
  <1>5. Selection!NoPortTwice  BY <1>3 DEF Selection!NoPortTwice
  <1>6. Coherent(ui, list)
    BY <1>1, <1>2, <1>3
    DEF Coherent, Framed, BoxNames, Selection!AllRows, Selection!SelectionAssumption
  <1>7. leaving = None  BY DEF Selection!Init
  <1> QED  BY <1>4, <1>5, <1>6, <1>7 DEF SelectionInv

LEMMA SelectionSteps ==
    ASSUME Selection!SelectionAssumption, SelectionInv, [Selection!Next]_Selection!vars
    PROVE  SelectionInv' /\ (Selection!ShownDeviceGoes \/ UNCHANGED Selection!vars)
  <1>1. CASE UNCHANGED Selection!vars
    <2>1. Selection!TypeOK' /\ Selection!NoPortTwice'
      BY <1>1 DEF Selection!vars, SelectionInv, Selection!TypeOK, Selection!NoPortTwice
    <2>2. Coherent(ui, list)'  BY <1>1 DEF Selection!vars, SelectionInv, Coherent
    <2> QED  BY <1>1, <2>1, <2>2 DEF Selection!vars, SelectionInv
  <1>2. CASE \E p \in Pages \cup {Selection!Connect0} : Selection!ShowPage(p)  BY <1>2, ShowPageStep
  <1>3. CASE \E d \in Selection!Instances : Selection!PickDevice(d)  BY <1>3, PickDeviceStep
  <1>4. CASE \E r \in Selection!Instances \cup {Selection!AddRow} : Selection!SelectRow(r)
    BY <1>4, SelectRowStep
  <1>5. CASE \E type \in Selection!Types : \E target \in TargetsOf[type] : Selection!Connect(type, target)
    BY <1>5, ConnectStep
  <1>6. CASE Selection!Disconnect  BY <1>6, DisconnectStep
  <1>7. CASE Selection!Destroyed  BY <1>7, DestroyedStep
  <1>8. CASE \E d \in Selection!Instances, s \in {"Connected", "Disconnected"} : Selection!DeviceState(d, s)
    BY <1>8, DeviceStateStep
  <1>9. CASE \E d \in Selection!Instances : Selection!TellSerialNumber(d)  BY <1>9, SerialNumberStep
  <1>10. CASE \E d \in Selection!Instances, announced \in BOOLEAN : Selection!TellControls(d, announced)
    BY <1>10, ControlsStep
  <1>11. CASE Selection!EditForm  BY <1>11, EditFormStep
  <1> QED
    BY <1>1, <1>2, <1>3, <1>4, <1>5, <1>6, <1>7, <1>8, <1>9, <1>10, <1>11 DEF Selection!Next

\* What the interface shows, the list and the devices keep their types.
THEOREM SelectionTypes ==
    ASSUME Selection!SelectionAssumption
    PROVE  Selection!Spec => []Selection!TypeOK
  <1>1. Selection!Init => SelectionInv  BY SelectionStarts
  <1>2. SelectionInv /\ [Selection!Next]_Selection!vars => SelectionInv'  BY SelectionSteps
  <1>3. SelectionInv => Selection!TypeOK  BY DEF SelectionInv
  <1> QED  BY <1>1, <1>2, <1>3, PTL DEF Selection!Spec

\* The connection page, the box and the main window mean one device, no port is opened
\* twice, another page keeps the device, and what is disconnected is the device that was
\* shown, or its neighbour when the box drops that one while it is closed.
THEOREM SelectionIsKept ==
    ASSUME Selection!SelectionAssumption
    PROVE  Selection!Spec => Selection!SelectionAgrees
  <1>1. Selection!Init => SelectionInv  BY SelectionStarts
  <1>2. SelectionInv /\ [Selection!Next]_Selection!vars => SelectionInv'  BY SelectionSteps
  <1>3. SelectionInv /\ [Selection!Next]_Selection!vars
            => [Selection!PageKeepsDevice /\ Selection!ShownDeviceGoes]_Selection!vars
    <2> SUFFICES ASSUME SelectionInv, Selection!Next, ~UNCHANGED Selection!vars
                 PROVE  Selection!PageKeepsDevice /\ Selection!ShownDeviceGoes
      OBVIOUS
    <2>1. Selection!ShownDeviceGoes  BY SelectionSteps
    <2>2. ASSUME NEW p \in Pages \union {Selection!Connect0}, Selection!ShowPage(p)  PROVE ui'.shown = ui.shown
      <3>1. ui' = Selection!ShownPage(ui, device, list, p)  BY <2>2 DEF Selection!ShowPage
      <3> QED  BY <3>1, ListTypes, PageIsShown DEF Coherent
    <2> QED  BY <2>1, <2>2 DEF Selection!PageKeepsDevice
  <1>4. SelectionInv => Selection!OneDevice /\ Selection!NoPortTwice
    BY DEF SelectionInv, Coherent, BoxNames, Selection!OneDevice
  <1> QED  BY <1>1, <1>2, <1>3, <1>4, PTL DEF Selection!Spec, Selection!SelectionAgrees

-----------------------------------------------------------------------------
(* All parts together.                                                       *)

\* Whatever the parts do between its steps, each of them behaves as it does alone.
LEMMA PartsAlone ==
    /\ StudioSpec => Spec
    /\ StudioSpec => Sharing!Spec
    /\ StudioSpec => Document!Spec
    /\ StudioSpec => Throttle!Spec
    /\ StudioSpec => Selection!Spec
  <1> DEFINE all == <<vars, sharing, document, throttle, selection>>
  <1>1. StudioInit => Init /\ Sharing!Init /\ Document!Init /\ Throttle!Init /\ Selection!Init
    BY DEF StudioInit
  <1>2. [StudioNext]_all => [Next]_vars
    BY DEF StudioNext
  <1>3. [StudioNext]_all => [Sharing!Next]_Sharing!vars
    BY DEF StudioNext, sharing, Sharing!vars
  <1>4. [StudioNext]_all => [Document!Next]_Document!vars
    BY DEF StudioNext, document, Document!vars
  <1>5. [StudioNext]_all => [Throttle!Next]_Throttle!vars
    BY DEF StudioNext, throttle, Throttle!vars
  <1>6. [StudioNext]_all => [Selection!Next]_Selection!vars
    BY DEF StudioNext, selection, Selection!vars
  <1> QED
    BY <1>1, <1>2, <1>3, <1>4, <1>5, <1>6, PTL
    DEF StudioSpec, Spec, Sharing!Spec, Document!Spec, Throttle!Spec, Selection!Spec

\* The power controls of all apps agree whenever nothing is under way, whatever else
\* people do in them.
THEOREM ControlsAgreeInStudio == StudioSpec => []ControlsAgree
  BY PartsAlone, ControlsDoNotDriftApart, PTL

\* No file that was received partly is left in place or shown.
THEOREM FilesAreWholeInStudio == StudioSpec => []NeverPartial
  <1>1. Sharing!NeverPartial => NeverPartial  BY DEF NeverPartial
  <1>2. Sharing!SharingAssumption  BY StudioAssumption DEF StudioAssumption
  <1>3. Sharing!Spec => []Sharing!NeverPartial  BY <1>2, FilesAreWhole
  <1> QED  BY <1>1, <1>3, PartsAlone, PTL

\* Each event of the plan hears the control the model has, once: setControl(), rows that
\* come and go, plans that are read and devices that change.
THEOREM EventsHearOnceInStudio == StudioSpec => []EventsHearOnce
  <1>1. Document!EventsHearOnce => EventsHearOnce  BY DEF EventsHearOnce
  <1>2. Document!DocumentAssumption  BY StudioAssumption DEF StudioAssumption
  <1>3. Document!Spec => []Document!EventsHearOnce  BY <1>2, HeardOnce
  <1> QED  BY <1>1, <1>3, PartsAlone, PTL

\* No step of the document manager loses edits nobody agreed to lose, and a plan that counts
\* as saved is what its file holds, or the file is gone or was damaged.
THEOREM EditsAreKeptInStudio == StudioSpec => EditsAreKept /\ []Document!SavedIsOnDisk
  <1>1. Document!DocumentAssumption  BY StudioAssumption DEF StudioAssumption
  <1>2. Document!Spec => Document!EditsAreKept  BY <1>1, NoEditIsLost
  <1>3. Document!Spec => []Document!SavedIsOnDisk  BY <1>1, SavedIsKept
  <1>4. Document!EditsAreKept => EditsAreKept  BY DEF EditsAreKept
  <1> QED  BY <1>2, <1>3, <1>4, PartsAlone, PTL

\* No vehicle takes a speed and direction nobody asked of it, and once all is quiet each
\* does what it was asked last; the exceptions are those of DoneAsAsked.
THEOREM VehiclesDoAsAskedInStudio == StudioSpec => []VehiclesDoAsAsked
  <1>1. Throttle!VehiclesDoAsAsked => VehiclesDoAsAsked  BY DEF VehiclesDoAsAsked
  <1>2. Throttle!ThrottleAssumption  BY StudioAssumption DEF StudioAssumption
  <1>3. Throttle!Spec => []Throttle!VehiclesDoAsAsked  BY <1>2, DoneAsAsked
  <1> QED  BY <1>1, <1>3, PartsAlone, PTL

\* No vehicle that was driven waits longer for its poll than one round takes.
THEOREM NoVehicleForgottenInStudio == StudioSpec => []NoVehicleForgotten
  <1>1. Throttle!NoVehicleForgotten => NoVehicleForgotten  BY DEF NoVehicleForgotten
  <1>2. Throttle!ThrottleAssumption  BY StudioAssumption DEF StudioAssumption
  <1>3. Throttle!Spec => []Throttle!NoVehicleForgotten  BY <1>2, NoneForgotten
  <1> QED  BY <1>1, <1>3, PartsAlone, PTL

\* The connection page, the box and the main window mean one device, and it changes and
\* goes as people chose.
THEOREM SelectionAgreesInStudio == StudioSpec => SelectionAgrees
  <1>1. Selection!SelectionAssumption  BY StudioAssumption DEF StudioAssumption
  <1>2. Selection!Spec => Selection!SelectionAgrees  BY <1>1, SelectionIsKept
  <1>3. Selection!SelectionAgrees => SelectionAgrees  BY DEF SelectionAgrees
  <1> QED  BY <1>2, <1>3, PartsAlone, PTL
=============================================================================
