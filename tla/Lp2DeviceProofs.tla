--------------------------- MODULE Lp2DeviceProofs ---------------------------
(* Theorems about Lp2Device, for any lists of variables, any number of bits  *)
(* and whatever the decoder has stored.                                      *)
EXTENDS Lp2Device, SequenceTheorems, TLAPS

-----------------------------------------------------------------------------
(* What is on the line.                                                      *)

\* Requests as they are made: a chain ends with its last step, and a read asks for the
\* byte when it has all bits.
Good == {r \in Request :
             /\ r.chain \in DOMAIN Steps => r.index <= Len(Steps[r.chain])
             /\ r.chain = "service" => r.task \in Tasks
             /\ r.chain = "read" => (r.step = "byte" <=> r.bit = Bits)}

Answer == [request: Request \ Driving, ok: BOOLEAN, ack: {"positive", "negative", "none"}]

TypeInv ==
    /\ TypeOK
    /\ \A i \in DOMAIN toProgrammer : toProgrammer[i] \in Good
    /\ \A i \in DOMAIN toClient : toClient[i].request \in Good

\* The kinds of requests.
LEMMA RequestKinds ==
    ASSUME NEW r \in Good
    PROVE  /\ r.chain \in {"info", "service", "enable", "disable", "read", "drive"}
           /\ r.chain = "info" => r \in Chained /\ r.index \in {1, 2}
           /\ r.chain = "service" => r \in Chained /\ r.index \in {1, 2, 3, 4} /\ r.task \in Tasks
           /\ r.chain = "enable" => r \in Chained /\ r.index \in {1, 2, 3}
           /\ r.chain = "disable" => r \in Chained /\ r.index \in {1}
           /\ r.chain = "read" =>
                /\ r \in Reading /\ r.task \in Tasks /\ r.step \in {"reset", "bit", "byte"}
                /\ r.bit \in 0 .. Bits /\ r.value \in Value /\ r.retries \in 0 .. RetryLimit
                /\ (r.step = "byte" <=> r.bit = Bits)
           /\ r.chain = "drive" => r \in Driving
           /\ r \in Driving => r.chain = "drive"
  <1>1. DOMAIN Steps = {"info", "service", "enable", "disable"}  BY DEF Steps
  <1>2. /\ Len(Steps["info"]) = 2 /\ Len(Steps["service"]) = 4
        /\ Len(Steps["enable"]) = 3 /\ Len(Steps["disable"]) = 1
    BY DEF Steps
  <1>3. r \in Request  BY DEF Good
  <1>4. CASE r \in Chained
    <2>1. r.chain \in DOMAIN Steps /\ r.index \in 1 .. 4  BY <1>4 DEF Chained
    <2>2. r.index <= Len(Steps[r.chain]) /\ (r.chain = "service" => r.task \in Tasks)
      BY <2>1 DEF Good
    <2>3. r \notin Driving  BY <1>1, <2>1 DEF Driving
    <2>4. PICK n : n = Len(Steps[r.chain])  OBVIOUS
    <2>5. /\ r.chain = "info" => n = 2
          /\ r.chain = "service" => n = 4
          /\ r.chain = "enable" => n = 3
          /\ r.chain = "disable" => n = 1
      BY <1>2, <2>4
    <2>6. \A k \in 1 .. 4 : /\ k <= 1 => k \in {1}
                            /\ k <= 2 => k \in {1, 2}
                            /\ k <= 3 => k \in {1, 2, 3}
                            /\ k \in {1, 2, 3, 4}
      OBVIOUS
    <2>7. /\ r.chain = "info" => r.index \in {1, 2}
          /\ r.chain = "service" => r.index \in {1, 2, 3, 4}
          /\ r.chain = "enable" => r.index \in {1, 2, 3}
          /\ r.chain = "disable" => r.index \in {1}
      BY <2>1, <2>2, <2>4, <2>5, <2>6
    <2> QED  BY <1>1, <1>4, <2>1, <2>2, <2>3, <2>7
  <1>5. CASE r \in Reading
    <2>1. /\ r.chain = "read" /\ r.task \in Tasks /\ r.step \in {"reset", "bit", "byte"}
          /\ r.bit \in 0 .. Bits /\ r.value \in Value /\ r.retries \in 0 .. RetryLimit
      BY <1>5 DEF Reading
    <2>2. r.step = "byte" <=> r.bit = Bits  BY <2>1 DEF Good
    <2>3. r \notin Driving  BY <2>1 DEF Driving
    <2> QED  BY <1>5, <2>1, <2>2, <2>3
  <1>6. CASE r \in Driving  BY <1>6 DEF Driving
  <1> QED  BY <1>3, <1>4, <1>5, <1>6 DEF Request

\* Requests that are made.
LEMMA ChainedIsGood ==
    ASSUME NEW chain \in {"info", "service", "enable", "disable"},
           NEW index \in 1 .. Len(Steps[chain]), NEW task \in Tasks \union {Nobody},
           chain = "service" => task \in Tasks
    PROVE  [chain |-> chain, index |-> index, task |-> task] \in Good
  <1>1. DOMAIN Steps = {"info", "service", "enable", "disable"}  BY DEF Steps
  <1>2. PICK n : n = Len(Steps[chain])  OBVIOUS
  <1>3. index \in 1 .. 4 /\ index <= Len(Steps[chain])
    <2>1. n \in 1 .. 4  BY <1>2 DEF Steps
    <2>2. index \in 1 .. n  BY <1>2
    <2>3. index \in 1 .. 4 /\ index <= n  BY <2>1, <2>2
    <2> QED  BY <1>2, <2>3
  <1>4. [chain |-> chain, index |-> index, task |-> task] \in Chained
    BY <1>1, <1>3 DEF Chained
  <1> QED  BY <1>3, <1>4 DEF Good, Request

LEMMA ReadingIsGood ==
    ASSUME NEW step \in {"reset", "bit", "byte"}, NEW task \in Tasks, NEW bit \in 0 .. Bits,
           NEW value \in Value, NEW retries \in 0 .. RetryLimit,
           step = "byte" <=> bit = Bits
    PROVE  [chain |-> "read", step |-> step, task |-> task, bit |-> bit, value |-> value,
            retries |-> retries] \in Good
  <1>1. "read" \notin DOMAIN Steps  BY DEF Steps
  <1>2. [chain |-> "read", step |-> step, task |-> task, bit |-> bit, value |-> value,
         retries |-> retries] \in Reading
    BY DEF Reading
  <1> QED  BY <1>1, <1>2 DEF Good, Request

LEMMA DrivingIsGood == [chain |-> "drive"] \in Good
  BY DEF Good, Request, Driving, Steps

\* The next request of a chain.
LEMMA NextOfChain ==
    ASSUME NEW r \in Good, r.chain \in {"info", "service", "enable", "disable"},
           r.index < Len(Steps[r.chain])
    PROVE  [r EXCEPT !.index = @ + 1] =
               [chain |-> r.chain, index |-> r.index + 1, task |-> r.task]
           /\ [r EXCEPT !.index = @ + 1] \in Good
  <1>1. r \in Chained /\ r.index \in Nat  BY RequestKinds
  <1>2. r = [chain |-> r.chain, index |-> r.index, task |-> r.task]
        /\ r.task \in Tasks \union {Nobody}
    BY <1>1 DEF Chained
  <1>3. [r EXCEPT !.index = @ + 1] = [chain |-> r.chain, index |-> r.index + 1, task |-> r.task]
    BY <1>1 DEF Chained
  <1>4. Len(Steps[r.chain]) \in Nat  BY DEF Steps
  <1>5. r.index + 1 \in 1 .. Len(Steps[r.chain])  BY <1>1, <1>4
  <1>6. r.chain = "service" => r.task \in Tasks  BY RequestKinds
  <1> QED  BY <1>2, <1>3, <1>5, <1>6, ChainedIsGood

\* Events are counted.
LEMMA EventCounts ==
    ASSUME NEW kind \in Events, Event(kind)
    PROVE  happened' = [happened EXCEPT ![kind] = @ + 1]
  BY DEF Event

-----------------------------------------------------------------------------
(* What callbacks do, kind by kind.                                          *)

\* The next request of a chain is sent; switching the power succeeded then.
NextSent(r, ok) ==
    /\ r.chain \in {"info", "service", "enable"} /\ r.index < Len(Steps[r.chain])
    /\ r.chain # "info" /\ r.index = 2 => ok
    /\ \E o \in Good : /\ toProgrammer' = toProgrammer \o <<o>>
                       /\ o.chain = r.chain /\ o.index = r.index + 1 /\ o.task = r.task
    /\ UNCHANGED <<state, at, results, told, gaveUp, disrupted>>

\* A chain is through.
ChainThrough(r, ok) ==
    /\ r.chain \in {"info", "enable", "disable"} /\ r.index = Len(Steps[r.chain])
    /\ r.chain = "disable" => ok
    /\ toProgrammer' = toProgrammer \o <<>>
    /\ state' = IF r.chain = "info" THEN state ELSE State[r.chain]
    /\ UNCHANGED <<at, results, told, gaveUp, disrupted>>

ChainFailed(r) ==
    /\ r.chain \in {"service", "enable", "disable"}
    /\ toProgrammer' = toProgrammer \o <<>>
    /\ disrupted' = TRUE
    /\ UNCHANGED <<state, at, results, told, gaveUp>>

\* The programmer is in service mode, a read may begin.
ReadBegins(r) ==
    /\ r.chain = "service" /\ r.index = 4
    /\ toProgrammer' = toProgrammer \o <<StartReading(r.task)>>
    /\ state' = "ServiceMode"
    /\ UNCHANGED <<at, results, told, gaveUp, disrupted>>

\* A read sends its next request, with one bit more or with what it had.
ReadGoesOn(r, ok, ack) ==
    /\ r.chain = "read"
    /\ \E o \in Good :
           /\ toProgrammer' = toProgrammer \o <<o>>
           /\ o.chain = "read" /\ o.task = r.task
           /\ \/ o.bit = r.bit /\ o.value = r.value
              \/ r.step = "bit" /\ ok /\ o.bit = r.bit + 1 /\ o.value = BitRead(r, ack)
    /\ told' \in {told, told \union {r.task}}
    /\ UNCHANGED <<state, at, results, gaveUp, disrupted>>

Off1 == [chain |-> "disable", index |-> 1, task |-> Nobody]
Service1(t) == [chain |-> "service", index |-> 1, task |-> t]

\* A value is reported, the power goes off, and the list goes on.
ValueRead(r, ok, ack) ==
    /\ r.chain = "read" /\ r.step = "byte" /\ Verified(ok, ack)
    /\ told' = told \union {r.task}
    /\ at' = [at EXCEPT ![r.task] = @ + 1]
    /\ results' = [results EXCEPT ![r.task] = @ \union
           {[variable |-> Variables[r.task][at[r.task] + 1], value |-> r.value]}]
    /\ \/ toProgrammer' = toProgrammer \o <<Off1>>
       \/ /\ toProgrammer' = toProgrammer \o <<Off1, Service1(r.task)>>
          /\ at[r.task] + 1 < Len(Variables[r.task])
    /\ UNCHANGED <<state, gaveUp, disrupted>>

ReadGivenUp(r) ==
    /\ r.chain = "read"
    /\ toProgrammer' = toProgrammer \o <<>>
    /\ told' = told \union {r.task} /\ gaveUp' = TRUE
    /\ UNCHANGED <<state, at, results, disrupted>>

ResponseKinds(r, ok, ack) ==
    \/ NextSent(r, ok) \/ ChainThrough(r, ok) \/ ChainFailed(r) \/ ReadBegins(r)
    \/ ReadGoesOn(r, ok, ack) \/ ValueRead(r, ok, ack) \/ ReadGivenUp(r)

LEMMA StepCount ==
    ASSUME NEW r \in Good, r.chain \in {"info", "service", "enable", "disable"}
    PROVE  /\ r.index \in Nat \ {0} /\ Len(Steps[r.chain]) \in Nat
           /\ ~(r.index < Len(Steps[r.chain])) => r.index = Len(Steps[r.chain])
           /\ r.chain = "service" => Len(Steps[r.chain]) = 4
           /\ r.chain = "disable" => ~(r.index < Len(Steps[r.chain])) /\ r.index = 1
  <1>1. /\ Len(Steps["info"]) = 2 /\ Len(Steps["service"]) = 4
        /\ Len(Steps["enable"]) = 3 /\ Len(Steps["disable"]) = 1
    BY DEF Steps
  <1>2. PICK n, k : n = Len(Steps[r.chain]) /\ k = r.index  OBVIOUS
  <1>3. /\ r.chain = "info" => n = 2 /\ k \in {1, 2}
        /\ r.chain = "service" => n = 4 /\ k \in {1, 2, 3, 4}
        /\ r.chain = "enable" => n = 3 /\ k \in {1, 2, 3}
        /\ r.chain = "disable" => n = 1 /\ k \in {1}
    BY <1>1, <1>2, RequestKinds
  <1>4. /\ k \in Nat \ {0} /\ n \in Nat /\ (~(k < n) => k = n)
        /\ r.chain = "service" => n = 4
        /\ r.chain = "disable" => ~(k < n) /\ k = 1
    BY <1>3
  <1> QED  BY <1>2, <1>4

LEMMA AppendOne == \A o : Append(<<>>, o) = <<o>>
  <1> TAKE o
  <1> QED  BY AppendIsConcat, ConcatEmptySeq

LEMMA AppendTwo == \A o, p : Append(<<o>>, p) = <<o, p>>
  <1> TAKE o, p
  <1>1. <<o>> \in Seq({o, p}) /\ <<o, p>> \in Seq({o, p}) /\ p \in {o, p}  OBVIOUS
  <1>2. /\ Append(<<o>>, p) \in Seq({o, p}) /\ Len(Append(<<o>>, p)) = 2
        /\ Append(<<o>>, p)[1] = o /\ Append(<<o>>, p)[2] = p
    <2>1. Len(<<o>>) = 1 /\ <<o>>[1] = o  OBVIOUS
    <2> QED  BY <1>1, <2>1, AppendProperties
  <1>3. Len(<<o, p>>) = 2 /\ <<o, p>>[1] = o /\ <<o, p>>[2] = p  OBVIOUS
  <1>4. \A i \in 1 .. 2 : i = 1 \/ i = 2  OBVIOUS
  <1> QED  BY <1>1, <1>2, <1>3, <1>4, SeqEqual

\* What a callback sends, and nothing else.
LEMMA Sends ==
    ASSUME NEW o, Apply(SendRequest(Working, o))
    PROVE  /\ toProgrammer' = toProgrammer \o <<o>>
           /\ UNCHANGED <<state, at, results, told, gaveUp, disrupted>>
  BY AppendOne DEF Apply, Working, SendRequest

\* What the callbacks of the power control do.
LEMMA PowerKinds ==
    ASSUME NEW r \in Good, r.chain \in {"service", "enable", "disable"}, NEW ok \in BOOLEAN,
           Apply(PowerResponse(Working, r, ok))
    PROVE  NextSent(r, ok) \/ ChainThrough(r, ok) \/ ChainFailed(r) \/ ReadBegins(r)
  <1>1. r.chain \in DOMAIN Steps /\ r.index \in Nat  BY StepCount DEF Steps
  <1>2. /\ Len(Steps["service"]) = 4 /\ Len(Steps["enable"]) = 3 /\ Len(Steps["disable"]) = 1
        /\ Steps["service"][2] = "power" /\ Steps["enable"][2] = "power"
        /\ Steps["disable"][1] = "power"
    BY DEF Steps
  <1>3. CASE Failed(r, ok)
    BY <1>3 DEF PowerResponse, Apply, Working, ChainFailed
  <1>4. CASE ~Failed(r, ok) /\ r.index < Len(Steps[r.chain])
    <2>1. PICK o : o = [r EXCEPT !.index = @ + 1]  OBVIOUS
    <2>2. o \in Good /\ o.chain = r.chain /\ o.index = r.index + 1 /\ o.task = r.task
      BY <1>4, <2>1, NextOfChain
    <2>3. PowerResponse(Working, r, ok) = SendRequest(Working, o)
      BY <1>4, <1>1, <2>1, <1>2 DEF PowerResponse, Ends
    <2>4. /\ toProgrammer' = toProgrammer \o <<o>>
          /\ UNCHANGED <<state, at, results, told, gaveUp, disrupted>>
      BY <2>3, Sends
    <2>5. r.chain # "disable"  BY <1>4, StepCount
    <2>6. r.index = 2 => ok  BY <1>2, <1>4, <2>5 DEF Failed
    <2> QED  BY <1>4, <2>2, <2>4, <2>5, <2>6 DEF NextSent
  <1>5. CASE ~Failed(r, ok) /\ ~(r.index < Len(Steps[r.chain])) /\ r.chain = "service"
    <2>1. r.index = 4  BY <1>5, StepCount
    <2>2. PICK o : o = StartReading(r.task)  OBVIOUS
    <2>3. PowerResponse(Working, r, ok) =
              SendRequest([Working EXCEPT !.state = State[r.chain]], o)
      BY <1>2, <1>5, <2>1, <2>2 DEF PowerResponse, Ends
    <2>4. State[r.chain] = "ServiceMode"  BY <1>5 DEF State
    <2>5. /\ toProgrammer' = toProgrammer \o <<o>> /\ state' = "ServiceMode"
          /\ UNCHANGED <<at, results, told, gaveUp, disrupted>>
      BY <2>3, <2>4, AppendOne DEF Apply, Working, SendRequest
    <2> QED  BY <1>5, <2>1, <2>2, <2>5 DEF ReadBegins
  <1>6. CASE ~Failed(r, ok) /\ ~(r.index < Len(Steps[r.chain])) /\ r.chain # "service"
    <2>1. r.index = Len(Steps[r.chain])  BY <1>6, StepCount
    <2>2. PowerResponse(Working, r, ok) = [Working EXCEPT !.state = State[r.chain]]
      BY <1>6, <2>1 DEF PowerResponse, Ends
    <2>3. r.chain = "disable" => ok  BY <1>2, <1>6, <2>1 DEF Failed
    <2>4. /\ toProgrammer' = toProgrammer \o <<>> /\ state' = State[r.chain]
          /\ UNCHANGED <<at, results, told, gaveUp, disrupted>>
      BY <2>2 DEF Apply, Working
    <2> QED  BY <1>6, <2>1, <2>3, <2>4 DEF ChainThrough
  <1> QED  BY <1>3, <1>4, <1>5, <1>6

\* What the closure of a read does.
LEMMA ReadKinds ==
    ASSUME NEW r \in Good, r.chain = "read", NEW ok \in BOOLEAN,
           NEW ack \in {"positive", "negative", "none"},
           at \in [Tasks -> Nat], results \in [Tasks -> SUBSET [variable: Read, value: Value]],
           Apply(ReadResponse(Working, r, ok, ack))
    PROVE  ReadGoesOn(r, ok, ack) \/ ValueRead(r, ok, ack) \/ ReadGivenUp(r)
  <1>1. /\ r.task \in Tasks /\ r.step \in {"reset", "bit", "byte"} /\ r \in Reading
        /\ r.bit \in 0 .. Bits /\ r.value \in Value /\ r.retries \in 0 .. RetryLimit
        /\ (r.step = "byte" <=> r.bit = Bits)
    BY RequestKinds
  <1>2. Bits \in Nat \ {0} /\ RetryLimit \in Nat  BY Lp2Assumption
  <1>3. r = [chain |-> "read", step |-> r.step, task |-> r.task, bit |-> r.bit,
             value |-> r.value, retries |-> r.retries]
    BY <1>1 DEF Reading
  <1>4. CASE r.step = "reset" /\ ok
    <2>1. PICK o : o = [r EXCEPT !.step = "bit"]  OBVIOUS
    <2>2. o = [chain |-> "read", step |-> "bit", task |-> r.task, bit |-> r.bit,
               value |-> r.value, retries |-> r.retries]
      BY <1>3, <2>1
    <2>3. o \in Good  BY <1>1, <1>4, <2>2, ReadingIsGood
    <2>4. ReadResponse(Working, r, ok, ack) = SendRequest(Working, o)
      BY <1>4, <2>1 DEF ReadResponse
    <2>5. o.chain = "read" /\ o.task = r.task /\ o.bit = r.bit /\ o.value = r.value
      BY <2>2
    <2>6. /\ toProgrammer' = toProgrammer \o <<o>>
          /\ UNCHANGED <<state, at, results, told, gaveUp, disrupted>>
      BY <2>4, Sends
    <2> QED  BY <2>3, <2>5, <2>6 DEF ReadGoesOn
  <1>5. CASE r.step = "bit" /\ ok
    <2>1. PICK step : step = IF r.bit + 1 < Bits THEN "reset" ELSE "byte"  OBVIOUS
    <2>2. PICK value : value = BitRead(r, ack)  OBVIOUS
    <2>3. PICK o : o = [r EXCEPT !.value = value, !.bit = @ + 1, !.step = step]  OBVIOUS
    <2>4. r.bit \in 0 .. Bits - 1 /\ r.bit + 1 \in 0 .. Bits
      BY <1>1, <1>2, <1>5
    <2>5. value \in Value  BY <1>1, <2>2, <2>4 DEF BitRead, Value
    <2>6. step \in {"reset", "bit", "byte"} /\ (step = "byte" <=> r.bit + 1 = Bits)
      BY <1>2, <2>1, <2>4
    <2>7. o = [[[r EXCEPT !.value = value] EXCEPT !.bit = @ + 1] EXCEPT !.step = step]
      BY <1>1, <2>3 DEF Reading
    <2>8. o = [chain |-> "read", step |-> step, task |-> r.task, bit |-> r.bit + 1,
               value |-> value, retries |-> r.retries]
      BY <1>3, <2>7
    <2>9. o \in Good  BY <1>1, <2>4, <2>5, <2>6, <2>8, ReadingIsGood
    <2>10. ReadResponse(Working, r, ok, ack) = SendRequest(Working, o)
      BY <1>5, <2>1, <2>2, <2>3 DEF ReadResponse
    <2>11. o.chain = "read" /\ o.task = r.task /\ o.bit = r.bit + 1 /\ o.value = value
      BY <2>8
    <2>12. /\ toProgrammer' = toProgrammer \o <<o>>
           /\ UNCHANGED <<state, at, results, told, gaveUp, disrupted>>
      BY <2>10, Sends
    <2> QED  BY <1>5, <2>2, <2>9, <2>11, <2>12 DEF ReadGoesOn
  <1>6. CASE r.step = "byte" /\ Verified(ok, ack)
    <2>1. PICK t : t = r.task  OBVIOUS
    <2>2. PICK entry : entry = [variable |-> Variables[t][at[t] + 1], value |-> r.value]
      OBVIOUS
    <2>3. PICK s : s = PowerOff(Working)  OBVIOUS
    <2>4. s = [state |-> state, sent |-> <<Off1>>, at |-> at, results |-> results,
               told |-> told, gaveUp |-> gaveUp, disrupted |-> disrupted]
      BY <2>3, AppendOne DEF PowerOff, Begin, SendRequest, Working, Off1
    <2>5. PICK d : d = [s EXCEPT !.told = @ \union {t}, !.at = [s.at EXCEPT ![t] = @ + 1],
                                 !.results = [s.results EXCEPT ![t] = @ \union {entry}]]
      OBVIOUS
    <2>6. /\ d.sent = <<Off1>> /\ d.state = state /\ d.at = [at EXCEPT ![t] = @ + 1]
          /\ d.results = [results EXCEPT ![t] = @ \union {entry}]
          /\ d.told = told \union {t} /\ d.gaveUp = gaveUp /\ d.disrupted = disrupted
      BY <2>4, <2>5
    <2>7. ReadResponse(Working, r, ok, ack) =
              IF d.at[t] < Len(Variables[t]) THEN ReadVariable(d, t) ELSE d
      BY <1>6, <2>1, <2>2, <2>3, <2>4, <2>5 DEF ReadResponse, ReportValue
    <2>8. d.at[t] = at[t] + 1  BY <1>1, <2>1, <2>6
    <2>9. CASE at[t] + 1 < Len(Variables[t])
      <3>1. PICK o : o = Service1(t)  OBVIOUS
      <3>2. ReadResponse(Working, r, ok, ack) = [d EXCEPT !.sent = Append(@, o)]
        BY <2>7, <2>8, <2>9, <3>1 DEF ReadVariable, Begin, SendRequest, Service1
      <3>3. Append(<<Off1>>, o) = <<Off1, o>>  BY AppendTwo
      <3>4. d = [[[s EXCEPT !.told = @ \union {t}] EXCEPT !.at = [s.at EXCEPT ![t] = @ + 1]]
                    EXCEPT !.results = [s.results EXCEPT ![t] = @ \union {entry}]]
        BY <2>4, <2>5
      <3>5. PICK e : e = [d EXCEPT !.sent = Append(@, o)]  OBVIOUS
      <3>6. /\ e.sent = Append(d.sent, o) /\ e.state = d.state /\ e.at = d.at
            /\ e.results = d.results /\ e.told = d.told /\ e.gaveUp = d.gaveUp
            /\ e.disrupted = d.disrupted
        BY <2>4, <3>4, <3>5
      <3> QED  BY <1>6, <2>1, <2>2, <2>6, <2>9, <3>1, <3>2, <3>3, <3>5, <3>6
               DEF Apply, ValueRead
    <2>10. CASE ~(at[t] + 1 < Len(Variables[t]))
      <3>1. ReadResponse(Working, r, ok, ack) = d  BY <2>7, <2>8, <2>10
      <3> QED  BY <1>6, <2>1, <2>2, <2>6, <3>1 DEF Apply, ValueRead
    <2> QED  BY <2>9, <2>10
  <1>7. CASE ~(r.step = "reset" /\ ok) /\ ~(r.step = "bit" /\ ok)
             /\ ~(r.step = "byte" /\ Verified(ok, ack))
    <2>1. ReadResponse(Working, r, ok, ack) = ReportError(Working, r)
      BY <1>7 DEF ReadResponse
    <2>2. CASE r.retries < RetryLimit
      <3>1. PICK step : step = RetryStep(r)  OBVIOUS
      <3>2. PICK o : o = [r EXCEPT !.step = step, !.retries = @ + 1]  OBVIOUS
      <3>3. o = [[r EXCEPT !.step = step] EXCEPT !.retries = @ + 1]
        BY <1>1, <3>2 DEF Reading
      <3>4. o = [chain |-> "read", step |-> step, task |-> r.task, bit |-> r.bit,
                 value |-> r.value, retries |-> r.retries + 1]
        BY <1>3, <3>3
      <3>5. r.retries + 1 \in 0 .. RetryLimit  BY <1>1, <1>2, <2>2
      <3>6. step \in {"reset", "bit", "byte"} /\ (step = "byte" <=> r.bit = Bits)
        BY <1>1, <3>1 DEF RetryStep
      <3>7. o \in Good  BY <1>1, <3>4, <3>5, <3>6, ReadingIsGood
      <3>8. ReadResponse(Working, r, ok, ack) =
                SendRequest([Working EXCEPT !.told = @ \union {r.task}], o)
        BY <2>1, <2>2, <3>1, <3>2 DEF ReportError
      <3>9. /\ toProgrammer' = toProgrammer \o <<o>> /\ told' = told \union {r.task}
            /\ UNCHANGED <<state, at, results, gaveUp, disrupted>>
        BY <3>8, AppendOne DEF Apply, Working, SendRequest
      <3>10. o.chain = "read" /\ o.task = r.task /\ o.bit = r.bit /\ o.value = r.value
        BY <3>4
      <3> QED  BY <3>7, <3>9, <3>10 DEF ReadGoesOn
    <2>3. CASE ~(r.retries < RetryLimit)
      <3>1. ReadResponse(Working, r, ok, ack) =
                [Working EXCEPT !.told = @ \union {r.task}, !.gaveUp = TRUE]
        BY <2>1, <2>3 DEF ReportError
      <3> QED  BY <3>1 DEF Apply, Working, ReadGivenUp
    <2> QED  BY <2>2, <2>3
  <1> QED  BY <1>1, <1>4, <1>5, <1>6, <1>7

\* A response is parsed: the session ends, or the callback does one of these things.
Parsed ==
    /\ toClient' = Tail(toClient)
    /\ identified' \in BOOLEAN /\ connectTimer' \in BOOLEAN
    /\ UNCHANGED <<open, station, started, overlapped, happened>>

LEMMA ParseKinds ==
    ASSUME TypeInv, ParseMessage, NEW a, a = Head(toClient)
    PROVE  \/ Close /\ UNCHANGED happened
           \/ Parsed /\ ResponseKinds(a.request, a.ok, a.ack)
  <1>1. toClient # <<>>  BY DEF ParseMessage
  <1>2. /\ a \in Answer /\ a = toClient[1] /\ 1 \in DOMAIN toClient /\ a.request \in Good
    <2>1. toClient \in Seq(Answer)  BY DEF TypeInv, TypeOK, Answer
    <2>2. a \in Answer /\ a = toClient[1] /\ 1 \in DOMAIN toClient
      BY <1>1, <2>1, HeadTailProperties, LenProperties, EmptySeq
    <2> QED  BY <2>2 DEF TypeInv
  <1>3. PICK r, ok, ack : r = a.request /\ ok = a.ok /\ ack = a.ack  OBVIOUS
  <1>4. /\ r \in Good /\ ok \in BOOLEAN /\ ack \in {"positive", "negative", "none"}
        /\ r.chain # "drive"
    BY <1>2, <1>3, RequestKinds DEF Answer
  <1>5. CASE r.chain = "info"
    <2>1. InfoResponse(r, ok) /\ UNCHANGED happened  BY <1>3, <1>5 DEF ParseMessage
    <2>2. CASE ~Ends(r)
      <3>1. PICK o : o = [r EXCEPT !.index = @ + 1]  OBVIOUS
      <3>2. r.index < Len(Steps[r.chain])  BY <1>4, <1>5, <2>2, StepCount DEF Ends
      <3>3. o \in Good /\ o.chain = r.chain /\ o.index = r.index + 1 /\ o.task = r.task
        BY <1>4, <1>5, <3>1, <3>2, NextOfChain
      <3>4. Apply(SendRequest(Working, o))  BY <2>1, <2>2, <3>1 DEF InfoResponse
      <3>5. NextSent(r, ok)  BY <1>5, <3>2, <3>3, <3>4, Sends DEF NextSent
      <3>6. Parsed
        BY <2>1, <2>2 DEF InfoResponse, Parsed, session, station, TypeInv, TypeOK
      <3> QED  BY <1>3, <3>5, <3>6 DEF ResponseKinds
    <2>3. CASE Ends(r) /\ ~Close
      <3>1. toProgrammer' = toProgrammer \o <<>>
        <4>1. toProgrammer' = toProgrammer  BY <2>1, <2>3 DEF InfoResponse
        <4> QED  BY <4>1, ConcatEmptySeq DEF TypeInv, TypeOK
      <3>2. ChainThrough(r, ok)
        BY <1>5, <2>1, <2>3, <3>1 DEF InfoResponse, ChainThrough, Ends, callers
      <3>3. Parsed
        BY <2>1, <2>3 DEF InfoResponse, Parsed, station, callers
      <3> QED  BY <1>3, <3>2, <3>3 DEF ResponseKinds
    <2> QED  BY <2>1, <2>2, <2>3
  <1>6. CASE r.chain # "info"
    <2>1. Parsed
      BY <1>3, <1>6 DEF ParseMessage, Parsed, session, station, TypeInv, TypeOK
    <2>2. CASE r.chain = "read"
      <3>1. Apply(ReadResponse(Working, r, ok, ack))  BY <1>3, <2>2 DEF ParseMessage
      <3> QED  BY <1>3, <1>4, <2>1, <2>2, <3>1, ReadKinds DEF ResponseKinds, TypeInv, TypeOK
    <2>3. CASE r.chain # "read"
      <3>1. Apply(PowerResponse(Working, r, ok))  BY <1>3, <1>6, <2>3 DEF ParseMessage
      <3>2. r.chain \in {"service", "enable", "disable"}  BY <1>4, <1>6, <2>3, RequestKinds
      <3> QED  BY <1>3, <1>4, <2>1, <3>1, <3>2, PowerKinds DEF ResponseKinds
    <2> QED  BY <2>2, <2>3
  <1> QED  BY <1>5, <1>6

-----------------------------------------------------------------------------
(* The requests under way, those that were answered first.                   *)

UnderWay == 1 .. Len(toClient) + Len(toProgrammer)

Under(i) == IF i <= Len(toClient) THEN toClient[i].request ELSE toProgrammer[i - Len(toClient)]

\* Requests that belong to a read.
Personal(r) == r.chain \in {"service", "read"}

Entitled(r) == Personal(r) => r.task \in started /\ at[r.task] < Len(Variables[r.task])

Apart(r, s) == Personal(r) /\ Personal(s) => r.task # s.task

\* Of two chains one ends a read, and the other one begins the next of its list.
Alone(r, s) ==
    r.chain # "drive" /\ s.chain # "drive" =>
        r.chain = "disable" /\ s.chain = "service" /\ s.index = 1

\* A read has one request under way.  While no caller overlaps with another, there is only
\* one chain, or one that follows the other.
LineInv ==
    /\ \A i \in UnderWay : Entitled(Under(i))
    /\ \A i, j \in UnderWay : i < j => Apart(Under(i), Under(j))
    /\ ~overlapped => \A i, j \in UnderWay : i < j => Alone(Under(i), Under(j))
    /\ \A t \in Tasks \ started : at[t] = 0
    /\ ~open => toClient = <<>> /\ toProgrammer = <<>>

\* The lines are sequences.
LEMMA LineType ==
    ASSUME TypeInv
    PROVE  /\ toClient \in Seq(Answer) /\ toProgrammer \in Seq(Good)
           /\ Len(toClient) \in Nat /\ Len(toProgrammer) \in Nat
           /\ DOMAIN toClient = 1 .. Len(toClient)
           /\ DOMAIN toProgrammer = 1 .. Len(toProgrammer)
           /\ \A i \in DOMAIN toClient : toClient[i].request \in Good \ Driving
           /\ \A i \in UnderWay : Under(i) \in Good
           /\ \A i \in UnderWay : i <= Len(toClient) => Under(i).chain # "drive"
           /\ started \subseteq Tasks
  <1>1. /\ toClient \in Seq(Answer) /\ toProgrammer \in Seq(Request)
        /\ Len(toClient) \in Nat /\ Len(toProgrammer) \in Nat
        /\ DOMAIN toClient = 1 .. Len(toClient)
        /\ DOMAIN toProgrammer = 1 .. Len(toProgrammer)
    BY LenProperties DEF TypeInv, TypeOK, Answer
  <1>2. toProgrammer \in Seq(Good)
    <2>1. \A i \in 1 .. Len(toProgrammer) : toProgrammer[i] \in Good  BY <1>1 DEF TypeInv
    <2>2. toProgrammer \in [1 .. Len(toProgrammer) -> Good]  BY <1>1, <2>1, LenProperties
    <2> QED  BY <1>1, <2>2, SeqDef
  <1>3. \A i \in DOMAIN toClient : toClient[i].request \in Good \ Driving
    <2> TAKE i \in DOMAIN toClient
    <2>1. toClient[i] \in Answer  BY <1>1, ElementOfSeq
    <2>2. toClient[i].request \notin Driving  BY <2>1 DEF Answer
    <2> QED  BY <2>2 DEF TypeInv
  <1>4. \A i \in UnderWay : \/ i \in DOMAIN toClient /\ i <= Len(toClient)
                            \/ ~(i <= Len(toClient)) /\ i - Len(toClient) \in DOMAIN toProgrammer
    BY <1>1 DEF UnderWay
  <1>5. \A i \in UnderWay : Under(i) \in Good
    BY <1>3, <1>4 DEF Under, TypeInv
  <1>6. \A i \in UnderWay : i <= Len(toClient) => Under(i).chain # "drive"
    <2> SUFFICES ASSUME NEW i \in UnderWay, i <= Len(toClient)
                 PROVE  Under(i).chain # "drive"
      OBVIOUS
    <2>1. i \in DOMAIN toClient  BY <1>4
    <2>2. Under(i) \in Good /\ Under(i) \notin Driving  BY <1>3, <2>1 DEF Under
    <2> QED  BY <2>2, RequestKinds
  <1> QED  BY <1>1, <1>2, <1>3, <1>5, <1>6 DEF TypeInv, TypeOK

\* A request that is sent is the last one under way.
LEMMA LineAppended ==
    ASSUME TypeInv, NEW o \in Good, toProgrammer' = Append(toProgrammer, o), UNCHANGED toClient,
           NEW n, n = Len(toClient) + Len(toProgrammer)
    PROVE  /\ n \in Nat /\ UnderWay = 1 .. n /\ UnderWay' = 1 .. n + 1
           /\ \A i \in UnderWay : Under(i)' = Under(i)
           /\ Under(n + 1)' = o
  <1>1. PICK c, p : c = Len(toClient) /\ p = Len(toProgrammer)  OBVIOUS
  <1>2. c \in Nat /\ p \in Nat /\ toProgrammer \in Seq(Good)  BY <1>1, LineType
  <1>3. /\ Len(toProgrammer') = p + 1 /\ toProgrammer'[p + 1] = o
        /\ \A i \in 1 .. p : toProgrammer'[i] = toProgrammer[i]
    BY <1>1, <1>2, AppendProperties
  <1>4. n = c + p /\ n \in Nat /\ UnderWay = 1 .. n  BY <1>1, <1>2 DEF UnderWay
  <1>5. UnderWay' = 1 .. n + 1
    <2>1. c + (p + 1) = n + 1  BY <1>2, <1>4
    <2> QED  BY <1>1, <1>3, <2>1 DEF UnderWay
  <1>6. ASSUME NEW i \in UnderWay PROVE Under(i)' = Under(i)
    <2>1. i <= c \/ (~(i <= c) /\ i - c \in 1 .. p)  BY <1>2, <1>4
    <2> QED  BY <1>1, <1>3, <2>1 DEF Under
  <1>7. Under(n + 1)' = o
    <2>1. ~(n + 1 <= c) /\ (n + 1) - c = p + 1  BY <1>2, <1>4
    <2> QED  BY <1>1, <1>3, <2>1 DEF Under
  <1> QED  BY <1>4, <1>5, <1>6, <1>7

\* Requests that come after n - 1 others.
SentAfter(n, sent) ==
    \A k \in 1 .. Len(sent) : \A i : i = n - 1 + k => Under(i)' = sent[k]

\* What a callback sends follows what is under way without the response to it.
LEMMA LineParsed ==
    ASSUME TypeInv, toClient # <<>>, toClient' = Tail(toClient),
           NEW sent \in Seq(Good), toProgrammer' = toProgrammer \o sent,
           NEW n, n = Len(toClient) + Len(toProgrammer), NEW m, m = Len(sent)
    PROVE  /\ n \in Nat \ {0} /\ m \in Nat /\ UnderWay = 1 .. n /\ UnderWay' = 1 .. n - 1 + m
           /\ \A i \in 1 .. n - 1 : Under(i)' = Under(i + 1)
           /\ SentAfter(n, sent)
           /\ 1 \in UnderWay /\ Under(1) = Head(toClient).request
  <1>1. PICK c, p : c = Len(toClient) /\ p = Len(toProgrammer)  OBVIOUS
  <1>2. /\ c \in Nat \ {0} /\ p \in Nat /\ m \in Nat
        /\ toProgrammer \in Seq(Good) /\ toClient \in Seq(Answer)
    BY <1>1, LineType, EmptySeq, LenProperties
  <1>3. /\ Len(toProgrammer') = p + m
        /\ \A i \in 1 .. p + m :
               toProgrammer'[i] = IF i <= p THEN toProgrammer[i] ELSE sent[i - p]
    BY <1>1, <1>2, ConcatProperties
  <1>4. /\ Len(toClient') = c - 1
        /\ \A i \in 1 .. c - 1 : toClient'[i] = toClient[i + 1]
        /\ Head(toClient) = toClient[1]
    BY <1>1, <1>2, HeadTailProperties
  <1>5. n = c + p /\ n \in Nat \ {0} /\ UnderWay = 1 .. n  BY <1>1, <1>2 DEF UnderWay
  <1>6. UnderWay' = 1 .. n - 1 + m
    <2>1. \A a, b, d \in Nat : a - 1 + (b + d) = (a + b) - 1 + d  OBVIOUS
    <2>2. c - 1 + (p + m) = (c + p) - 1 + m  BY <1>2, <2>1, Zenon
    <2>3. c - 1 + (p + m) = n - 1 + m  BY <1>5, <2>2, Zenon
    <2> QED  BY <1>3, <1>4, <2>3 DEF UnderWay
  <1>7. ASSUME NEW i \in 1 .. n - 1 PROVE Under(i)' = Under(i + 1)
    <2>1. CASE i <= c - 1
      <3>1. i \in 1 .. c - 1 /\ i + 1 <= c  BY <1>2, <1>5, <2>1
      <3> QED  BY <1>1, <1>4, <2>1, <3>1 DEF Under
    <2>2. CASE ~(i <= c - 1)
      <3>1. /\ ~(i + 1 <= c) /\ i - (c - 1) \in 1 .. p + m /\ i - (c - 1) <= p
            /\ i - (c - 1) = (i + 1) - c
        BY <1>2, <1>5, <2>2
      <3> QED  BY <1>1, <1>3, <1>4, <2>2, <3>1 DEF Under
    <2> QED  BY <2>1, <2>2
  <1>8. ASSUME NEW k \in 1 .. m, NEW i, i = n - 1 + k PROVE Under(i)' = sent[k]
    <2>1. /\ ~(n - 1 + k <= c - 1) /\ (n - 1 + k) - (c - 1) = p + k
          /\ p + k \in 1 .. p + m /\ ~(p + k <= p) /\ (p + k) - p = k
      <3>1. \A a \in Nat \ {0} : \A b, d \in Nat : \A e \in 1 .. d :
                /\ ~((a + b) - 1 + e <= a - 1)
                /\ ((a + b) - 1 + e) - (a - 1) = b + e
                /\ b + e \in 1 .. b + d /\ ~(b + e <= b) /\ (b + e) - b = e
        OBVIOUS
      <3>2. /\ ~((c + p) - 1 + k <= c - 1)
            /\ ((c + p) - 1 + k) - (c - 1) = p + k
            /\ p + k \in 1 .. p + m /\ ~(p + k <= p) /\ (p + k) - p = k
        BY <1>2, <3>1
      <3> QED  BY <1>5, <3>2, Zenon
    <2>2. ~(i <= c - 1) /\ i - (c - 1) = p + k  BY <1>8, <2>1, Zenon
    <2> QED  BY <1>3, <1>4, <2>1, <2>2 DEF Under
  <1>9. 1 \in UnderWay /\ Under(1) = Head(toClient).request
    <2>1. 1 <= c /\ 1 \in 1 .. n  BY <1>2, <1>5
    <2> QED  BY <1>1, <1>4, <1>5, <2>1 DEF Under
  <1> QED  BY <1>2, <1>5, <1>6, <1>7, <1>8, <1>9 DEF SentAfter

\* What the programmer responds to stays where it is; drive requests are gone.
LEMMA LineResponded ==
    ASSUME TypeInv, NEW ok \in BOOLEAN, NEW ack, Respond(ok, ack),
           NEW n, n = Len(toClient) + Len(toProgrammer), NEW r, r = Head(toProgrammer)
    PROVE  /\ n \in Nat \ {0} /\ UnderWay = 1 .. n /\ r \in Good
           /\ Len(toClient) + 1 \in UnderWay /\ Under(Len(toClient) + 1) = r
           /\ r.chain # "drive" =>
                /\ UnderWay' = 1 .. n
                /\ \A i \in 1 .. n : Under(i)' = Under(i)
           /\ r.chain = "drive" =>
                /\ UnderWay' = 1 .. n - 1
                /\ \A i \in 1 .. n - 1 :
                       Under(i)' = IF i <= Len(toClient) THEN Under(i) ELSE Under(i + 1)
  <1>0. toProgrammer # <<>> /\ toProgrammer' = Tail(toProgrammer)  BY DEF Respond
  <1>1. PICK c, p : c = Len(toClient) /\ p = Len(toProgrammer)  OBVIOUS
  <1>2. /\ c \in Nat /\ p \in Nat \ {0}
        /\ toProgrammer \in Seq(Good) /\ toClient \in Seq(Answer)
    BY <1>0, <1>1, LineType, EmptySeq, LenProperties
  <1>3. /\ Len(toProgrammer') = p - 1
        /\ \A i \in 1 .. p - 1 : toProgrammer'[i] = toProgrammer[i + 1]
        /\ r = toProgrammer[1] /\ r \in Good
    BY <1>0, <1>1, <1>2, HeadTailProperties
  <1>4. n = c + p /\ n \in Nat \ {0} /\ UnderWay = 1 .. n  BY <1>1, <1>2 DEF UnderWay
  <1>5. c + 1 \in UnderWay /\ Under(c + 1) = r
    <2>1. c + 1 \in 1 .. n /\ ~(c + 1 <= c) /\ (c + 1) - c = 1  BY <1>2, <1>4
    <2> QED  BY <1>1, <1>3, <1>4, <2>1 DEF Under
  <1>6. ASSUME r.chain # "drive"
        PROVE  UnderWay' = 1 .. n /\ \A i \in 1 .. n : Under(i)' = Under(i)
    <2>1. PICK a : a = [request |-> r, ok |-> ok, ack |-> ack]  OBVIOUS
    <2>2. toClient' = Append(toClient, a)  BY <1>6, <2>1 DEF Respond
    <2>3. /\ Len(toClient') = c + 1 /\ toClient'[c + 1] = a /\ a.request = r
          /\ \A i \in 1 .. c : toClient'[i] = toClient[i]
      <3>1. toClient \in Seq(Answer \union {a}) /\ a \in Answer \union {a}
        BY <1>2, SeqMonotonic
      <3> QED  BY <1>1, <2>1, <2>2, <3>1, AppendProperties
    <2>4. (c + 1) + (p - 1) = n  BY <1>2, <1>4
    <2>5. ASSUME NEW i \in 1 .. n PROVE Under(i)' = Under(i)
      <3>1. CASE i <= c
        <4>1. i \in 1 .. c /\ i <= c + 1  BY <1>2, <3>1
        <4> QED  BY <1>1, <2>3, <3>1, <4>1 DEF Under
      <3>2. CASE i = c + 1
        <4>1. i <= c + 1  BY <1>2, <3>2
        <4> QED  BY <1>1, <1>5, <2>3, <3>2, <4>1 DEF Under
      <3>3. CASE ~(i <= c) /\ i # c + 1
        <4>1. ~(i <= c + 1) /\ i - (c + 1) \in 1 .. p - 1 /\ (i - (c + 1)) + 1 = i - c
          BY <1>2, <1>4, <3>3
        <4> QED  BY <1>1, <1>3, <2>3, <3>3, <4>1 DEF Under
      <3> QED  BY <3>1, <3>2, <3>3
    <2> QED  BY <1>3, <2>3, <2>4, <2>5 DEF UnderWay
  <1>7. ASSUME r.chain = "drive"
        PROVE  /\ UnderWay' = 1 .. n - 1
               /\ \A i \in 1 .. n - 1 : Under(i)' = IF i <= c THEN Under(i) ELSE Under(i + 1)
    <2>1. toClient' = toClient  BY <1>7 DEF Respond
    <2>2. c + (p - 1) = n - 1  BY <1>2, <1>4
    <2>3. ASSUME NEW i \in 1 .. n - 1
          PROVE  Under(i)' = IF i <= c THEN Under(i) ELSE Under(i + 1)
      <3>1. CASE i <= c  BY <1>1, <2>1, <3>1 DEF Under
      <3>2. CASE ~(i <= c)
        <4>1. ~(i + 1 <= c) /\ i - c \in 1 .. p - 1 /\ (i - c) + 1 = (i + 1) - c
          BY <1>2, <1>4, <3>2
        <4> QED  BY <1>1, <1>3, <2>1, <3>2, <4>1 DEF Under
      <3> QED  BY <3>1, <3>2
    <2> QED  BY <1>1, <1>3, <2>1, <2>2, <2>3 DEF UnderWay
  <1> QED  BY <1>1, <1>3, <1>4, <1>5, <1>6, <1>7

\* Sequences of one and of two requests.
LEMMA SentOne ==
    ASSUME NEW o \in Good
    PROVE  <<o>> \in Seq(Good) /\ Len(<<o>>) = 1 /\ <<o>>[1] = o
  OBVIOUS

LEMMA SentTwo ==
    ASSUME NEW o \in Good, NEW p \in Good
    PROVE  /\ <<o, p>> \in Seq(Good) /\ Len(<<o, p>>) = 2
           /\ <<o, p>>[1] = o /\ <<o, p>>[2] = p
  OBVIOUS

LEMMA SentNothing == <<>> \in Seq(Good) /\ Len(<<>>) = 0
  OBVIOUS

\* What the response to a request sends: of its own chain, or of the chains that follow it.
SentBy(r, sent) ==
    /\ sent \in Seq(Good)
    /\ toProgrammer' = toProgrammer \o sent
    /\ 1 \in 1 .. Len(sent) => r.chain # "disable"
    /\ \A k \in 1 .. Len(sent) :
           Personal(sent[k]) => /\ Personal(r) /\ sent[k].task = r.task
                                /\ at'[r.task] < Len(Variables[r.task])
    /\ \A j, k \in 1 .. Len(sent) :
           j < k => sent[j] = Off1 /\ sent[k] = Service1(r.task)

\* Where reads have come to.
AtBy(r) ==
    /\ at' \in [Tasks -> Nat]
    /\ at' = at \/ (r.chain = "read" /\ \A t \in Tasks \ {r.task} : at'[t] = at[t])

LEMMA ResponseSends ==
    ASSUME NEW r \in Good, r.chain # "drive", NEW ok, NEW ack, ResponseKinds(r, ok, ack),
           at \in [Tasks -> Nat], Entitled(r)
    PROVE  AtBy(r) /\ \E sent : SentBy(r, sent)
  <1>1. at[r.task] \in Nat \/ r.task \notin Tasks  OBVIOUS
  <1>2. CASE \/ ChainThrough(r, ok) \/ ChainFailed(r) \/ ReadGivenUp(r)
    <2>1. toProgrammer' = toProgrammer \o <<>> /\ at' = at
      BY <1>2 DEF ChainThrough, ChainFailed, ReadGivenUp
    <2>2. PICK sent : sent = <<>>  OBVIOUS
    <2>3. sent \in Seq(Good) /\ 1 .. Len(sent) = {}  BY <2>2, SentNothing
    <2>4. SentBy(r, sent)  BY <2>1, <2>2, <2>3 DEF SentBy
    <2> QED  BY <2>1, <2>4 DEF AtBy
  <1>3. ASSUME NEW o \in Good, toProgrammer' = toProgrammer \o <<o>>, at' = at,
               r.chain # "disable",
               Personal(o) => Personal(r) /\ o.task = r.task
        PROVE  AtBy(r) /\ \E sent : SentBy(r, sent)
    <2>1. PICK sent : sent = <<o>>  OBVIOUS
    <2>2. sent \in Seq(Good) /\ Len(sent) = 1 /\ sent[1] = o  BY <2>1, SentOne
    <2>3. \A j, k \in 1 .. 1 : j = 1 /\ ~(j < k)  OBVIOUS
    <2>4. Personal(o) => at'[r.task] < Len(Variables[r.task])
      BY <1>3 DEF Entitled
    <2>5. SentBy(r, sent)  BY <1>3, <2>1, <2>2, <2>3, <2>4 DEF SentBy
    <2> QED  BY <1>3, <2>5 DEF AtBy
  <1>4. CASE NextSent(r, ok)
    <2>1. PICK o \in Good : /\ toProgrammer' = toProgrammer \o <<o>>
                            /\ o.chain = r.chain /\ o.task = r.task
      BY <1>4 DEF NextSent
    <2>2. at' = at /\ r.chain # "disable"  BY <1>4 DEF NextSent
    <2>3. Personal(o) => Personal(r) /\ o.task = r.task  BY <2>1 DEF Personal
    <2> QED  BY <1>3, <2>1, <2>2, <2>3
  <1>5. CASE ReadBegins(r)
    <2>1. r.task \in Tasks /\ r.chain = "service"  BY <1>5, RequestKinds DEF ReadBegins
    <2>2. PICK o : o = StartReading(r.task)  OBVIOUS
    <2>3. o \in Good /\ o.chain = "read" /\ o.task = r.task
      <3>1. Bits \in Nat \ {0} /\ RetryLimit \in Nat  BY Lp2Assumption
      <3>2. 0 \in 0 .. Bits /\ 0 \in 0 .. RetryLimit /\ 0 # Bits /\ {} \in Value
        BY <3>1 DEF Value
      <3> QED  BY <2>1, <2>2, <3>2, ReadingIsGood DEF StartReading
    <2>4. toProgrammer' = toProgrammer \o <<o>> /\ at' = at
      BY <1>5, <2>2 DEF ReadBegins
    <2> QED  BY <1>3, <2>1, <2>3, <2>4 DEF Personal
  <1>6. CASE ReadGoesOn(r, ok, ack)
    <2>1. PICK o \in Good : /\ toProgrammer' = toProgrammer \o <<o>>
                            /\ o.chain = "read" /\ o.task = r.task
      BY <1>6 DEF ReadGoesOn
    <2>2. at' = at /\ r.chain = "read"  BY <1>6 DEF ReadGoesOn
    <2> QED  BY <1>3, <2>1, <2>2 DEF Personal
  <1>7. CASE ValueRead(r, ok, ack)
    <2>1. r.chain = "read" /\ r.task \in Tasks  BY <1>7, RequestKinds DEF ValueRead
    <2>2. at' = [at EXCEPT ![r.task] = @ + 1]  BY <1>7 DEF ValueRead
    <2>3. AtBy(r)  BY <2>1, <2>2 DEF AtBy
    <2>4. Off1 \in Good /\ Off1.chain = "disable"
      <3>1. Len(Steps["disable"]) = 1 /\ 1 \in 1 .. 1  BY DEF Steps
      <3> QED  BY <3>1, ChainedIsGood DEF Off1
    <2>5. /\ Service1(r.task) \in Good /\ Service1(r.task).chain = "service"
          /\ Service1(r.task).task = r.task
      <3>1. Len(Steps["service"]) = 4 /\ 1 \in 1 .. 4  BY DEF Steps
      <3> QED  BY <2>1, <3>1, ChainedIsGood DEF Service1
    <2>6. CASE toProgrammer' = toProgrammer \o <<Off1>>
      <3>1. PICK sent : sent = <<Off1>>  OBVIOUS
      <3>2. sent \in Seq(Good) /\ Len(sent) = 1 /\ sent[1] = Off1  BY <2>4, <3>1, SentOne
      <3>3. \A j, k \in 1 .. 1 : j = 1 /\ ~(j < k)  OBVIOUS
      <3>4. SentBy(r, sent)  BY <2>1, <2>4, <2>6, <3>1, <3>2, <3>3 DEF SentBy, Personal
      <3> QED  BY <2>3, <3>4
    <2>7. CASE /\ toProgrammer' = toProgrammer \o <<Off1, Service1(r.task)>>
               /\ at[r.task] + 1 < Len(Variables[r.task])
      <3>1. PICK sent : sent = <<Off1, Service1(r.task)>>  OBVIOUS
      <3>2. /\ sent \in Seq(Good) /\ Len(sent) = 2
            /\ sent[1] = Off1 /\ sent[2] = Service1(r.task)
        BY <2>4, <2>5, <3>1, SentTwo
      <3>3. \A j, k \in 1 .. 2 : /\ k = 1 \/ k = 2
                                 /\ j < k => j = 1 /\ k = 2
        OBVIOUS
      <3>4. at'[r.task] = at[r.task] + 1  BY <2>1, <2>2
      <3>5. SentBy(r, sent)
        BY <2>1, <2>4, <2>5, <2>7, <3>1, <3>2, <3>3, <3>4 DEF SentBy, Personal
      <3> QED  BY <2>3, <3>5
    <2> QED  BY <1>7, <2>6, <2>7 DEF ValueRead
  <1> QED  BY <1>2, <1>4, <1>5, <1>6, <1>7 DEF ResponseKinds

-----------------------------------------------------------------------------
(* Every step keeps the requests under way apart.                            *)

LEMMA LineInit == Init => LineInv
  <1> SUFFICES ASSUME Init PROVE LineInv  OBVIOUS
  <1>1. toClient = <<>> /\ toProgrammer = <<>> /\ at = [t \in Tasks |-> 0]  BY DEF Init
  <1>2. UnderWay = {}
    <2>1. Len(toClient) = 0 /\ Len(toProgrammer) = 0  BY <1>1
    <2>2. 1 .. 0 + 0 = {}  OBVIOUS
    <2> QED  BY <2>1, <2>2 DEF UnderWay
  <1> QED  BY <1>1, <1>2 DEF LineInv

\* The session ends, and everything that is under way with it.
LEMMA LineClosed ==
    ASSUME LineInv, Close
    PROVE  LineInv' /\ UnderWay' = {}
  <1>1. toClient' = <<>> /\ toProgrammer' = <<>> /\ at' = at /\ started' = started
    BY DEF Close, callers
  <1>2. UnderWay' = {}
    <2>1. Len(toClient') = 0 /\ Len(toProgrammer') = 0  BY <1>1
    <2>2. 1 .. 0 + 0 = {}  OBVIOUS
    <2> QED  BY <2>1, <2>2 DEF UnderWay
  <1> QED  BY <1>1, <1>2 DEF LineInv

\* Nothing happens on the line.
LEMMA LineStays ==
    ASSUME LineInv, UNCHANGED <<toClient, toProgrammer, at, overlapped>>,
           started \subseteq started', open' = open
    PROVE  LineInv'
  <1>1. UnderWay' = UnderWay /\ \A i \in UnderWay : Under(i)' = Under(i)
    BY DEF UnderWay, Under
  <1> QED  BY <1>1 DEF LineInv, Entitled, Apart, Alone, Personal

\* Who begins a chain while nobody else does has the line alone.
LEMMA NoChains ==
    ASSUME TypeInv
    PROVE  Chains = {} <=> \A i \in UnderWay : Under(i).chain = "drive"
  <1>1. ASSUME Chains = {}, NEW i \in UnderWay PROVE Under(i).chain = "drive"
    <2>1. /\ Len(toClient) \in Nat /\ Len(toProgrammer) \in Nat
          /\ DOMAIN toClient = 1 .. Len(toClient)
          /\ DOMAIN toProgrammer = 1 .. Len(toProgrammer)
      BY LineType
    <2>2. CASE i <= Len(toClient)
      <3>1. i \in DOMAIN toClient  BY <2>1, <2>2 DEF UnderWay
      <3>2. toClient[i] \in ToSet(toClient)  BY <3>1 DEF ToSet
      <3> QED  BY <1>1, <3>2 DEF Chains
    <2>3. CASE ~(i <= Len(toClient))
      <3>1. i - Len(toClient) \in DOMAIN toProgrammer  BY <2>1, <2>3 DEF UnderWay
      <3>2. Under(i) = toProgrammer[i - Len(toClient)]  BY <2>3 DEF Under
      <3>3. toProgrammer[i - Len(toClient)] \in ToSet(toProgrammer)  BY <3>1 DEF ToSet
      <3> QED  BY <1>1, <3>2, <3>3 DEF Chains
    <2> QED  BY <2>2, <2>3
  <1>2. ASSUME \A i \in UnderWay : Under(i).chain = "drive" PROVE Chains = {}
    <2>1. /\ Len(toClient) \in Nat /\ Len(toProgrammer) \in Nat
          /\ DOMAIN toClient = 1 .. Len(toClient)
          /\ DOMAIN toProgrammer = 1 .. Len(toProgrammer)
          /\ \A i \in UnderWay : i <= Len(toClient) => Under(i).chain # "drive"
      BY LineType
    <2>2. ASSUME NEW a \in ToSet(toClient) PROVE FALSE
      <3>1. PICK i \in DOMAIN toClient : a = toClient[i]  BY DEF ToSet
      <3>2. i \in UnderWay /\ i <= Len(toClient)  BY <2>1 DEF UnderWay
      <3> QED  BY <1>2, <2>1, <3>2
    <2>3. ASSUME NEW r \in ToSet(toProgrammer) PROVE r.chain = "drive"
      <3>1. PICK k \in DOMAIN toProgrammer : r = toProgrammer[k]  BY DEF ToSet
      <3>2. PICK c, p : c = Len(toClient) /\ p = Len(toProgrammer)  OBVIOUS
      <3>3. c \in Nat /\ p \in Nat /\ k \in 1 .. p  BY <2>1, <3>2
      <3>4. c + k \in 1 .. c + p /\ ~(c + k <= c) /\ (c + k) - c = k  BY <3>3
      <3>5. c + k \in UnderWay /\ Under(c + k) = toProgrammer[k]
        BY <3>2, <3>4 DEF UnderWay, Under
      <3> QED  BY <1>2, <3>1, <3>5
    <2> QED  BY <2>2, <2>3 DEF Chains
  <1> QED  BY <1>1, <1>2

\* A request is sent by a caller.
LEMMA LineExtended ==
    ASSUME TypeInv, LineInv, NEW o \in Good, toProgrammer' = Append(toProgrammer, o),
           UNCHANGED <<toClient, at>>, started \subseteq started', open',
           Personal(o) => /\ o.task \in started' \ started /\ o.task \in Tasks
                          /\ at[o.task] < Len(Variables[o.task]),
           overlapped' \in BOOLEAN, overlapped => overlapped',
           o.chain = "drive" \/ overlapped' \/ Chains = {}
    PROVE  LineInv'
  <1>1. PICK n : n = Len(toClient) + Len(toProgrammer)  OBVIOUS
  <1>2. /\ n \in Nat /\ UnderWay = 1 .. n /\ UnderWay' = 1 .. n + 1
        /\ \A i \in UnderWay : Under(i)' = Under(i)
        /\ Under(n + 1)' = o
    BY <1>1, LineAppended
  <1>3. \A i \in 1 .. n + 1 : i \in 1 .. n \/ i = n + 1  BY <1>2
  <1>4. ASSUME NEW i \in UnderWay' PROVE Entitled(Under(i))'
    <2>1. CASE i \in UnderWay
      <3>1. Under(i)' = Under(i) /\ Entitled(Under(i))  BY <1>2, <2>1 DEF LineInv
      <3> QED  BY <3>1 DEF Entitled, Personal
    <2>2. CASE i = n + 1
      <3>1. Under(i)' = o  BY <1>2, <2>2
      <3> QED  BY <3>1 DEF Entitled, Personal
    <2> QED  BY <1>2, <1>3, <2>1, <2>2
  <1>5. ASSUME NEW i \in UnderWay', NEW j \in UnderWay', i < j
        PROVE  /\ Apart(Under(i), Under(j))'
               /\ ~overlapped' => Alone(Under(i), Under(j))'
    <2>1. i \in UnderWay /\ Under(i)' = Under(i)  BY <1>2, <1>5
    <2>2. CASE j \in UnderWay
      <3>1. Under(j)' = Under(j)  BY <1>2, <2>2
      <3>2. Apart(Under(i), Under(j)) /\ (~overlapped => Alone(Under(i), Under(j)))
        BY <1>5, <2>1, <2>2 DEF LineInv
      <3> QED  BY <2>1, <3>1, <3>2 DEF Apart, Alone, Personal
    <2>3. CASE j = n + 1
      <3>1. Under(j)' = o  BY <1>2, <2>3
      <3>2. Entitled(Under(i))  BY <2>1 DEF LineInv
      <3>3. Apart(Under(i), Under(j))'
        BY <2>1, <3>1, <3>2 DEF Apart, Entitled, Personal
      <3>4. ~overlapped' => Alone(Under(i), Under(j))'
        BY <2>1, <3>1, NoChains DEF Alone
      <3> QED  BY <3>3, <3>4
    <2> QED  BY <1>2, <1>3, <2>2, <2>3
  <1>6. \A t \in Tasks \ started' : at'[t] = 0  BY DEF LineInv
  <1> QED  BY <1>4, <1>5, <1>6 DEF LineInv

\* A response is parsed.
LEMMA LineAnswered ==
    ASSUME TypeInv, LineInv, toClient # <<>>, NEW a, a = Head(toClient),
           Parsed, ResponseKinds(a.request, a.ok, a.ack)
    PROVE  LineInv'
  <1>1. PICK n : n = Len(toClient) + Len(toProgrammer)  OBVIOUS
  <1>2. PICK r : r = a.request  OBVIOUS
  <1>3. /\ toClient' = Tail(toClient) /\ started' = started /\ overlapped' = overlapped
        /\ open' = open
    BY DEF Parsed
  <1>4. 1 \in UnderWay /\ Under(1) = r /\ r \in Good /\ r.chain # "drive"
    <2>1. \A i \in 1 .. Len(toClient) : toClient[i].request \in Good \ Driving  BY LineType
    <2>2. toClient \in Seq(Answer) /\ Len(toClient) \in Nat \ {0}
      BY LineType, EmptySeq, LenProperties
    <2>3. 1 \in 1 .. Len(toClient) /\ Head(toClient) = toClient[1] /\ 1 <= Len(toClient)
      BY <2>2, HeadTailProperties
    <2>4. 1 \in UnderWay /\ Under(1) = r
      BY <1>2, <2>2, <2>3, LineType DEF UnderWay, Under
    <2> QED  BY <2>3, <2>4, LineType
  <1>5. Entitled(r)  BY <1>4 DEF LineInv
  <1>6. AtBy(r) /\ \E sent : SentBy(r, sent)
    BY <1>2, <1>4, <1>5, ResponseSends DEF TypeInv, TypeOK
  <1>7. PICK sent : SentBy(r, sent)  BY <1>6
  <1>8. PICK m : m = Len(sent)  OBVIOUS
  <1>9. /\ n \in Nat \ {0} /\ m \in Nat /\ UnderWay = 1 .. n /\ UnderWay' = 1 .. n - 1 + m
        /\ \A i \in 1 .. n - 1 : Under(i)' = Under(i + 1)
        /\ SentAfter(n, sent)
    <2>1. sent \in Seq(Good) /\ toProgrammer' = toProgrammer \o sent  BY <1>7 DEF SentBy
    <2> QED  BY <1>1, <1>3, <1>8, <2>1, LineParsed
  <1>10. \A i \in UnderWay' : \/ i \in 1 .. n - 1 /\ i + 1 \in UnderWay /\ 1 < i + 1
                              \/ \E k \in 1 .. m : i = n - 1 + k
    <2> SUFFICES ASSUME NEW i \in UnderWay'
                 PROVE  \/ i \in 1 .. n - 1 /\ i + 1 \in UnderWay /\ 1 < i + 1
                        \/ \E k \in 1 .. m : i = n - 1 + k
      OBVIOUS
    <2>1. i \in 1 .. n - 1 + m  BY <1>9
    <2>2. CASE i <= n - 1
      <3>1. i \in 1 .. n - 1 /\ i + 1 \in 1 .. n /\ 1 < i + 1  BY <1>9, <2>1, <2>2
      <3> QED  BY <1>9, <3>1
    <2>3. CASE ~(i <= n - 1)
      <3>1. i - (n - 1) \in 1 .. m /\ i = n - 1 + (i - (n - 1))  BY <1>9, <2>1, <2>3
      <3> QED  BY <3>1
    <2> QED  BY <2>2, <2>3
  <1>11. ASSUME NEW i \in 1 .. n - 1
         PROVE  /\ Under(i)' = Under(i + 1) /\ Apart(r, Under(i + 1)) /\ Entitled(Under(i + 1))
                /\ ~overlapped => Alone(r, Under(i + 1))
    <2>1. 1 \in UnderWay /\ i + 1 \in UnderWay /\ 1 < i + 1  BY <1>9
    <2> QED  BY <1>4, <1>9, <2>1 DEF LineInv
  <1>12. ASSUME NEW i \in UnderWay' PROVE Entitled(Under(i))'
    <2>1. CASE i \in 1 .. n - 1
      <3>1. /\ Under(i)' = Under(i + 1) /\ Apart(r, Under(i + 1)) /\ Entitled(Under(i + 1))
        BY <1>11, <2>1
      <3>2. PICK s : s = Under(i + 1)  OBVIOUS
      <3>3. Personal(s) => at'[s.task] = at[s.task]
        <4> HAVE Personal(s)
        <4>1. s.task \in Tasks  BY <3>1, <3>2, LineType DEF Entitled
        <4>2. r.chain = "read" => s.task # r.task  BY <3>1, <3>2 DEF Apart, Personal
        <4> QED  BY <1>6, <4>1, <4>2 DEF AtBy
      <3> QED  BY <1>3, <3>1, <3>2, <3>3 DEF Entitled, Personal
    <2>2. ASSUME NEW k \in 1 .. m, i = n - 1 + k PROVE Entitled(Under(i))'
      <3>1. Under(i)' = sent[k]  BY <1>8, <1>9, <2>2 DEF SentAfter
      <3>2. Personal(sent[k]) => /\ Personal(r) /\ sent[k].task = r.task
                                 /\ at'[r.task] < Len(Variables[r.task])
        BY <1>7, <1>8 DEF SentBy
      <3> QED  BY <1>3, <1>5, <3>1, <3>2 DEF Entitled, Personal
    <2> QED  BY <1>10, <2>1, <2>2
  <1>13. ASSUME NEW i \in UnderWay', NEW j \in UnderWay', i < j
         PROVE  /\ Apart(Under(i), Under(j))'
                /\ ~overlapped' => Alone(Under(i), Under(j))'
    <2>1. CASE i \in 1 .. n - 1 /\ j \in 1 .. n - 1
      <3>1. Under(i)' = Under(i + 1) /\ Under(j)' = Under(j + 1)  BY <1>9, <2>1
      <3>2. i + 1 \in UnderWay /\ j + 1 \in UnderWay /\ i + 1 < j + 1  BY <1>9, <1>13, <2>1
      <3>3. /\ Apart(Under(i + 1), Under(j + 1))
            /\ ~overlapped => Alone(Under(i + 1), Under(j + 1))
        BY <3>2 DEF LineInv
      <3> QED  BY <1>3, <3>1, <3>3 DEF Apart, Alone, Personal
    <2>2. ASSUME i \in 1 .. n - 1, NEW k \in 1 .. m, j = n - 1 + k
          PROVE  /\ Apart(Under(i), Under(j))'
                 /\ ~overlapped' => Alone(Under(i), Under(j))'
      <3>1. PICK s : s = Under(i + 1)  OBVIOUS
      <3>2. Under(i)' = s /\ Apart(r, s) /\ (~overlapped => Alone(r, s))
        BY <1>11, <2>2, <3>1
      <3>3. Under(j)' = sent[k]  BY <1>8, <1>9, <2>2 DEF SentAfter
      <3>4. Personal(sent[k]) => Personal(r) /\ sent[k].task = r.task
        BY <1>7, <1>8 DEF SentBy
      <3>5. Apart(Under(i), Under(j))'  BY <3>2, <3>3, <3>4 DEF Apart, Personal
      <3>6. r.chain # "disable"
        <4>1. 1 \in 1 .. m  BY <1>9, <2>2
        <4> QED  BY <1>7, <1>8, <4>1 DEF SentBy
      <3>7. ~overlapped' => Alone(Under(i), Under(j))'
        BY <1>3, <1>4, <3>2, <3>3, <3>6 DEF Alone
      <3> QED  BY <3>5, <3>7
    <2>3. ASSUME NEW k \in 1 .. m, i = n - 1 + k, NEW l \in 1 .. m, j = n - 1 + l
          PROVE  /\ Apart(Under(i), Under(j))'
                 /\ ~overlapped' => Alone(Under(i), Under(j))'
      <3>1. k < l  BY <1>9, <1>13, <2>3
      <3>2. Under(i)' = Off1 /\ Under(j)' = Service1(r.task)
        BY <1>7, <1>8, <1>9, <2>3, <3>1 DEF SentBy, SentAfter
      <3>3. /\ Off1.chain = "disable" /\ Service1(r.task).chain = "service"
            /\ Service1(r.task).index = 1
        BY DEF Off1, Service1
      <3> QED  BY <3>2, <3>3 DEF Apart, Alone, Personal
    <2>4. ~(\E k \in 1 .. m : i = n - 1 + k /\ j \in 1 .. n - 1)
      BY <1>9, <1>13
    <2> QED  BY <1>10, <2>1, <2>2, <2>3, <2>4
  <1>14. \A t \in Tasks \ started' : at'[t] = 0
    <2> TAKE t \in Tasks \ started'
    <2>1. at[t] = 0 /\ t \notin started  BY <1>3 DEF LineInv
    <2>2. r.chain = "read" => r.task \in started  BY <1>5 DEF Entitled, Personal
    <2> QED  BY <1>6, <2>1, <2>2 DEF AtBy
  <1>15. open'  BY <1>3 DEF LineInv
  <1> QED  BY <1>12, <1>13, <1>14, <1>15 DEF LineInv

\* The programmer responds.
LEMMA LineServed ==
    ASSUME TypeInv, LineInv, NEW ok \in BOOLEAN, NEW ack, Respond(ok, ack)
    PROVE  LineInv'
  <1>1. PICK n : n = Len(toClient) + Len(toProgrammer)  OBVIOUS
  <1>2. PICK c : c = Len(toClient)  OBVIOUS
  <1>3. PICK r : r = Head(toProgrammer)  OBVIOUS
  <1>4. /\ n \in Nat \ {0} /\ UnderWay = 1 .. n
        /\ r.chain # "drive" =>
             /\ UnderWay' = 1 .. n
             /\ \A i \in 1 .. n : Under(i)' = Under(i)
        /\ r.chain = "drive" =>
             /\ UnderWay' = 1 .. n - 1
             /\ \A i \in 1 .. n - 1 : Under(i)' = IF i <= c THEN Under(i) ELSE Under(i + 1)
    BY <1>1, <1>2, <1>3, LineResponded
  <1>5. /\ UNCHANGED <<open, started, at, overlapped>> /\ toProgrammer # <<>>
    BY DEF Respond, session, callers
  <1>6. open  BY <1>5 DEF LineInv
  <1>7. CASE r.chain # "drive"
    <2>1. UnderWay' = UnderWay /\ \A i \in UnderWay : Under(i)' = Under(i)  BY <1>4, <1>7
    <2> QED  BY <1>5, <1>6, <2>1 DEF LineInv, Entitled, Apart, Alone, Personal
  <1>8. CASE r.chain = "drive"
    <2>1. PICK f : f = [i \in 1 .. n - 1 |-> IF i <= c THEN i ELSE i + 1]  OBVIOUS
    <2>2. /\ \A i \in 1 .. n - 1 : f[i] \in 1 .. n
          /\ \A i, j \in 1 .. n - 1 : i < j => f[i] < f[j]
      <3>1. c \in Nat  BY <1>2, LineType
      <3> QED  BY <1>4, <2>1, <3>1
    <2>3. \A i \in 1 .. n - 1 : Under(i)' = Under(f[i])  BY <1>4, <1>8, <2>1
    <2>4. ASSUME NEW i \in UnderWay' PROVE Entitled(Under(i))'
      <3>1. Under(i)' = Under(f[i]) /\ Entitled(Under(f[i]))
        BY <1>4, <1>8, <2>2, <2>3 DEF LineInv
      <3> QED  BY <1>5, <3>1 DEF Entitled, Personal
    <2>5. ASSUME NEW i \in UnderWay', NEW j \in UnderWay', i < j
          PROVE  /\ Apart(Under(i), Under(j))'
                 /\ ~overlapped' => Alone(Under(i), Under(j))'
      <3>1. Under(i)' = Under(f[i]) /\ Under(j)' = Under(f[j])  BY <1>4, <1>8, <2>3
      <3>2. f[i] \in UnderWay /\ f[j] \in UnderWay /\ f[i] < f[j]  BY <1>4, <1>8, <2>2, <2>5
      <3>3. /\ Apart(Under(f[i]), Under(f[j]))
            /\ ~overlapped => Alone(Under(f[i]), Under(f[j]))
        BY <3>2 DEF LineInv
      <3> QED  BY <1>5, <3>1, <3>3 DEF Apart, Alone, Personal
    <2>6. \A t \in Tasks \ started' : at'[t] = 0  BY <1>5 DEF LineInv
    <2> QED  BY <1>5, <1>6, <2>4, <2>5, <2>6 DEF LineInv
  <1> QED  BY <1>7, <1>8

\* The requests of callers.
LEMMA FirstRequests ==
    /\ [chain |-> "info", index |-> 1, task |-> Nobody] \in Good
    /\ \A t \in Tasks : [chain |-> "service", index |-> 1, task |-> t] \in Good
    /\ \A chain \in {"enable", "disable"} :
           [chain |-> chain, index |-> 1, task |-> Nobody] \in Good
  <1>1. /\ 1 \in 1 .. Len(Steps["info"]) /\ 1 \in 1 .. Len(Steps["service"])
        /\ 1 \in 1 .. Len(Steps["enable"]) /\ 1 \in 1 .. Len(Steps["disable"])
    BY DEF Steps
  <1>2. ASSUME NEW chain \in {"enable", "disable"}
        PROVE  [chain |-> chain, index |-> 1, task |-> Nobody] \in Good
    <2>1. 1 \in 1 .. Len(Steps[chain]) /\ chain # "service"  BY <1>1
    <2> QED  BY <2>1, ChainedIsGood
  <1> QED  BY <1>1, <1>2, ChainedIsGood

\* A chain begins with its first request.
LEMMA Begins ==
    ASSUME TypeInv, NEW chain, NEW task, Apply(Begin(Working, chain, task))
    PROVE  /\ toProgrammer' =
                  Append(toProgrammer, [chain |-> chain, index |-> 1, task |-> task])
           /\ UNCHANGED <<state, at, results, told, gaveUp, disrupted>>
  <1>1. PICK o : o = [chain |-> chain, index |-> 1, task |-> task]  OBVIOUS
  <1>2. Apply(SendRequest(Working, o))  BY <1>1 DEF Begin
  <1>3. /\ toProgrammer' = toProgrammer \o <<o>>
        /\ UNCHANGED <<state, at, results, told, gaveUp, disrupted>>
    BY <1>2, Sends
  <1> QED  BY <1>1, <1>3, AppendIsConcat

LEMMA LineKept ==
    ASSUME TypeInv, LineInv, [Next]_vars
    PROVE  LineInv'
  <1>1. overlapped \in BOOLEAN /\ started \subseteq Tasks  BY DEF TypeInv, TypeOK
  <1>2. CASE Connect
    <2>1. CASE open  BY <1>2, <2>1, LineClosed DEF Connect
    <2>2. CASE ~open
      <3>1. PICK o : o = [chain |-> "info", index |-> 1, task |-> Nobody]  OBVIOUS
      <3>2. /\ open' /\ UNCHANGED <<toClient, started, overlapped>>
            /\ toProgrammer' = Append(toProgrammer, o) /\ at' = at
        BY <1>2, <2>2, <3>1, Begins DEF Connect
      <3>3. o \in Good /\ ~Personal(o)  BY <3>1, FirstRequests DEF Personal
      <3>4. Chains = {}  BY <2>2 DEF LineInv, Chains, ToSet
      <3> QED  BY <1>1, <3>2, <3>3, <3>4, LineExtended
    <2> QED  BY <2>1, <2>2
  <1>3. CASE Disconnect  BY <1>3, LineClosed DEF Disconnect
  <1>4. CASE ConnectTimeout  BY <1>4, LineClosed DEF ConnectTimeout, Timeout
  <1>5. ASSUME NEW t \in Tasks, Start(t) PROVE LineInv'
    <2>1. CASE open
      <3>1. PICK o : o = [chain |-> "service", index |-> 1, task |-> t]  OBVIOUS
      <3>2. /\ UNCHANGED <<open, toClient>> /\ started' = started \union {t}
            /\ overlapped' = (overlapped \/ Chains # {}) /\ t \notin started
            /\ toProgrammer' = Append(toProgrammer, o) /\ at' = at
        BY <1>5, <2>1, <3>1, Begins DEF Start, ReadVariable, session
      <3>3. o \in Good /\ o.task = t  BY <3>1, FirstRequests
      <3>4. at[t] < Len(Variables[t])
        <4>1. at[t] = 0  BY <3>2 DEF LineInv
        <4>2. Variables[t] \in Seq(STRING) /\ Variables[t] # <<>>  BY Lp2Assumption
        <4>3. Len(Variables[t]) \in Nat \ {0}  BY <4>2, EmptySeq, LenProperties
        <4> QED  BY <4>1, <4>3
      <3> QED  BY <1>1, <2>1, <3>2, <3>3, <3>4, LineExtended
    <2>2. CASE ~open
      <3>1. UNCHANGED <<open, toClient, toProgrammer, at, overlapped>>
            /\ started' = started \union {t}
        BY <1>5, <2>2 DEF Start, session
      <3> QED  BY <3>1, LineStays
    <2> QED  BY <2>1, <2>2
  <1>6. ASSUME NEW chain \in {"enable", "disable"}, Call(chain) PROVE LineInv'
    <2>1. PICK o : o = [chain |-> chain, index |-> 1, task |-> Nobody]  OBVIOUS
    <2>2. /\ open /\ UNCHANGED <<open, toClient, started>>
          /\ overlapped' = (overlapped \/ Chains # {})
          /\ toProgrammer' = Append(toProgrammer, o) /\ at' = at
      BY <1>6, <2>1, Begins DEF Call, session
    <2>3. o \in Good /\ ~Personal(o)  BY <2>1, FirstRequests DEF Personal
    <2> QED  BY <1>1, <2>2, <2>3, LineExtended
  <1>7. CASE Drive
    <2>1. PICK o : o = [chain |-> "drive"]  OBVIOUS
    <2>2. /\ open /\ UNCHANGED <<open, toClient, started, overlapped, at>>
          /\ toProgrammer' = Append(toProgrammer, o)
      BY <1>7, <2>1 DEF Drive, session, callers
    <2>3. o \in Good /\ ~Personal(o) /\ o.chain = "drive"
      BY <2>1, DrivingIsGood DEF Personal
    <2> QED  BY <1>1, <2>2, <2>3, LineExtended
  <1>8. CASE ParseMessage
    <2>1. PICK a : a = Head(toClient)  OBVIOUS
    <2>2. toClient # <<>>  BY <1>8 DEF ParseMessage
    <2> QED  BY <1>8, <2>1, <2>2, ParseKinds, LineClosed, LineAnswered
  <1>9. CASE Execute  BY <1>9, LineServed DEF Execute
  <1>10. CASE Refuse  BY <1>10, LineServed DEF Refuse
  <1>11. CASE Misread  BY <1>11, LineServed DEF Misread
  <1>12. CASE UNCHANGED vars
    BY <1>12, LineStays DEF vars, session, callers
  <1> QED  BY <1>2, <1>3, <1>4, <1>5, <1>6, <1>7, <1>8, <1>9, <1>10, <1>11, <1>12 DEF Next

-----------------------------------------------------------------------------
(* Every variable has its type.                                              *)

LEMMA TypeInit == Init => TypeInv
  <1> SUFFICES ASSUME Init PROVE TypeInv  OBVIOUS
  <1>1. state = "PowerOff" /\ mode = "off"  BY DEF Init
  <1>2. state \in {State[c] : c \in DOMAIN State} /\ mode \in {Mode[c] : c \in DOMAIN Mode}
    <2>1. /\ "disable" \in DOMAIN State /\ State["disable"] = "PowerOff"
          /\ "disable" \in DOMAIN Mode /\ Mode["disable"] = "off"
      BY DEF State, Mode
    <2> QED  BY <1>1, <2>1
  <1>3. toProgrammer = <<>> /\ toClient = <<>> /\ DOMAIN toProgrammer = {} /\ DOMAIN toClient = {}
    BY DEF Init
  <1>4. /\ {open, connectTimer, identified, gaveUp, overlapped, disrupted} \subseteq BOOLEAN
        /\ decoder \in Decoders /\ told \subseteq started /\ started \subseteq Tasks
    BY DEF Init
  <1>5. toProgrammer \in Seq(Request) /\ toClient \in Seq(Answer)  BY <1>3
  <1>6. at \in [Tasks -> Nat] /\ happened \in [Events -> Nat]  BY DEF Init
  <1>7. results \in [Tasks -> SUBSET [variable: Read, value: Value]]  BY DEF Init
  <1>8. TypeOK  BY <1>2, <1>4, <1>5, <1>6, <1>7 DEF TypeOK, Answer
  <1> QED  BY <1>3, <1>8 DEF TypeInv

\* Requests are put on the line.
LEMMA TypeSent ==
    ASSUME TypeInv, NEW sent \in Seq(Good), toProgrammer' = toProgrammer \o sent
    PROVE  /\ toProgrammer' \in Seq(Request)
           /\ \A i \in DOMAIN toProgrammer' : toProgrammer'[i] \in Good
  <1>1. toProgrammer \in Seq(Good)  BY LineType
  <1>2. toProgrammer' \in Seq(Good)  BY <1>1, ConcatProperties
  <1>3. \A i \in DOMAIN toProgrammer' : toProgrammer'[i] \in Good  BY <1>2, ElementOfSeq
  <1>4. Good \subseteq Request  BY DEF Good
  <1> QED  BY <1>2, <1>3, <1>4, SeqMonotonic

\* The values of the simple variables.
SimpleTypes ==
    /\ {open, connectTimer, identified, gaveUp, overlapped, disrupted} \subseteq BOOLEAN
    /\ state \in {State[c] : c \in DOMAIN State}
    /\ mode \in {Mode[c] : c \in DOMAIN Mode} /\ decoder \in Decoders
    /\ told \subseteq started /\ started \subseteq Tasks
    /\ at \in [Tasks -> Nat]
    /\ results \in [Tasks -> SUBSET [variable: Read, value: Value]]

LineTypes ==
    /\ toProgrammer \in Seq(Request) /\ toClient \in Seq(Answer)
    /\ \A i \in DOMAIN toProgrammer : toProgrammer[i] \in Good
    /\ \A i \in DOMAIN toClient : toClient[i].request \in Good

LEMMA TypeParts == TypeInv <=> SimpleTypes /\ LineTypes /\ happened \in [Events -> Nat]
  BY DEF TypeInv, TypeOK, SimpleTypes, LineTypes, Answer

LEMMA TypePartsNext ==
    ASSUME SimpleTypes', LineTypes', happened' \in [Events -> Nat]
    PROVE  TypeInv'
  BY DEF TypeInv, TypeOK, SimpleTypes, LineTypes, Answer

LEMMA TypeHappened ==
    ASSUME happened \in [Events -> Nat],
           UNCHANGED happened \/ \E kind \in Events : Event(kind)
    PROVE  happened' \in [Events -> Nat]
  <1>1. CASE UNCHANGED happened  BY <1>1
  <1>2. ASSUME NEW kind \in Events, Event(kind) PROVE happened' \in [Events -> Nat]
    BY <1>2, EventCounts
  <1> QED  BY <1>1, <1>2

\* Switching the power changes the state to one of those of the chains.
LEMMA TypeState ==
    /\ \A c \in {"service", "enable", "disable"} : State[c] \in {State[x] : x \in DOMAIN State}
    /\ \A c \in {"service", "enable", "disable"} : Mode[c] \in {Mode[x] : x \in DOMAIN Mode}
    /\ State["service"] = "ServiceMode" /\ State["enable"] = "PowerOn"
    /\ State["disable"] = "PowerOff"
    /\ Mode["service"] = "service" /\ Mode["enable"] = "driving" /\ Mode["disable"] = "off"
  BY DEF State, Mode

\* What a response does to the simple variables.
LEMMA TypeResponse ==
    ASSUME TypeInv, NEW r \in Good, r.chain # "drive", Entitled(r), NEW ok, NEW ack,
           ResponseKinds(r, ok, ack), Parsed
    PROVE  SimpleTypes'
  <1>1. SimpleTypes  BY TypeParts
  <1>2. /\ {open', connectTimer', identified', overlapped'} \subseteq BOOLEAN
        /\ mode' = mode /\ decoder' = decoder /\ started' = started
    BY <1>1 DEF Parsed, SimpleTypes, station
  <1>3. r.chain = "read" => r.task \in started /\ r.task \in Tasks /\ r.value \in Value
    BY <1>1, RequestKinds DEF SimpleTypes, Entitled, Personal
  <1>4. CASE NextSent(r, ok) \/ ReadGoesOn(r, ok, ack) \/ ReadGivenUp(r)
    <2>1. /\ UNCHANGED <<state, at, results, disrupted>>
          /\ told' \in {told, told \union {r.task}} /\ (told' = told \/ r.chain = "read")
          /\ gaveUp' \in {gaveUp, TRUE}
      BY <1>4 DEF NextSent, ReadGoesOn, ReadGivenUp
    <2> QED  BY <1>1, <1>2, <1>3, <2>1 DEF SimpleTypes
  <1>5. CASE ChainThrough(r, ok) \/ ChainFailed(r) \/ ReadBegins(r)
    <2>1. /\ UNCHANGED <<at, results, told, gaveUp>> /\ disrupted' \in {disrupted, TRUE}
          /\ state' \in {state, State["service"], State["enable"], State["disable"]}
      BY <1>5, TypeState DEF ChainThrough, ChainFailed, ReadBegins
    <2> QED  BY <1>1, <1>2, <2>1, TypeState DEF SimpleTypes
  <1>6. CASE ValueRead(r, ok, ack)
    <2>1. PICK t, v : t = r.task /\ v = r.value  OBVIOUS
    <2>2. t \in started /\ t \in Tasks /\ v \in Value /\ at[t] < Len(Variables[t])
      BY <1>3, <1>6, <2>1 DEF ValueRead, Entitled, Personal
    <2>3. PICK name : name = Variables[t][at[t] + 1]  OBVIOUS
    <2>4. name \in Read
      <3>1. Variables[t] \in Seq(STRING)  BY <2>2, Lp2Assumption
      <3>2. PICK n, k : n = Len(Variables[t]) /\ k = at[t] + 1  OBVIOUS
      <3>3. at[t] \in Nat  BY <1>1, <2>2 DEF SimpleTypes
      <3>4. n \in Nat  BY <3>1, <3>2, LenProperties
      <3>5. k \in 1 .. n  BY <2>2, <3>2, <3>3, <3>4
      <3>6. k \in DOMAIN Variables[t]  BY <3>1, <3>2, <3>5, LenProperties
      <3>7. name \in ToSet(Variables[t])  BY <2>3, <3>2, <3>6 DEF ToSet
      <3> QED  BY <2>2, <3>7 DEF Read
    <2>5. PICK entry : entry = [variable |-> name, value |-> v]  OBVIOUS
    <2>6. entry \in [variable: Read, value: Value]  BY <2>2, <2>4, <2>5
    <2>7. /\ UNCHANGED <<state, gaveUp, disrupted>>
          /\ told' = told \union {t} /\ at' = [at EXCEPT ![t] = @ + 1]
          /\ results' = [results EXCEPT ![t] = @ \union {entry}]
      BY <1>6, <2>1, <2>3, <2>5 DEF ValueRead
    <2>8. at' \in [Tasks -> Nat]  BY <1>1, <2>2, <2>7 DEF SimpleTypes
    <2>9. results' \in [Tasks -> SUBSET [variable: Read, value: Value]]
      <3>1. results \in [Tasks -> SUBSET [variable: Read, value: Value]]
        BY <1>1 DEF SimpleTypes
      <3>2. results[t] \union {entry} \in SUBSET [variable: Read, value: Value]
        BY <2>2, <2>6, <3>1
      <3> QED  BY <2>7, <3>1, <3>2
    <2> QED  BY <1>1, <1>2, <2>2, <2>7, <2>8, <2>9 DEF SimpleTypes
  <1> QED  BY <1>4, <1>5, <1>6 DEF ResponseKinds

\* What a response does to the lines.
LEMMA TypeLines ==
    ASSUME TypeInv, LineInv, toClient # <<>>, NEW a, a = Head(toClient),
           Parsed, ResponseKinds(a.request, a.ok, a.ack)
    PROVE  TypeInv'
  <1>1. PICK r : r = a.request  OBVIOUS
  <1>2. toClient \in Seq(Answer) /\ Len(toClient) \in Nat \ {0}
    BY LineType, EmptySeq, LenProperties
  <1>3. r \in Good /\ r.chain # "drive" /\ Entitled(r)
    <2>1. 1 \in 1 .. Len(toClient) /\ Head(toClient) = toClient[1] /\ 1 <= Len(toClient)
      BY <1>2, HeadTailProperties
    <2>2. 1 \in UnderWay /\ Under(1) = r
      BY <1>1, <1>2, <2>1, LineType DEF UnderWay, Under
    <2> QED  BY <2>1, <2>2, LineType DEF LineInv
  <1>4. SimpleTypes'  BY <1>1, <1>3, TypeResponse
  <1>5. PICK sent : SentBy(r, sent)
    BY <1>1, <1>3, ResponseSends DEF TypeInv, TypeOK
  <1>6. /\ toProgrammer' \in Seq(Request)
        /\ \A i \in DOMAIN toProgrammer' : toProgrammer'[i] \in Good
    BY <1>5, TypeSent DEF SentBy
  <1>7. /\ toClient' \in Seq(Answer)
        /\ \A i \in DOMAIN toClient' : toClient'[i].request \in Good
    <2>1. toClient' = Tail(toClient)  BY DEF Parsed
    <2>2. /\ toClient' \in Seq(Answer)
          /\ \A i \in DOMAIN toClient' :
                 i + 1 \in DOMAIN toClient /\ toClient'[i] = toClient[i + 1]
      BY <1>2, <2>1, HeadTailProperties, LenProperties
    <2>3. \A i \in DOMAIN toClient : toClient[i].request \in Good  BY LineType
    <2> QED  BY <2>2, <2>3
  <1>8. happened' \in [Events -> Nat]  BY TypeParts DEF Parsed
  <1> QED  BY <1>4, <1>6, <1>7, <1>8, TypePartsNext DEF LineTypes

\* A request of a caller is put on the line.
LEMMA TypeBegins ==
    ASSUME LineTypes, NEW o \in Good, toProgrammer' = Append(toProgrammer, o),
           UNCHANGED toClient
    PROVE  LineTypes'
  <1>1. toProgrammer' \in Seq(Request)  BY AppendProperties DEF LineTypes, Good
  <1>2. ASSUME NEW i \in DOMAIN toProgrammer' PROVE toProgrammer'[i] \in Good
    <2>1. /\ toProgrammer \in Seq(Request) /\ o \in Request
          /\ DOMAIN toProgrammer = 1 .. Len(toProgrammer) /\ Len(toProgrammer) \in Nat
      BY LenProperties DEF LineTypes, Good
    <2>2. /\ i \in 1 .. Len(toProgrammer) + 1
          /\ Append(toProgrammer, o)[Len(toProgrammer) + 1] = o
          /\ \A k \in 1 .. Len(toProgrammer) : Append(toProgrammer, o)[k] = toProgrammer[k]
      BY <1>1, <2>1, AppendProperties, LenProperties
    <2>3. i \in 1 .. Len(toProgrammer) \/ i = Len(toProgrammer) + 1  BY <2>1, <2>2
    <2> QED  BY <2>1, <2>2, <2>3 DEF LineTypes
  <1> QED  BY <1>1, <1>2 DEF LineTypes

\* The programmer responds.
LEMMA TypeResponds ==
    ASSUME TypeInv, NEW ok \in BOOLEAN, NEW ack \in {"positive", "negative", "none"},
           Respond(ok, ack)
    PROVE  LineTypes'
  <1>1. toProgrammer # <<>> /\ toProgrammer' = Tail(toProgrammer)  BY DEF Respond
  <1>2. /\ toProgrammer \in Seq(Good) /\ toClient \in Seq(Answer)
        /\ \A i \in DOMAIN toClient : toClient[i].request \in Good \ Driving
    BY LineType
  <1>3. PICK r : r = Head(toProgrammer)  OBVIOUS
  <1>4. r \in Good /\ toProgrammer' \in Seq(Good)
    BY <1>1, <1>2, <1>3, HeadTailProperties
  <1>5. /\ toProgrammer' \in Seq(Request)
        /\ \A i \in DOMAIN toProgrammer' : toProgrammer'[i] \in Good
    BY <1>4, ElementOfSeq, SeqMonotonic DEF Good
  <1>6. CASE r.chain = "drive"
    <2>1. toClient' = toClient  BY <1>3, <1>6 DEF Respond
    <2> QED  BY <1>2, <1>5, <2>1 DEF LineTypes
  <1>7. CASE r.chain # "drive"
    <2>1. PICK a : a = [request |-> r, ok |-> ok, ack |-> ack]  OBVIOUS
    <2>2. r \notin Driving /\ r \in Request  BY <1>4, <1>7, RequestKinds DEF Good
    <2>3. a \in Answer /\ a.request = r  BY <2>1, <2>2 DEF Answer
    <2>4. toClient' = Append(toClient, a)  BY <1>3, <1>7, <2>1 DEF Respond
    <2>5. toClient' \in Seq(Answer)  BY <1>2, <2>3, <2>4, AppendProperties
    <2>6. ASSUME NEW i \in DOMAIN toClient' PROVE toClient'[i].request \in Good
      <3>1. /\ i \in 1 .. Len(toClient) + 1
            /\ toClient'[Len(toClient) + 1] = a
            /\ \A k \in 1 .. Len(toClient) : toClient'[k] = toClient[k]
        BY <1>2, <2>3, <2>4, <2>5, AppendProperties, LenProperties
      <3>2. i \in 1 .. Len(toClient) \/ i = Len(toClient) + 1  BY <3>1, LineType
      <3>3. DOMAIN toClient = 1 .. Len(toClient)  BY LineType
      <3> QED  BY <1>2, <1>4, <2>3, <3>1, <3>2, <3>3
    <2> QED  BY <1>5, <2>5, <2>6 DEF LineTypes
  <1> QED  BY <1>6, <1>7

\* The session ends.
LEMMA TypeClosed ==
    ASSUME TypeInv, Close
    PROVE  SimpleTypes' /\ LineTypes'
  <1>1. SimpleTypes /\ LineTypes  BY TypeParts
  <1>2. /\ open' = FALSE /\ connectTimer' = FALSE /\ disrupted' \in BOOLEAN
        /\ UNCHANGED <<identified, state, mode, decoder, started, at, results, told, gaveUp,
                       overlapped>>
    BY <1>1 DEF Close, station, callers, SimpleTypes
  <1>3. toProgrammer' = <<>> /\ toClient' = <<>> /\ DOMAIN toProgrammer' = {}
        /\ DOMAIN toClient' = {}
    BY DEF Close
  <1>4. SimpleTypes'  BY <1>1, <1>2 DEF SimpleTypes
  <1>5. LineTypes'
    <2>1. toProgrammer' \in Seq(Request) /\ toClient' \in Seq(Answer)  BY <1>3
    <2> QED  BY <1>3, <2>1 DEF LineTypes
  <1> QED  BY <1>4, <1>5

LEMMA TypeKept ==
    ASSUME TypeInv, LineInv, [Next]_vars
    PROVE  TypeInv'
  <1>1. SimpleTypes /\ LineTypes /\ happened \in [Events -> Nat]  BY TypeParts
  <1>2. CASE Connect
    <2>1. happened' \in [Events -> Nat]
      BY <1>1, <1>2, TypeHappened DEF Connect, Events
    <2>2. CASE open  BY <1>2, <2>1, <2>2, TypeClosed, TypePartsNext DEF Connect
    <2>3. CASE ~open
      <3>1. PICK o : o = [chain |-> "info", index |-> 1, task |-> Nobody]  OBVIOUS
      <3>2. /\ open' = TRUE /\ connectTimer' = TRUE
            /\ UNCHANGED <<identified, toClient, station, started, overlapped>>
            /\ toProgrammer' = Append(toProgrammer, o)
            /\ UNCHANGED <<state, at, results, told, gaveUp, disrupted>>
        BY <1>2, <2>3, <3>1, Begins DEF Connect
      <3>3. LineTypes'  BY <1>1, <3>1, <3>2, FirstRequests, TypeBegins
      <3>4. SimpleTypes'  BY <1>1, <3>2 DEF SimpleTypes, station
      <3> QED  BY <2>1, <3>3, <3>4, TypePartsNext
    <2> QED  BY <2>2, <2>3
  <1>3. CASE Disconnect
    <2>1. happened' \in [Events -> Nat]
      BY <1>1, <1>3, TypeHappened DEF Disconnect, Events
    <2> QED  BY <1>3, <2>1, TypeClosed, TypePartsNext DEF Disconnect
  <1>4. CASE ConnectTimeout
    BY <1>1, <1>4, TypeClosed, TypePartsNext DEF ConnectTimeout, Timeout
  <1>5. ASSUME NEW t \in Tasks, Start(t) PROVE TypeInv'
    <2>1. /\ UNCHANGED <<session, toClient, station, happened>>
          /\ started' = started \union {t}
      BY <1>5 DEF Start
    <2>2. CASE open
      <3>1. PICK o : o = [chain |-> "service", index |-> 1, task |-> t]  OBVIOUS
      <3>2. /\ toProgrammer' = Append(toProgrammer, o)
            /\ UNCHANGED <<state, at, results, told, gaveUp, disrupted>>
            /\ overlapped' \in BOOLEAN
        BY <1>1, <1>5, <2>2, <3>1, Begins DEF Start, ReadVariable, SimpleTypes
      <3>3. LineTypes'  BY <1>1, <2>1, <3>1, <3>2, FirstRequests, TypeBegins
      <3>4. SimpleTypes'  BY <1>1, <2>1, <3>2 DEF SimpleTypes, station, session
      <3> QED  BY <1>1, <2>1, <3>3, <3>4, TypePartsNext
    <2>3. CASE ~open
      <3>1. /\ disrupted' = TRUE
            /\ UNCHANGED <<state, toProgrammer, at, results, told, gaveUp, overlapped>>
        BY <1>5, <2>3 DEF Start
      <3>2. SimpleTypes'  BY <1>1, <2>1, <3>1 DEF SimpleTypes, station, session
      <3>3. LineTypes'  BY <1>1, <2>1, <3>1 DEF LineTypes
      <3> QED  BY <1>1, <2>1, <3>2, <3>3, TypePartsNext
    <2> QED  BY <2>2, <2>3
  <1>6. ASSUME NEW chain \in {"enable", "disable"}, Call(chain) PROVE TypeInv'
    <2>1. happened' \in [Events -> Nat]
      BY <1>1, <1>6, TypeHappened DEF Call, Events
    <2>2. PICK o : o = [chain |-> chain, index |-> 1, task |-> Nobody]  OBVIOUS
    <2>3. /\ toProgrammer' = Append(toProgrammer, o)
          /\ UNCHANGED <<state, at, results, told, gaveUp, disrupted>>
          /\ overlapped' \in BOOLEAN /\ UNCHANGED <<session, toClient, station, started>>
      BY <1>1, <1>6, <2>2, Begins DEF Call, SimpleTypes
    <2>4. LineTypes'  BY <1>1, <2>2, <2>3, FirstRequests, TypeBegins
    <2>5. SimpleTypes'  BY <1>1, <2>3 DEF SimpleTypes, station, session
    <2> QED  BY <2>1, <2>4, <2>5, TypePartsNext
  <1>7. CASE Drive
    <2>1. PICK o : o = [chain |-> "drive"]  OBVIOUS
    <2>2. /\ toProgrammer' = Append(toProgrammer, o)
          /\ UNCHANGED <<session, state, toClient, station, callers, overlapped, disrupted,
                         happened>>
      BY <1>7, <2>1 DEF Drive
    <2>3. LineTypes'  BY <1>1, <2>1, <2>2, DrivingIsGood, TypeBegins
    <2>4. SimpleTypes'  BY <1>1, <2>2 DEF SimpleTypes, station, session, callers
    <2> QED  BY <1>1, <2>2, <2>3, <2>4, TypePartsNext
  <1>8. CASE ParseMessage
    <2>1. PICK a : a = Head(toClient)  OBVIOUS
    <2>2. toClient # <<>>  BY <1>8 DEF ParseMessage
    <2>3. CASE Close /\ UNCHANGED happened  BY <1>1, <2>3, TypeClosed, TypePartsNext
    <2>4. CASE Parsed /\ ResponseKinds(a.request, a.ok, a.ack)
      BY <2>1, <2>2, <2>4, TypeLines
    <2> QED  BY <1>8, <2>1, <2>3, <2>4, ParseKinds
  <1>9. ASSUME NEW ok \in BOOLEAN, NEW ack \in {"positive", "negative", "none"},
               Respond(ok, ack), mode' \in {Mode[c] : c \in DOMAIN Mode},
               UNCHANGED happened \/ \E kind \in Events : Event(kind)
        PROVE  TypeInv'
    <2>1. LineTypes'  BY <1>9, TypeResponds
    <2>2. UNCHANGED <<session, state, decoder, callers, overlapped, disrupted>>
      BY <1>9 DEF Respond
    <2>3. SimpleTypes'  BY <1>1, <1>9, <2>2 DEF SimpleTypes, session, callers
    <2>4. happened' \in [Events -> Nat]  BY <1>1, <1>9, TypeHappened
    <2> QED  BY <2>1, <2>3, <2>4, TypePartsNext
  <1>10. CASE Execute
    <2>1. PICK r : r = Head(toProgrammer)  OBVIOUS
    <2>2. PICK ack : ack = Acknowledge(r)  OBVIOUS
    <2>3. ack \in {"positive", "negative", "none"}  BY <2>2 DEF Acknowledge
    <2>4. Respond(TRUE, ack) /\ mode' = ModeAfter(r) /\ UNCHANGED happened
      BY <1>10, <2>1, <2>2 DEF Execute
    <2>5. r \in Good  BY <2>1, <2>4, LineResponded
    <2>6. mode' \in {Mode[c] : c \in DOMAIN Mode}
      <3>1. mode \in {Mode[c] : c \in DOMAIN Mode}  BY <1>1 DEF SimpleTypes
      <3>2. CASE r.chain \notin DOMAIN Steps
        <4>1. mode' = mode  BY <2>4, <3>2 DEF ModeAfter
        <4> QED  BY <3>1, <4>1
      <3>3. CASE r.chain \in DOMAIN Steps
        <4>1. CASE Steps[r.chain][r.index] = "reset"
          <5>1. mode' = Mode["disable"]  BY <2>4, <3>3, <4>1, TypeState DEF ModeAfter
          <5> QED  BY <5>1, TypeState
        <4>2. CASE Steps[r.chain][r.index] = "power"
          <5>1. mode' = Mode[r.chain]  BY <2>4, <3>3, <4>2 DEF ModeAfter
          <5>2. r.chain # "info"
            <6> SUFFICES ASSUME r.chain = "info" PROVE FALSE  OBVIOUS
            <6>1. r.index \in {1, 2}  BY <2>5, RequestKinds
            <6> QED  BY <4>2, <6>1 DEF Steps
          <5>3. r.chain \in {"service", "enable", "disable"}  BY <3>3, <5>2 DEF Steps
          <5> QED  BY <5>1, <5>3, TypeState
        <4>3. CASE Steps[r.chain][r.index] \notin {"reset", "power"}
          <5>1. mode' = mode  BY <2>4, <3>3, <4>3 DEF ModeAfter
          <5> QED  BY <3>1, <5>1
        <4> QED  BY <4>1, <4>2, <4>3
      <3> QED  BY <3>2, <3>3
    <2> QED  BY <1>9, <2>3, <2>4, <2>6
  <1>11. CASE Refuse
    <2>1. /\ Respond(FALSE, "none") /\ Event("error") /\ "error" \in Events
          /\ mode' \in {Mode[c] : c \in DOMAIN Mode}
      BY <1>1, <1>11 DEF Refuse, SimpleTypes, Events
    <2> QED  BY <1>9, <2>1
  <1>12. CASE Misread
    <2>1. /\ \E ack \in {"positive", "negative", "none"} : Respond(TRUE, ack)
          /\ Event("misread") /\ "misread" \in Events
          /\ mode' \in {Mode[c] : c \in DOMAIN Mode}
      BY <1>1, <1>12 DEF Misread, SimpleTypes, Events
    <2> QED  BY <1>9, <2>1
  <1>13. CASE UNCHANGED vars
    <2>1. SimpleTypes' /\ LineTypes'
      BY <1>1, <1>13 DEF vars, session, station, callers, SimpleTypes, LineTypes
    <2> QED  BY <1>1, <1>13, <2>1, TypePartsNext DEF vars
  <1> QED  BY <1>2, <1>3, <1>4, <1>5, <1>6, <1>7, <1>8, <1>10, <1>11, <1>12, <1>13 DEF Next

\* Every variable has its type.
THEOREM TypeCorrect == Spec => []TypeOK
  <1>1. Init => TypeInv /\ LineInv  BY TypeInit, LineInit
  <1>2. TypeInv /\ LineInv /\ [Next]_vars => (TypeInv /\ LineInv)'  BY TypeKept, LineKept
  <1>3. TypeInv => TypeOK  BY DEF TypeInv
  <1> QED  BY <1>1, <1>2, <1>3, PTL DEF Spec

-----------------------------------------------------------------------------
(* What is under way after a step.                                           *)

\* Responses on the line are requests under way.
LEMMA ResponseUnderWay ==
    ASSUME TypeInv, NEW i \in DOMAIN toClient
    PROVE  /\ i \in UnderWay /\ Under(i) = toClient[i].request /\ i \in 1 .. Len(toClient)
           /\ toClient[i] \in Answer /\ Under(i) \in Good /\ Under(i).chain # "drive"
  <1>1. /\ Len(toClient) \in Nat /\ Len(toProgrammer) \in Nat /\ toClient \in Seq(Answer)
        /\ i \in 1 .. Len(toClient)
    BY LineType
  <1>2. PICK c, p : c = Len(toClient) /\ p = Len(toProgrammer)  OBVIOUS
  <1>3. i \in 1 .. c + p /\ i <= c  BY <1>1, <1>2
  <1>4. i \in UnderWay /\ i <= Len(toClient)  BY <1>2, <1>3 DEF UnderWay
  <1> QED  BY <1>1, <1>4, LineType, ElementOfSeq DEF Under

\* Two chains are under way only when one follows the other.
LEMMA Exclusive ==
    ASSUME TypeInv, LineInv, ~overlapped, NEW i \in UnderWay, NEW j \in UnderWay, i # j,
           Under(i).chain # "drive", Under(j).chain # "drive"
    PROVE  \/ /\ i < j /\ Under(i).chain = "disable"
              /\ Under(j).chain = "service" /\ Under(j).index = 1
           \/ /\ j < i /\ Under(j).chain = "disable"
              /\ Under(i).chain = "service" /\ Under(i).index = 1
  <1>1. i < j \/ j < i  BY LineType DEF UnderWay
  <1> QED  BY <1>1 DEF LineInv, Alone

LEMMA AfterRequest ==
    ASSUME TypeInv, NEW o \in Good, toProgrammer' = Append(toProgrammer, o), UNCHANGED toClient
    PROVE  \A i \in UnderWay' : Under(i)' = o \/ \E j \in UnderWay : Under(i)' = Under(j)
  <1>1. PICK n : n = Len(toClient) + Len(toProgrammer)  OBVIOUS
  <1>2. /\ n \in Nat /\ UnderWay = 1 .. n /\ UnderWay' = 1 .. n + 1
        /\ \A i \in UnderWay : Under(i)' = Under(i)
        /\ Under(n + 1)' = o
    BY <1>1, LineAppended
  <1>3. \A i \in 1 .. n + 1 : i \in 1 .. n \/ i = n + 1  BY <1>2
  <1> QED  BY <1>2, <1>3

\* What follows the response to a request.
FollowsBy(r, ok, ack, o) ==
    \/ /\ r.chain \in {"info", "service", "enable"} /\ (r.chain # "info" /\ r.index = 2 => ok)
       /\ o.chain = r.chain /\ o.index = r.index + 1 /\ o.task = r.task
    \/ r.chain = "service" /\ r.index = 4 /\ o = StartReading(r.task)
    \/ /\ r.chain = "read" /\ o.chain = "read" /\ o.task = r.task /\ at' = at
       /\ \/ o.bit = r.bit /\ o.value = r.value
          \/ r.step = "bit" /\ ok /\ o.bit = r.bit + 1 /\ o.value = BitRead(r, ack)
    \/ r.chain = "read" /\ o \in {Off1, Service1(r.task)}

LEMMA ResponseFollows ==
    ASSUME NEW r \in Good, r.chain # "drive", NEW ok, NEW ack, ResponseKinds(r, ok, ack)
    PROVE  \E sent \in Seq(Good) : /\ toProgrammer' = toProgrammer \o sent
                                   /\ \A k \in 1 .. Len(sent) : FollowsBy(r, ok, ack, sent[k])
  <1>1. ASSUME NEW o \in Good, toProgrammer' = toProgrammer \o <<o>>, FollowsBy(r, ok, ack, o)
        PROVE  \E sent \in Seq(Good) :
                   /\ toProgrammer' = toProgrammer \o sent
                   /\ \A k \in 1 .. Len(sent) : FollowsBy(r, ok, ack, sent[k])
    <2>1. PICK sent : sent = <<o>>  OBVIOUS
    <2>2. sent \in Seq(Good) /\ Len(sent) = 1 /\ sent[1] = o  BY <2>1, SentOne
    <2>3. \A k \in 1 .. 1 : k = 1  OBVIOUS
    <2> QED  BY <1>1, <2>1, <2>2, <2>3
  <1>2. CASE toProgrammer' = toProgrammer \o <<>>
    <2>1. PICK sent : sent = <<>>  OBVIOUS
    <2>2. sent \in Seq(Good) /\ 1 .. Len(sent) = {}  BY <2>1, SentNothing
    <2> QED  BY <1>2, <2>1, <2>2
  <1>3. CASE NextSent(r, ok)
    <2>1. PICK o \in Good : /\ toProgrammer' = toProgrammer \o <<o>>
                            /\ o.chain = r.chain /\ o.index = r.index + 1 /\ o.task = r.task
      BY <1>3 DEF NextSent
    <2>2. FollowsBy(r, ok, ack, o)  BY <1>3, <2>1 DEF NextSent, FollowsBy
    <2> QED  BY <1>1, <2>1, <2>2
  <1>4. CASE ReadBegins(r)
    <2>1. r.task \in Tasks /\ r.chain = "service"  BY <1>4, RequestKinds DEF ReadBegins
    <2>2. PICK o : o = StartReading(r.task)  OBVIOUS
    <2>3. o \in Good
      <3>1. Bits \in Nat \ {0} /\ RetryLimit \in Nat  BY Lp2Assumption
      <3>2. 0 \in 0 .. Bits /\ 0 \in 0 .. RetryLimit /\ 0 # Bits /\ {} \in Value
        BY <3>1 DEF Value
      <3> QED  BY <2>1, <2>2, <3>2, ReadingIsGood DEF StartReading
    <2>4. FollowsBy(r, ok, ack, o) /\ toProgrammer' = toProgrammer \o <<o>>
      BY <1>4, <2>2 DEF ReadBegins, FollowsBy
    <2> QED  BY <1>1, <2>3, <2>4
  <1>5. CASE ReadGoesOn(r, ok, ack)
    <2>1. PICK o \in Good : /\ toProgrammer' = toProgrammer \o <<o>>
                            /\ o.chain = "read" /\ o.task = r.task
                            /\ \/ o.bit = r.bit /\ o.value = r.value
                               \/ /\ r.step = "bit" /\ ok /\ o.bit = r.bit + 1
                                  /\ o.value = BitRead(r, ack)
      BY <1>5 DEF ReadGoesOn
    <2>2. FollowsBy(r, ok, ack, o)  BY <1>5, <2>1 DEF ReadGoesOn, FollowsBy
    <2> QED  BY <1>1, <2>1, <2>2
  <1>6. CASE ValueRead(r, ok, ack)
    <2>1. r.chain = "read" /\ r.task \in Tasks  BY <1>6, RequestKinds DEF ValueRead
    <2>2. Off1 \in Good /\ Service1(r.task) \in Good
      BY <2>1, FirstRequests DEF Off1, Service1
    <2>3. FollowsBy(r, ok, ack, Off1) /\ FollowsBy(r, ok, ack, Service1(r.task))
      BY <2>1 DEF FollowsBy
    <2>4. CASE toProgrammer' = toProgrammer \o <<Off1>>  BY <1>1, <2>2, <2>3, <2>4
    <2>5. CASE toProgrammer' = toProgrammer \o <<Off1, Service1(r.task)>>
      <3>1. PICK sent : sent = <<Off1, Service1(r.task)>>  OBVIOUS
      <3>2. /\ sent \in Seq(Good) /\ Len(sent) = 2
            /\ sent[1] = Off1 /\ sent[2] = Service1(r.task)
        BY <2>2, <3>1, SentTwo
      <3>3. \A k \in 1 .. 2 : k = 1 \/ k = 2  OBVIOUS
      <3>4. \A k \in 1 .. Len(sent) : FollowsBy(r, ok, ack, sent[k])
        BY <2>3, <3>2, <3>3
      <3> QED  BY <2>5, <3>1, <3>2, <3>4
    <2> QED  BY <1>6, <2>4, <2>5 DEF ValueRead
  <1>7. CASE ChainThrough(r, ok) \/ ChainFailed(r) \/ ReadGivenUp(r)
    <2>1. toProgrammer' = toProgrammer \o <<>>
      BY <1>7 DEF ChainThrough, ChainFailed, ReadGivenUp
    <2> QED  BY <1>2, <2>1
  <1> QED  BY <1>3, <1>4, <1>5, <1>6, <1>7 DEF ResponseKinds

LEMMA AfterResponse ==
    ASSUME TypeInv, toClient # <<>>, NEW a, a = Head(toClient), NEW r, r = a.request,
           Parsed, ResponseKinds(r, a.ok, a.ack)
    PROVE  /\ 1 \in DOMAIN toClient /\ a = toClient[1] /\ a \in Answer
           /\ 1 \in UnderWay /\ Under(1) = r /\ r \in Good /\ r.chain # "drive"
           /\ \A i \in UnderWay' :
                  \/ \E j \in UnderWay : j # 1 /\ Under(i)' = Under(j)
                  \/ \E o : FollowsBy(r, a.ok, a.ack, o) /\ Under(i)' = o
           /\ \A i \in DOMAIN toClient' :
                  i + 1 \in DOMAIN toClient /\ i + 1 # 1 /\ toClient'[i] = toClient[i + 1]
  <1>1. PICK n : n = Len(toClient) + Len(toProgrammer)  OBVIOUS
  <1>2. toClient \in Seq(Answer) /\ Len(toClient) \in Nat \ {0} /\ toClient' = Tail(toClient)
    BY LineType, EmptySeq, LenProperties DEF Parsed
  <1>3. 1 \in DOMAIN toClient /\ a = toClient[1]
    BY <1>2, HeadTailProperties, LenProperties
  <1>4. /\ 1 \in UnderWay /\ Under(1) = r /\ r \in Good /\ r.chain # "drive" /\ a \in Answer
    BY <1>3, ResponseUnderWay
  <1>5. PICK sent \in Seq(Good) :
            /\ toProgrammer' = toProgrammer \o sent
            /\ \A k \in 1 .. Len(sent) : FollowsBy(r, a.ok, a.ack, sent[k])
    BY <1>4, ResponseFollows
  <1>6. PICK m : m = Len(sent)  OBVIOUS
  <1>7. /\ n \in Nat \ {0} /\ m \in Nat /\ UnderWay = 1 .. n /\ UnderWay' = 1 .. n - 1 + m
        /\ \A i \in 1 .. n - 1 : Under(i)' = Under(i + 1)
        /\ SentAfter(n, sent)
    BY <1>1, <1>2, <1>5, <1>6, LineParsed
  <1>8. ASSUME NEW i \in UnderWay'
        PROVE  \/ \E j \in UnderWay : j # 1 /\ Under(i)' = Under(j)
               \/ \E o : FollowsBy(r, a.ok, a.ack, o) /\ Under(i)' = o
    <2>1. i \in 1 .. n - 1 + m  BY <1>7
    <2>2. CASE i <= n - 1
      <3>1. i \in 1 .. n - 1 /\ i + 1 \in 1 .. n /\ i + 1 # 1  BY <1>7, <2>1, <2>2
      <3> QED  BY <1>7, <3>1
    <2>3. CASE ~(i <= n - 1)
      <3>1. i - (n - 1) \in 1 .. m /\ i = n - 1 + (i - (n - 1))  BY <1>7, <2>1, <2>3
      <3>2. Under(i)' = sent[i - (n - 1)]  BY <1>6, <1>7, <3>1 DEF SentAfter
      <3> QED  BY <1>5, <1>6, <3>1, <3>2
    <2> QED  BY <2>2, <2>3
  <1>9. ASSUME NEW i \in DOMAIN toClient'
        PROVE  i + 1 \in DOMAIN toClient /\ i + 1 # 1 /\ toClient'[i] = toClient[i + 1]
    <2>1. /\ toClient' \in Seq(Answer) /\ Len(toClient') = Len(toClient) - 1
          /\ \A k \in 1 .. Len(toClient) - 1 : toClient'[k] = toClient[k + 1]
      BY <1>2, HeadTailProperties
    <2>2. i \in 1 .. Len(toClient) - 1  BY <2>1, LenProperties
    <2>3. i + 1 \in 1 .. Len(toClient) /\ i + 1 # 1  BY <1>2, <2>2
    <2> QED  BY <2>1, <2>2, <2>3, LineType
  <1> QED  BY <1>3, <1>4, <1>8, <1>9

LEMMA AfterService ==
    ASSUME TypeInv, NEW ok \in BOOLEAN, NEW ack, Respond(ok, ack),
           NEW r, r = Head(toProgrammer), NEW c, c = Len(toClient) + 1
    PROVE  /\ r \in Good /\ c \in UnderWay /\ Under(c) = r /\ c \notin DOMAIN toClient
           /\ \A i \in DOMAIN toClient : i < c
           /\ \A i \in UnderWay' : \E j \in UnderWay : Under(i)' = Under(j)
           /\ \A i \in DOMAIN toClient' :
                  \/ i \in DOMAIN toClient /\ toClient'[i] = toClient[i]
                  \/ /\ toClient'[i] = [request |-> r, ok |-> ok, ack |-> ack]
                     /\ r.chain # "drive"
  <1>1. PICK n : n = Len(toClient) + Len(toProgrammer)  OBVIOUS
  <1>2. /\ n \in Nat \ {0} /\ UnderWay = 1 .. n /\ r \in Good
        /\ c \in UnderWay /\ Under(c) = r
        /\ r.chain # "drive" =>
             /\ UnderWay' = 1 .. n
             /\ \A i \in 1 .. n : Under(i)' = Under(i)
        /\ r.chain = "drive" =>
             /\ UnderWay' = 1 .. n - 1
             /\ \A i \in 1 .. n - 1 :
                    Under(i)' = IF i <= Len(toClient) THEN Under(i) ELSE Under(i + 1)
    BY <1>1, LineResponded
  <1>3. /\ c \notin DOMAIN toClient /\ \A i \in DOMAIN toClient : i < c
        /\ DOMAIN toClient = 1 .. Len(toClient) /\ Len(toClient) \in Nat
        /\ toClient \in Seq(Answer)
    BY LineType
  <1>4. ASSUME NEW i \in UnderWay' PROVE \E j \in UnderWay : Under(i)' = Under(j)
    <2>1. CASE r.chain # "drive"  BY <1>2, <2>1
    <2>2. CASE r.chain = "drive"
      <3>1. i \in 1 .. n - 1 /\ i \in UnderWay /\ i + 1 \in UnderWay  BY <1>2, <2>2
      <3> QED  BY <1>2, <2>2, <3>1
    <2> QED  BY <2>1, <2>2
  <1>5. ASSUME NEW i \in DOMAIN toClient'
        PROVE  \/ i \in DOMAIN toClient /\ toClient'[i] = toClient[i]
               \/ /\ toClient'[i] = [request |-> r, ok |-> ok, ack |-> ack]
                  /\ r.chain # "drive"
    <2>1. CASE r.chain # "drive"
      <3>1. PICK a : a = [request |-> r, ok |-> ok, ack |-> ack]  OBVIOUS
      <3>2. toClient' = Append(toClient, a)  BY <2>1, <3>1 DEF Respond
      <3>3. toClient \in Seq(Answer \union {a}) /\ a \in Answer \union {a}
        BY <1>3, SeqMonotonic
      <3>4. /\ i \in 1 .. Len(toClient) + 1
            /\ toClient'[Len(toClient) + 1] = a
            /\ \A k \in 1 .. Len(toClient) : toClient'[k] = toClient[k]
        BY <3>2, <3>3, AppendProperties, LenProperties
      <3>5. i \in 1 .. Len(toClient) \/ i = Len(toClient) + 1  BY <1>3, <3>4
      <3> QED  BY <1>3, <2>1, <3>1, <3>4, <3>5
    <2>2. CASE r.chain = "drive"  BY <2>2 DEF Respond
    <2> QED  BY <2>1, <2>2
  <1> QED  BY <1>2, <1>3, <1>4, <1>5

-----------------------------------------------------------------------------
(* The mode of the programmer.                                               *)

\* Requests that are made when the power was switched, and those that switch it.
PastPower(r) == r.chain = "read" \/ (r.chain \in {"service", "enable"} /\ r.index > 2)
IsPower(r)   == r.chain = "disable" \/ (r.chain \in {"service", "enable"} /\ r.index = 2)

\* The mode they want.
ModeOf(r) == IF r.chain = "read" THEN "service" ELSE Mode[r.chain]

ModeInv ==
    ~overlapped =>
        /\ \A i \in UnderWay : PastPower(Under(i)) => mode = ModeOf(Under(i))
        /\ \A i \in DOMAIN toClient :
               toClient[i].ok /\ IsPower(toClient[i].request) => mode = ModeOf(toClient[i].request)

LEMMA ModeInit == Init => ModeInv
  <1> SUFFICES ASSUME Init PROVE ModeInv  OBVIOUS
  <1>1. toClient = <<>> /\ toProgrammer = <<>>  BY DEF Init
  <1>2. UnderWay = {} /\ DOMAIN toClient = {}
    <2>1. Len(toClient) = 0 /\ Len(toProgrammer) = 0 /\ DOMAIN toClient = {}  BY <1>1
    <2>2. 1 .. 0 + 0 = {}  OBVIOUS
    <2> QED  BY <2>1, <2>2 DEF UnderWay
  <1> QED  BY <1>2 DEF ModeInv

LEMMA ModeClosed ==
    ASSUME LineInv, Close
    PROVE  ModeInv'
  <1>1. UnderWay' = {} /\ DOMAIN toClient' = {}
    <2>1. UnderWay' = {}  BY LineClosed
    <2>2. toClient' = <<>>  BY DEF Close
    <2> QED  BY <2>1, <2>2
  <1> QED  BY <1>1 DEF ModeInv

\* A request of a caller does not need any mode.
LEMMA ModeExtended ==
    ASSUME TypeInv, ModeInv, NEW o \in Good, toProgrammer' = Append(toProgrammer, o),
           UNCHANGED <<toClient, mode>>, overlapped => overlapped', ~PastPower(o)
    PROVE  ModeInv'
  <1> SUFFICES ASSUME ~overlapped' PROVE ModeInv'  BY DEF ModeInv
  <1>1. ASSUME NEW i \in UnderWay', PastPower(Under(i)') PROVE mode' = ModeOf(Under(i)')
    <2>1. PICK s : s = Under(i)'  OBVIOUS
    <2>2. \E j \in UnderWay : s = Under(j)  BY <1>1, <2>1, AfterRequest
    <2>3. mode = ModeOf(s)  BY <1>1, <2>1, <2>2 DEF ModeInv
    <2> QED  BY <2>1, <2>3
  <1> QED  BY <1>1 DEF ModeInv, PastPower, IsPower, ModeOf

\* Chains go on in the mode they got.
LEMMA ModeAnswered ==
    ASSUME TypeInv, ModeInv, toClient # <<>>, NEW a, a = Head(toClient),
           Parsed, ResponseKinds(a.request, a.ok, a.ack)
    PROVE  ModeInv'
  <1> SUFFICES ASSUME ~overlapped' PROVE ModeInv'  BY DEF ModeInv
  <1>0. ~overlapped /\ mode' = mode  BY DEF Parsed, station
  <1>1. PICK r, ok, ack : r = a.request /\ ok = a.ok /\ ack = a.ack  OBVIOUS
  <1>2. /\ 1 \in DOMAIN toClient /\ a = toClient[1] /\ a \in Answer
        /\ 1 \in UnderWay /\ Under(1) = r /\ r \in Good /\ r.chain # "drive"
        /\ \A i \in UnderWay' :
               \/ \E j \in UnderWay : j # 1 /\ Under(i)' = Under(j)
               \/ \E o : FollowsBy(r, ok, ack, o) /\ Under(i)' = o
        /\ \A i \in DOMAIN toClient' :
               i + 1 \in DOMAIN toClient /\ i + 1 # 1 /\ toClient'[i] = toClient[i + 1]
    BY <1>1, AfterResponse
  <1>3. ASSUME NEW o, FollowsBy(r, ok, ack, o), PastPower(o) PROVE mode = ModeOf(o)
    <2>1. /\ PastPower(r) => mode = ModeOf(r)
          /\ ok /\ IsPower(r) => mode = ModeOf(r)
      BY <1>0, <1>1, <1>2 DEF ModeInv
    <2>2. CASE /\ r.chain \in {"info", "service", "enable"}
               /\ (r.chain # "info" /\ r.index = 2 => ok)
               /\ o.chain = r.chain /\ o.index = r.index + 1
      <3>1. r.chain \in {"service", "enable"} /\ o.index > 2  BY <1>3, <2>2 DEF PastPower
      <3>2. r.index \in {1, 2, 3, 4}  BY <1>2, <3>1, RequestKinds
      <3>3. r.index = 2 \/ r.index > 2  BY <2>2, <3>1, <3>2
      <3>4. (ok /\ IsPower(r)) \/ PastPower(r)  BY <2>2, <3>1, <3>3 DEF IsPower, PastPower
      <3> QED  BY <2>1, <2>2, <3>1, <3>4 DEF ModeOf
    <2>3. CASE r.chain = "service" /\ r.index = 4 /\ o = StartReading(r.task)
      <3>1. o.chain = "read"  BY <2>3 DEF StartReading
      <3>2. PastPower(r)  BY <2>3 DEF PastPower
      <3> QED  BY <2>1, <2>3, <3>1, <3>2, TypeState DEF ModeOf
    <2>4. CASE r.chain = "read" /\ o.chain = "read"  BY <2>1, <2>4 DEF PastPower, ModeOf
    <2>5. CASE r.chain = "read" /\ o \in {Off1, Service1(r.task)}
      BY <1>3, <2>5 DEF Off1, Service1, PastPower
    <2> QED  BY <1>3, <2>2, <2>3, <2>4, <2>5 DEF FollowsBy
  <1>4. ASSUME NEW i \in UnderWay', PastPower(Under(i)') PROVE mode' = ModeOf(Under(i)')
    <2>1. PICK s : s = Under(i)'  OBVIOUS
    <2>2. (\E j \in UnderWay : s = Under(j)) \/ FollowsBy(r, ok, ack, s)  BY <1>2, <2>1
    <2>3. mode = ModeOf(s)  BY <1>0, <1>3, <1>4, <2>1, <2>2 DEF ModeInv
    <2> QED  BY <1>0, <2>1, <2>3
  <1>5. ASSUME NEW i \in DOMAIN toClient', toClient'[i].ok, IsPower(toClient'[i].request)
        PROVE  mode' = ModeOf(toClient'[i].request)
    <2>1. PICK b : b = toClient'[i]  OBVIOUS
    <2>2. \E j \in DOMAIN toClient : b = toClient[j]  BY <1>2, <2>1
    <2> QED  BY <1>0, <1>5, <2>1, <2>2 DEF ModeInv
  <1> QED  BY <1>4, <1>5 DEF ModeInv, PastPower, IsPower, ModeOf

\* Responses of requests that are not executed leave the mode as it was.
LEMMA ModeServed ==
    ASSUME TypeInv, LineInv, ModeInv, NEW ok \in BOOLEAN, NEW ack, Respond(ok, ack),
           NEW r, r = Head(toProgrammer),
           \/ mode' = mode /\ (~ok \/ r.chain = "read")
           \/ mode' = ModeAfter(r)
    PROVE  ModeInv'
  <1> SUFFICES ASSUME ~overlapped' PROVE ModeInv'  BY DEF ModeInv
  <1>0. ~overlapped  BY DEF Respond
  <1>1. PICK c : c = Len(toClient) + 1  OBVIOUS
  <1>2. /\ r \in Good /\ c \in UnderWay /\ Under(c) = r /\ c \notin DOMAIN toClient
        /\ \A i \in DOMAIN toClient : i < c
        /\ \A i \in UnderWay' : \E j \in UnderWay : Under(i)' = Under(j)
        /\ \A i \in DOMAIN toClient' :
               \/ i \in DOMAIN toClient /\ toClient'[i] = toClient[i]
               \/ /\ toClient'[i] = [request |-> r, ok |-> ok, ack |-> ack]
                  /\ r.chain # "drive"
    BY <1>1, AfterService
  <1>3. DOMAIN Steps = {"info", "service", "enable", "disable"}  BY DEF Steps
  \* A request that changes the mode is not past the power.
  <1>4. CASE mode' = mode /\ ~IsPower(r)
    <2>1. ASSUME NEW i \in UnderWay', PastPower(Under(i)') PROVE mode' = ModeOf(Under(i)')
      <3>1. PICK s : s = Under(i)'  OBVIOUS
      <3>2. \E j \in UnderWay : s = Under(j)  BY <1>2, <3>1
      <3> QED  BY <1>0, <1>4, <2>1, <3>1, <3>2 DEF ModeInv
    <2>2. ASSUME NEW i \in DOMAIN toClient', toClient'[i].ok, IsPower(toClient'[i].request)
          PROVE  mode' = ModeOf(toClient'[i].request)
      <3>1. PICK b : b = toClient'[i]  OBVIOUS
      <3>2. b.request # r  BY <1>4, <2>2, <3>1
      <3>3. \E j \in DOMAIN toClient : b = toClient[j]  BY <1>2, <3>1, <3>2
      <3> QED  BY <1>0, <1>4, <2>2, <3>1, <3>3 DEF ModeInv
    <2> QED  BY <2>1, <2>2 DEF ModeInv, PastPower, IsPower, ModeOf
  <1>5. CASE mode' = mode /\ ~ok
    <2>1. ASSUME NEW i \in UnderWay', PastPower(Under(i)') PROVE mode' = ModeOf(Under(i)')
      <3>1. PICK s : s = Under(i)'  OBVIOUS
      <3>2. \E j \in UnderWay : s = Under(j)  BY <1>2, <3>1
      <3> QED  BY <1>0, <1>5, <2>1, <3>1, <3>2 DEF ModeInv
    <2>2. ASSUME NEW i \in DOMAIN toClient', toClient'[i].ok, IsPower(toClient'[i].request)
          PROVE  mode' = ModeOf(toClient'[i].request)
      <3>1. PICK b : b = toClient'[i]  OBVIOUS
      <3>2. \E j \in DOMAIN toClient : b = toClient[j]  BY <1>2, <1>5, <2>2, <3>1
      <3> QED  BY <1>0, <1>5, <2>2, <3>1, <3>2 DEF ModeInv
    <2> QED  BY <2>1, <2>2 DEF ModeInv, PastPower, IsPower, ModeOf
  \* Who resets the programmer or switches its power is alone with it.
  <1>6. ASSUME ~PastPower(r), r.chain # "drive",
               IsPower(r) => mode' = ModeOf(r),
               r.index = 1 => mode' = "off"
        PROVE  ModeInv'
    <2>1. ASSUME NEW j \in UnderWay PROVE ~PastPower(Under(j))
      <3>1. CASE j = c  BY <1>2, <1>6, <3>1
      <3>2. CASE j # c /\ Under(j).chain = "drive"  BY <3>2 DEF PastPower
      <3>3. CASE j # c /\ Under(j).chain # "drive"
        <4>1. Under(j).chain = "disable" \/ (Under(j).chain = "service" /\ Under(j).index = 1)
          BY <1>0, <1>2, <1>6, <3>3, Exclusive
        <4> QED  BY <4>1 DEF PastPower
      <3> QED  BY <3>1, <3>2, <3>3
    <2>2. ASSUME NEW j \in DOMAIN toClient, toClient[j].ok
          PROVE  mode' = ModeOf(toClient[j].request)
      <3>1. /\ j \in UnderWay /\ Under(j) = toClient[j].request /\ Under(j).chain # "drive"
            /\ j # c /\ ~(c < j)
        <4>1. j < c /\ c \in Nat /\ j \in Nat  BY <1>2, LineType DEF UnderWay
        <4> QED  BY <4>1, ResponseUnderWay
      <3>2. Under(j).chain = "disable" /\ r.chain = "service" /\ r.index = 1
        BY <1>0, <1>2, <1>6, <3>1, Exclusive
      <3> QED  BY <1>6, <3>1, <3>2, TypeState DEF ModeOf
    <2>3. ASSUME NEW i \in UnderWay' PROVE ~PastPower(Under(i)')
      <3>1. PICK s : s = Under(i)'  OBVIOUS
      <3>2. \E j \in UnderWay : s = Under(j)  BY <1>2, <3>1
      <3> QED  BY <2>1, <3>1, <3>2
    <2>4. ASSUME NEW i \in DOMAIN toClient', toClient'[i].ok, IsPower(toClient'[i].request)
          PROVE  mode' = ModeOf(toClient'[i].request)
      <3>1. PICK b : b = toClient'[i]  OBVIOUS
      <3>2. CASE \E j \in DOMAIN toClient : b = toClient[j]  BY <2>2, <2>4, <3>1, <3>2
      <3>3. CASE b = [request |-> r, ok |-> ok, ack |-> ack]  BY <1>6, <2>4, <3>1, <3>3
      <3> QED  BY <1>2, <3>1, <3>2, <3>3
    <2> QED  BY <2>3, <2>4 DEF ModeInv, PastPower, IsPower, ModeOf
  <1>7. CASE mode' = ModeAfter(r)
    <2>1. CASE r.chain \notin DOMAIN Steps
      BY <1>3, <1>4, <1>7, <2>1 DEF ModeAfter, IsPower
    <2>2. CASE r.chain \in DOMAIN Steps /\ Steps[r.chain][r.index] = "reset"
      <3>1. mode' = "off"  BY <1>7, <2>2 DEF ModeAfter
      <3>2. r.index = 1 /\ r.chain \in {"info", "service", "enable"}
        BY <1>2, <1>3, <2>2, RequestKinds DEF Steps
      <3> QED  BY <1>6, <3>1, <3>2 DEF PastPower, IsPower
    <2>3. CASE r.chain \in DOMAIN Steps /\ Steps[r.chain][r.index] = "power"
      <3>1. mode' = Mode[r.chain]  BY <1>7, <2>3 DEF ModeAfter
      <3>2. \/ r.chain = "disable" /\ r.index = 1
            \/ r.chain \in {"service", "enable"} /\ r.index = 2
        BY <1>2, <1>3, <2>3, RequestKinds DEF Steps
      <3> QED  BY <1>6, <3>1, <3>2, TypeState DEF PastPower, IsPower, ModeOf
    <2>4. CASE r.chain \in DOMAIN Steps /\ Steps[r.chain][r.index] \notin {"reset", "power"}
      <3>1. mode' = mode  BY <1>7, <2>4 DEF ModeAfter
      <3>2. ~IsPower(r)
        <4>1. Steps["service"][2] = "power" /\ Steps["enable"][2] = "power"
              /\ Steps["disable"][1] = "power"
          BY DEF Steps
        <4>2. r.chain = "disable" => r.index = 1  BY <1>2, RequestKinds
        <4> QED  BY <2>4, <4>1, <4>2 DEF IsPower
      <3> QED  BY <1>4, <3>1, <3>2
    <2> QED  BY <2>1, <2>2, <2>3, <2>4
  <1>8. CASE mode' = mode /\ r.chain = "read"  BY <1>4, <1>8 DEF IsPower
  <1> QED  BY <1>5, <1>7, <1>8

LEMMA ModeKept ==
    ASSUME TypeInv, LineInv, ModeInv, [Next]_vars
    PROVE  ModeInv'
  <1>0. ASSUME UNCHANGED <<toClient, toProgrammer, mode>>, overlapped => overlapped'
        PROVE  ModeInv'
    <2>1. UnderWay' = UnderWay /\ \A i \in UnderWay : Under(i)' = Under(i)
      BY <1>0 DEF UnderWay, Under
    <2> QED  BY <1>0, <2>1 DEF ModeInv, PastPower, IsPower, ModeOf
  <1>1. overlapped \in BOOLEAN  BY DEF TypeInv, TypeOK
  <1>2. CASE Connect
    <2>1. CASE open  BY <1>2, <2>1, ModeClosed DEF Connect
    <2>2. CASE ~open
      <3>1. PICK o : o = [chain |-> "info", index |-> 1, task |-> Nobody]  OBVIOUS
      <3>2. /\ UNCHANGED <<toClient, mode, overlapped>>
            /\ toProgrammer' = Append(toProgrammer, o)
        BY <1>2, <2>2, <3>1, Begins DEF Connect, station
      <3>3. o \in Good /\ ~PastPower(o)  BY <3>1, FirstRequests DEF PastPower
      <3> QED  BY <3>2, <3>3, ModeExtended
    <2> QED  BY <2>1, <2>2
  <1>3. CASE Disconnect  BY <1>3, ModeClosed DEF Disconnect
  <1>4. CASE ConnectTimeout  BY <1>4, ModeClosed DEF ConnectTimeout, Timeout
  <1>5. ASSUME NEW t \in Tasks, Start(t) PROVE ModeInv'
    <2>1. CASE open
      <3>1. PICK o : o = [chain |-> "service", index |-> 1, task |-> t]  OBVIOUS
      <3>2. /\ UNCHANGED <<toClient, mode>> /\ overlapped' = (overlapped \/ Chains # {})
            /\ toProgrammer' = Append(toProgrammer, o)
        BY <1>5, <2>1, <3>1, Begins DEF Start, ReadVariable, station
      <3>3. o \in Good /\ ~PastPower(o)  BY <3>1, FirstRequests DEF PastPower
      <3> QED  BY <3>2, <3>3, ModeExtended
    <2>2. CASE ~open  BY <1>0, <1>5, <2>2 DEF Start, station
    <2> QED  BY <2>1, <2>2
  <1>6. ASSUME NEW chain \in {"enable", "disable"}, Call(chain) PROVE ModeInv'
    <2>1. PICK o : o = [chain |-> chain, index |-> 1, task |-> Nobody]  OBVIOUS
    <2>2. /\ UNCHANGED <<toClient, mode>> /\ overlapped' = (overlapped \/ Chains # {})
          /\ toProgrammer' = Append(toProgrammer, o)
      BY <1>6, <2>1, Begins DEF Call, station
    <2>3. o \in Good /\ ~PastPower(o)  BY <2>1, FirstRequests DEF PastPower
    <2> QED  BY <2>2, <2>3, ModeExtended
  <1>7. CASE Drive
    <2>1. PICK o : o = [chain |-> "drive"]  OBVIOUS
    <2>2. /\ UNCHANGED <<toClient, mode, overlapped>>
          /\ toProgrammer' = Append(toProgrammer, o)
      BY <1>7, <2>1 DEF Drive, station
    <2>3. o \in Good /\ ~PastPower(o)  BY <2>1, DrivingIsGood DEF PastPower
    <2> QED  BY <2>2, <2>3, ModeExtended
  <1>8. CASE ParseMessage
    <2>1. PICK a : a = Head(toClient)  OBVIOUS
    <2>2. toClient # <<>>  BY <1>8 DEF ParseMessage
    <2> QED  BY <1>8, <2>1, <2>2, ParseKinds, ModeClosed, ModeAnswered
  <1>9. CASE Execute  BY <1>9, ModeServed DEF Execute
  <1>10. CASE Refuse  BY <1>10, ModeServed DEF Refuse
  <1>11. CASE Misread  BY <1>11, ModeServed DEF Misread
  <1>12. CASE UNCHANGED vars
    BY <1>0, <1>12 DEF vars, session, station
  <1> QED  BY <1>2, <1>3, <1>4, <1>5, <1>6, <1>7, <1>8, <1>9, <1>10, <1>11, <1>12 DEF Next

\* Packets for programming leave the programmer in service mode only, as long as nobody
\* begins a chain while another one is under way: reads are sent when the power was
\* switched, and who switches it is alone.
THEOREM ProgrammingIsInServiceMode == Spec => []ProgramsInServiceMode
  <1>1. Init => TypeInv /\ LineInv /\ ModeInv  BY TypeInit, LineInit, ModeInit
  <1>2. TypeInv /\ LineInv /\ ModeInv /\ [Next]_vars => (TypeInv /\ LineInv /\ ModeInv)'
    BY TypeKept, LineKept, ModeKept
  <1>3. TypeInv /\ LineInv /\ ModeInv => ProgramsInServiceMode
    <2> SUFFICES ASSUME TypeInv, ModeInv, toProgrammer # <<>>,
                        Head(toProgrammer).chain = "read", ~overlapped
                 PROVE  mode = "service"
      BY DEF ProgramsInServiceMode
    <2>1. PICK c, p : c = Len(toClient) /\ p = Len(toProgrammer)  OBVIOUS
    <2>2. /\ c \in Nat /\ p \in Nat \ {0} /\ toProgrammer \in Seq(Good)
      BY <2>1, LineType, EmptySeq, LenProperties
    <2>3. c + 1 \in 1 .. c + p /\ ~(c + 1 <= c) /\ (c + 1) - c = 1  BY <2>2
    <2>4. Head(toProgrammer) = toProgrammer[1]  BY <2>2, HeadTailProperties
    <2>5. c + 1 \in UnderWay /\ Under(c + 1) = Head(toProgrammer)
      BY <2>1, <2>3, <2>4 DEF UnderWay, Under
    <2> QED  BY <2>5 DEF ModeInv, PastPower, ModeOf
  <1> QED  BY <1>1, <1>2, <1>3, PTL DEF Spec

-----------------------------------------------------------------------------
(* The state of the power control.                                           *)

Settled == \E c \in DOMAIN State : state = State[c] /\ mode = Mode[c]

StateInv ==
    ~overlapped /\ ~disrupted =>
        /\ (\A i \in UnderWay : Under(i).chain = "drive") => Settled
        /\ \A i \in UnderWay : Under(i).chain = "read" => state = "ServiceMode"
        /\ \A i \in UnderWay : Under(i).chain = "info" => state = "PowerOff" /\ mode = "off"
        /\ ~open => state = "PowerOff" /\ mode = "off"

LEMMA OffIsSettled ==
    /\ state = "PowerOff" /\ mode = "off" => Settled
    /\ state = "ServiceMode" /\ mode = "service" => Settled
    /\ state = "PowerOn" /\ mode = "driving" => Settled
  <1>1. {"service", "enable", "disable"} \subseteq DOMAIN State  BY DEF State
  <1> QED  BY <1>1, TypeState DEF Settled

LEMMA StateInit == Init => StateInv
  <1> SUFFICES ASSUME Init PROVE StateInv  OBVIOUS
  <1>1. toClient = <<>> /\ toProgrammer = <<>> /\ state = "PowerOff" /\ mode = "off"
    BY DEF Init
  <1>2. UnderWay = {}
    <2>1. Len(toClient) = 0 /\ Len(toProgrammer) = 0  BY <1>1
    <2>2. 1 .. 0 + 0 = {}  OBVIOUS
    <2> QED  BY <2>1, <2>2 DEF UnderWay
  <1> QED  BY <1>1, <1>2, OffIsSettled DEF StateInv

\* A session that ends is a disruption.
LEMMA StateClosed ==
    ASSUME TypeInv, LineInv, StateInv, Close
    PROVE  StateInv'
  <1> SUFFICES ASSUME ~overlapped', ~disrupted' PROVE StateInv'  BY DEF StateInv
  <1>1. /\ ~overlapped /\ ~disrupted /\ ~open /\ UNCHANGED <<state, mode>>
    BY DEF Close, station, callers, TypeInv, TypeOK
  <1>2. state' = "PowerOff" /\ mode' = "off"  BY <1>1 DEF StateInv
  <1>3. UnderWay' = {}  BY LineClosed
  <1>4. Settled'
    <2>1. "disable" \in DOMAIN State  BY DEF State
    <2> QED  BY <1>2, <2>1, TypeState DEF Settled
  <1> QED  BY <1>2, <1>3, <1>4 DEF StateInv

\* What is appended is under way then, and nothing is lost.
LEMMA RequestStays ==
    ASSUME TypeInv, NEW o \in Good, toProgrammer' = Append(toProgrammer, o), UNCHANGED toClient
    PROVE  \A j \in UnderWay : j \in UnderWay' /\ Under(j)' = Under(j)
  <1>1. PICK n : n = Len(toClient) + Len(toProgrammer)  OBVIOUS
  <1>2. /\ n \in Nat /\ UnderWay = 1 .. n /\ UnderWay' = 1 .. n + 1
        /\ \A i \in UnderWay : Under(i)' = Under(i)
    BY <1>1, LineAppended
  <1>3. \A j \in 1 .. n : j \in 1 .. n + 1  BY <1>2
  <1> QED  BY <1>2, <1>3

LEMMA StateExtended ==
    ASSUME TypeInv, StateInv, NEW o \in Good, toProgrammer' = Append(toProgrammer, o),
           UNCHANGED <<toClient, state, mode>>, open', overlapped => overlapped',
           disrupted => disrupted', o.chain # "read",
           o.chain = "info" => ~open,
           overlapped' \/ ~open \/ o.chain = "drive" \/ Chains = {}
    PROVE  StateInv'
  <1> SUFFICES ASSUME ~overlapped', ~disrupted' PROVE StateInv'  BY DEF StateInv
  <1>1. ~overlapped /\ ~disrupted  OBVIOUS
  <1>2. \A i \in UnderWay' : Under(i)' = o \/ \E j \in UnderWay : Under(i)' = Under(j)
    BY AfterRequest
  <1>3. ASSUME \A i \in UnderWay' : Under(i)'.chain = "drive" PROVE Settled'
    <2>1. \A j \in UnderWay : j \in UnderWay' /\ Under(j)' = Under(j)  BY RequestStays
    <2>2. \A j \in UnderWay : Under(j).chain = "drive"  BY <1>3, <2>1
    <2>3. Settled  BY <1>1, <2>2 DEF StateInv
    <2> QED  BY <2>3 DEF Settled
  <1>4. ASSUME NEW i \in UnderWay', Under(i)'.chain = "read" PROVE state' = "ServiceMode"
    <2>1. PICK s : s = Under(i)'  OBVIOUS
    <2>2. \E j \in UnderWay : s = Under(j)  BY <1>2, <1>4, <2>1
    <2> QED  BY <1>1, <1>4, <2>1, <2>2 DEF StateInv
  <1>5. ASSUME NEW i \in UnderWay', Under(i)'.chain = "info"
        PROVE  state' = "PowerOff" /\ mode' = "off"
    <2>1. PICK s : s = Under(i)'  OBVIOUS
    <2>2. s = o \/ \E j \in UnderWay : s = Under(j)  BY <1>2, <2>1
    <2> QED  BY <1>1, <1>5, <2>1, <2>2 DEF StateInv
  <1> QED  BY <1>3, <1>4, <1>5 DEF StateInv

\* What a response sends is under way.
LEMMA SentIsUnderWay ==
    ASSUME TypeInv, toClient # <<>>, toClient' = Tail(toClient), NEW sent \in Seq(Good),
           toProgrammer' = toProgrammer \o sent, NEW o, o = sent[1], 1 \in 1 .. Len(sent)
    PROVE  \E i \in UnderWay' : Under(i)' = o
  <1>1. PICK n, m : n = Len(toClient) + Len(toProgrammer) /\ m = Len(sent)  OBVIOUS
  <1>2. /\ n \in Nat \ {0} /\ m \in Nat /\ UnderWay' = 1 .. n - 1 + m
        /\ SentAfter(n, sent)
    BY <1>1, LineParsed
  <1>3. 1 \in 1 .. m  BY <1>1
  <1>4. n \in 1 .. n - 1 + m /\ n = n - 1 + 1  BY <1>2, <1>3
  <1>5. Under(n)' = o  BY <1>1, <1>2, <1>3, <1>4 DEF SentAfter
  <1> QED  BY <1>2, <1>4, <1>5

LEMMA ResponseGoesOn ==
    ASSUME TypeInv, toClient # <<>>, toClient' = Tail(toClient), NEW r \in Good, NEW ok, NEW ack,
           r.chain # "drive",
           NextSent(r, ok) \/ ReadBegins(r) \/ ReadGoesOn(r, ok, ack) \/ ValueRead(r, ok, ack)
    PROVE  \E i \in UnderWay' : Under(i)'.chain # "drive"
  <1>1. ASSUME NEW o \in Good, toProgrammer' = toProgrammer \o <<o>>, o.chain # "drive"
        PROVE  \E i \in UnderWay' : Under(i)'.chain # "drive"
    <2>1. PICK sent : sent = <<o>>  OBVIOUS
    <2>2. sent \in Seq(Good) /\ 1 \in 1 .. Len(sent) /\ o = sent[1]  BY <2>1, SentOne
    <2>3. \E i \in UnderWay' : Under(i)' = o  BY <1>1, <2>1, <2>2, SentIsUnderWay
    <2> QED  BY <1>1, <2>3
  <1>2. CASE NextSent(r, ok)
    <2>1. PICK o \in Good : toProgrammer' = toProgrammer \o <<o>> /\ o.chain = r.chain
      BY <1>2 DEF NextSent
    <2> QED  BY <1>1, <2>1
  <1>3. CASE ReadBegins(r)
    <2>1. PICK o : o = StartReading(r.task)  OBVIOUS
    <2>2. o.chain = "read" /\ o \in Good
      <3>1. Bits \in Nat \ {0} /\ RetryLimit \in Nat  BY Lp2Assumption
      <3>2. 0 \in 0 .. Bits /\ 0 \in 0 .. RetryLimit /\ 0 # Bits /\ {} \in Value
        BY <3>1 DEF Value
      <3>3. r.task \in Tasks  BY <1>3, RequestKinds DEF ReadBegins
      <3> QED  BY <2>1, <3>2, <3>3, ReadingIsGood DEF StartReading
    <2> QED  BY <1>1, <1>3, <2>1, <2>2 DEF ReadBegins
  <1>4. CASE ReadGoesOn(r, ok, ack)
    <2>1. PICK o \in Good : toProgrammer' = toProgrammer \o <<o>> /\ o.chain = "read"
      BY <1>4 DEF ReadGoesOn
    <2> QED  BY <1>1, <2>1
  <1>5. CASE ValueRead(r, ok, ack)
    <2>1. r.task \in Tasks  BY <1>5, RequestKinds DEF ValueRead
    <2>2. Off1 \in Good /\ Service1(r.task) \in Good /\ Off1.chain # "drive"
      BY <2>1, FirstRequests DEF Off1, Service1
    <2>3. CASE toProgrammer' = toProgrammer \o <<Off1>>  BY <1>1, <2>2, <2>3
    <2>4. CASE toProgrammer' = toProgrammer \o <<Off1, Service1(r.task)>>
      <3>1. PICK sent : sent = <<Off1, Service1(r.task)>>  OBVIOUS
      <3>2. sent \in Seq(Good) /\ 1 \in 1 .. Len(sent) /\ sent[1] = Off1
        BY <2>2, <3>1, SentTwo
      <3>3. PICK o : o = Off1  OBVIOUS
      <3>4. \E i \in UnderWay' : Under(i)' = o  BY <2>4, <3>1, <3>2, <3>3, SentIsUnderWay
      <3> QED  BY <2>2, <3>3, <3>4
    <2> QED  BY <1>5, <2>3, <2>4 DEF ValueRead
  <1> QED  BY <1>2, <1>3, <1>4, <1>5

\* A chain that is through leaves its state and its mode.
LEMMA StateAnswered ==
    ASSUME TypeInv, LineInv, ModeInv, StateInv, toClient # <<>>, NEW a, a = Head(toClient),
           Parsed, ResponseKinds(a.request, a.ok, a.ack)
    PROVE  StateInv'
  <1> SUFFICES ASSUME ~overlapped', ~disrupted' PROVE StateInv'  BY DEF StateInv
  <1>1. PICK r, ok, ack : r = a.request /\ ok = a.ok /\ ack = a.ack  OBVIOUS
  <1>2. /\ 1 \in DOMAIN toClient /\ a = toClient[1]
        /\ 1 \in UnderWay /\ Under(1) = r /\ r \in Good /\ r.chain # "drive"
        /\ \A i \in UnderWay' :
               \/ \E j \in UnderWay : j # 1 /\ Under(i)' = Under(j)
               \/ \E o : FollowsBy(r, ok, ack, o) /\ Under(i)' = o
    BY <1>1, AfterResponse
  <1>3. ResponseKinds(r, ok, ack)  BY <1>1
  <1>4. ~overlapped /\ mode' = mode /\ open' = open /\ toClient' = Tail(toClient)
    BY DEF Parsed, station
  <1>5. ~disrupted /\ ~ChainFailed(r)
    <2>1. ~ChainFailed(r)  BY DEF ChainFailed
    <2>2. CASE NextSent(r, ok) \/ ChainThrough(r, ok) \/ ReadBegins(r)
      <3>1. disrupted' = disrupted  BY <2>2 DEF NextSent, ChainThrough, ReadBegins
      <3> QED  BY <2>1, <3>1
    <2>3. CASE ReadGoesOn(r, ok, ack) \/ ValueRead(r, ok, ack) \/ ReadGivenUp(r)
      <3>1. disrupted' = disrupted  BY <2>3 DEF ReadGoesOn, ValueRead, ReadGivenUp
      <3> QED  BY <2>1, <3>1
    <2> QED  BY <1>3, <2>1, <2>2, <2>3 DEF ResponseKinds
  <1>6. open  BY DEF LineInv
  <1>7. ASSUME NEW j \in UnderWay, j # 1
        PROVE  Under(j).chain \notin {"read", "info"}
    <2> SUFFICES ASSUME Under(j).chain \in {"read", "info"} PROVE FALSE  OBVIOUS
    <2>1. Under(j).chain \in {"disable", "service"}  BY <1>2, <1>4, <1>7, Exclusive
    <2> QED  BY <2>1
  <1>8. /\ r.chain = "read" => state = "ServiceMode" /\ mode = "service"
        /\ r.chain = "info" => state = "PowerOff" /\ mode = "off"
        /\ PastPower(r) => mode = ModeOf(r)
        /\ ok /\ IsPower(r) => mode = ModeOf(r)
    BY <1>1, <1>2, <1>4, <1>5 DEF StateInv, ModeInv, PastPower, ModeOf
  <1>9. ASSUME NEW i \in UnderWay', Under(i)'.chain = "read" PROVE state' = "ServiceMode"
    <2>1. PICK s : s = Under(i)'  OBVIOUS
    <2>2. FollowsBy(r, ok, ack, s) /\ s.chain = "read"  BY <1>2, <1>7, <1>9, <2>1
    <2>3. r.chain = "read" \/ (r.chain = "service" /\ r.index = 4)
      BY <2>2 DEF FollowsBy
    <2>4. CASE r.chain = "read"
      <3>1. state' = state
        BY <1>3, <2>4 DEF ResponseKinds, NextSent, ChainThrough, ChainFailed, ReadBegins,
                          ReadGoesOn, ValueRead, ReadGivenUp
      <3> QED  BY <1>8, <2>4, <3>1
    <2>5. CASE r.chain = "service" /\ r.index = 4
      <3>1. ~NextSent(r, ok)
        <4>1. Len(Steps["service"]) = 4 /\ ~(4 < 4)  BY DEF Steps
        <4> QED  BY <2>5, <4>1 DEF NextSent
      <3>2. ReadBegins(r)
        BY <1>3, <1>5, <2>5, <3>1 DEF ResponseKinds, ChainThrough, ReadGoesOn, ValueRead,
                                      ReadGivenUp
      <3> QED  BY <3>2 DEF ReadBegins
    <2> QED  BY <2>3, <2>4, <2>5
  <1>10. ASSUME NEW i \in UnderWay', Under(i)'.chain = "info"
         PROVE  state' = "PowerOff" /\ mode' = "off"
    <2>1. PICK s : s = Under(i)'  OBVIOUS
    <2>2. FollowsBy(r, ok, ack, s) /\ s.chain = "info"  BY <1>2, <1>7, <1>10, <2>1
    <2>3. r.chain = "info"  BY <2>2 DEF FollowsBy, StartReading, Off1, Service1
    <2>4. state' = state
      BY <1>3, <2>3 DEF ResponseKinds, NextSent, ChainThrough, ChainFailed, ReadBegins,
                        ReadGoesOn, ValueRead, ReadGivenUp
    <2> QED  BY <1>4, <1>8, <2>3, <2>4
  <1>11. ASSUME \A i \in UnderWay' : Under(i)'.chain = "drive" PROVE Settled'
    <2>1. ChainThrough(r, ok) \/ ReadGivenUp(r)
      BY <1>2, <1>3, <1>4, <1>5, <1>11, ResponseGoesOn DEF ResponseKinds
    <2>2. CASE ReadGivenUp(r)
      <3>1. state = "ServiceMode" /\ mode = "service" /\ state' = state
        BY <1>8, <2>2 DEF ReadGivenUp
      <3> QED  BY <1>4, <3>1, OffIsSettled DEF Settled
    <2>3. CASE ChainThrough(r, ok) /\ r.chain = "info"
      <3>1. state = "PowerOff" /\ mode = "off" /\ state' = state
        BY <1>8, <2>3 DEF ChainThrough
      <3> QED  BY <1>4, <3>1, OffIsSettled DEF Settled
    <2>4. CASE ChainThrough(r, ok) /\ r.chain \in {"enable", "disable"}
      <3>1. PastPower(r) \/ (ok /\ IsPower(r))
        <4>1. Len(Steps["enable"]) = 3 /\ 3 > 2  BY DEF Steps
        <4> QED  BY <2>4, <4>1 DEF ChainThrough, PastPower, IsPower
      <3>2. mode' = Mode[r.chain]  BY <1>4, <1>8, <2>4, <3>1 DEF ModeOf
      <3>3. state' = State[r.chain]  BY <2>4 DEF ChainThrough
      <3>4. r.chain \in DOMAIN State  BY <2>4 DEF State
      <3> QED  BY <3>2, <3>3, <3>4 DEF Settled
    <2> QED  BY <2>1, <2>2, <2>3, <2>4 DEF ChainThrough
  <1> QED  BY <1>4, <1>6, <1>9, <1>10, <1>11 DEF StateInv

\* Chains stay under way when the programmer responds.
LEMMA ChainsStay ==
    ASSUME TypeInv, NEW ok \in BOOLEAN, NEW ack, Respond(ok, ack),
           NEW j \in UnderWay, Under(j).chain # "drive"
    PROVE  \E i \in UnderWay' : Under(i)' = Under(j)
  <1>1. PICK n : n = Len(toClient) + Len(toProgrammer)  OBVIOUS
  <1>2. PICK r : r = Head(toProgrammer)  OBVIOUS
  <1>3. PICK c : c = Len(toClient)  OBVIOUS
  <1>4. /\ n \in Nat \ {0} /\ UnderWay = 1 .. n /\ r \in Good
        /\ c + 1 \in UnderWay /\ Under(c + 1) = r
        /\ r.chain # "drive" =>
             /\ UnderWay' = 1 .. n
             /\ \A i \in 1 .. n : Under(i)' = Under(i)
        /\ r.chain = "drive" =>
             /\ UnderWay' = 1 .. n - 1
             /\ \A i \in 1 .. n - 1 : Under(i)' = IF i <= c THEN Under(i) ELSE Under(i + 1)
    BY <1>1, <1>2, <1>3, LineResponded
  <1>5. CASE r.chain # "drive"  BY <1>4, <1>5
  <1>6. CASE r.chain = "drive"
    <2>1. j # c + 1 /\ c \in Nat /\ j \in 1 .. n /\ c + 1 \in 1 .. n
      BY <1>3, <1>4, <1>6, LineType
    <2>2. CASE j <= c
      <3>1. j \in 1 .. n - 1  BY <1>4, <2>1, <2>2
      <3> QED  BY <1>4, <1>6, <2>2, <3>1
    <2>3. CASE ~(j <= c)
      <3>1. j - 1 \in 1 .. n - 1 /\ ~(j - 1 <= c) /\ (j - 1) + 1 = j  BY <1>4, <2>1, <2>3
      <3>2. PICK i : i = j - 1  OBVIOUS
      <3>3. Under(i)' = Under(j)  BY <1>4, <1>6, <3>1, <3>2
      <3> QED  BY <1>4, <1>6, <3>1, <3>2, <3>3
    <2> QED  BY <2>2, <2>3
  <1> QED  BY <1>5, <1>6

LEMMA StateServed ==
    ASSUME TypeInv, LineInv, StateInv, NEW ok \in BOOLEAN, NEW ack, Respond(ok, ack),
           NEW r, r = Head(toProgrammer), mode' = mode \/ mode' = ModeAfter(r)
    PROVE  StateInv'
  <1> SUFFICES ASSUME ~overlapped', ~disrupted' PROVE StateInv'  BY DEF StateInv
  <1>0. ~overlapped /\ ~disrupted /\ state' = state /\ open' = open /\ toProgrammer # <<>>
    BY DEF Respond, session
  <1>1. PICK c : c = Len(toClient) + 1  OBVIOUS
  <1>2. /\ r \in Good /\ c \in UnderWay /\ Under(c) = r
        /\ \A i \in UnderWay' : \E j \in UnderWay : Under(i)' = Under(j)
    BY <1>1, AfterService
  <1>3. open  BY <1>0 DEF LineInv
  <1>4. r.chain \in {"drive", "read"} => mode' = mode
    BY DEF ModeAfter, Steps
  <1>5. ASSUME \A i \in UnderWay' : Under(i)'.chain = "drive" PROVE Settled'
    <2>1. \A j \in UnderWay : Under(j).chain = "drive"
      <3> SUFFICES ASSUME NEW j \in UnderWay, Under(j).chain # "drive" PROVE FALSE  OBVIOUS
      <3>1. PICK i \in UnderWay' : Under(i)' = Under(j)  BY ChainsStay
      <3> QED  BY <1>5, <3>1
    <2>2. Settled /\ mode' = mode  BY <1>0, <1>2, <1>4, <2>1 DEF StateInv
    <2> QED  BY <1>0, <2>2 DEF Settled
  <1>6. ASSUME NEW i \in UnderWay', Under(i)'.chain = "read" PROVE state' = "ServiceMode"
    <2>1. PICK s : s = Under(i)'  OBVIOUS
    <2>2. \E j \in UnderWay : s = Under(j)  BY <1>2, <2>1
    <2> QED  BY <1>0, <1>6, <2>1, <2>2 DEF StateInv
  <1>7. ASSUME NEW i \in UnderWay', Under(i)'.chain = "info"
        PROVE  state' = "PowerOff" /\ mode' = "off"
    <2>1. PICK s : s = Under(i)'  OBVIOUS
    <2>2. PICK j \in UnderWay : s = Under(j)  BY <1>2, <2>1
    <2>3. state = "PowerOff" /\ mode = "off"  BY <1>0, <1>7, <2>1, <2>2 DEF StateInv
    <2>4. CASE r.chain = "drive"  BY <1>0, <1>4, <2>3, <2>4
    <2>5. CASE r.chain # "drive"
      <3>1. r.chain = "info"
        <4>1. CASE j = c  BY <1>2, <1>7, <2>1, <2>2, <4>1
        <4>2. CASE j # c
          <5>1. Under(j).chain \in {"disable", "service"}
            BY <1>0, <1>2, <1>7, <2>1, <2>2, <2>5, <4>2, Exclusive
          <5> QED  BY <1>7, <2>1, <2>2, <5>1
        <4> QED  BY <4>1, <4>2
      <3>2. r.index \in {1, 2}  BY <1>2, <3>1, RequestKinds
      <3>3. mode' \in {mode, "off"}
        <4>1. Steps["info"][1] = "reset" /\ Steps["info"][2] = "query" /\ "info" \in DOMAIN Steps
          BY DEF Steps
        <4> QED  BY <3>1, <3>2, <4>1 DEF ModeAfter
      <3> QED  BY <1>0, <2>3, <3>3
    <2> QED  BY <2>4, <2>5
  <1> QED  BY <1>0, <1>3, <1>5, <1>6, <1>7 DEF StateInv

LEMMA StateKept ==
    ASSUME TypeInv, LineInv, ModeInv, StateInv, [Next]_vars
    PROVE  StateInv'
  <1>0. ASSUME UNCHANGED <<toClient, toProgrammer, mode, state, open>>,
               overlapped => overlapped', disrupted => disrupted'
        PROVE  StateInv'
    <2>1. UnderWay' = UnderWay /\ \A i \in UnderWay : Under(i)' = Under(i)
      BY <1>0 DEF UnderWay, Under
    <2> QED  BY <1>0, <2>1 DEF StateInv, Settled
  <1>1. {overlapped, disrupted} \subseteq BOOLEAN  BY DEF TypeInv, TypeOK
  <1>2. CASE Connect
    <2>1. CASE open  BY <1>2, <2>1, StateClosed DEF Connect
    <2>2. CASE ~open
      <3>1. PICK o : o = [chain |-> "info", index |-> 1, task |-> Nobody]  OBVIOUS
      <3>2. /\ UNCHANGED <<toClient, state, mode, overlapped, disrupted>> /\ open'
            /\ toProgrammer' = Append(toProgrammer, o)
        BY <1>2, <2>2, <3>1, Begins DEF Connect, station
      <3>3. o \in Good /\ o.chain = "info"  BY <3>1, FirstRequests
      <3> QED  BY <2>2, <3>2, <3>3, StateExtended
    <2> QED  BY <2>1, <2>2
  <1>3. CASE Disconnect  BY <1>3, StateClosed DEF Disconnect
  <1>4. CASE ConnectTimeout  BY <1>4, StateClosed DEF ConnectTimeout, Timeout
  <1>5. ASSUME NEW t \in Tasks, Start(t) PROVE StateInv'
    <2>1. CASE open
      <3>1. PICK o : o = [chain |-> "service", index |-> 1, task |-> t]  OBVIOUS
      <3>2. /\ UNCHANGED <<toClient, state, mode, open, disrupted>>
            /\ overlapped' = (overlapped \/ Chains # {})
            /\ toProgrammer' = Append(toProgrammer, o)
        BY <1>5, <2>1, <3>1, Begins DEF Start, ReadVariable, station, session
      <3>3. o \in Good /\ o.chain = "service"  BY <3>1, FirstRequests
      <3> QED  BY <2>1, <3>2, <3>3, StateExtended
    <2>2. CASE ~open  BY <1>0, <1>5, <2>2 DEF Start, station, session
    <2> QED  BY <2>1, <2>2
  <1>6. ASSUME NEW chain \in {"enable", "disable"}, Call(chain) PROVE StateInv'
    <2>1. PICK o : o = [chain |-> chain, index |-> 1, task |-> Nobody]  OBVIOUS
    <2>2. /\ UNCHANGED <<toClient, state, mode, open, disrupted>> /\ open
          /\ overlapped' = (overlapped \/ Chains # {})
          /\ toProgrammer' = Append(toProgrammer, o)
      BY <1>6, <2>1, Begins DEF Call, station, session
    <2>3. o \in Good /\ o.chain \in {"enable", "disable"}  BY <2>1, FirstRequests
    <2> QED  BY <2>2, <2>3, StateExtended
  <1>7. CASE Drive
    <2>1. PICK o : o = [chain |-> "drive"]  OBVIOUS
    <2>2. /\ UNCHANGED <<toClient, state, mode, open, overlapped, disrupted>> /\ open
          /\ toProgrammer' = Append(toProgrammer, o)
      BY <1>7, <2>1 DEF Drive, station, session
    <2>3. o \in Good /\ o.chain = "drive"  BY <2>1, DrivingIsGood
    <2> QED  BY <2>2, <2>3, StateExtended
  <1>8. CASE ParseMessage
    <2>1. PICK a : a = Head(toClient)  OBVIOUS
    <2>2. toClient # <<>>  BY <1>8 DEF ParseMessage
    <2> QED  BY <1>8, <2>1, <2>2, ParseKinds, StateClosed, StateAnswered
  <1>9. CASE Execute  BY <1>9, StateServed DEF Execute
  <1>10. CASE Refuse  BY <1>10, StateServed DEF Refuse
  <1>11. CASE Misread  BY <1>11, StateServed DEF Misread
  <1>12. CASE UNCHANGED vars
    BY <1>0, <1>12 DEF vars, session, station
  <1> QED  BY <1>2, <1>3, <1>4, <1>5, <1>6, <1>7, <1>8, <1>9, <1>10, <1>11, <1>12 DEF Next

\* The state of the power control is what the programmer does once all chains are through,
\* as long as they do not overlap, and no switching failed: who is through leaves his own
\* state and his own mode.
THEOREM StateFollowsMode == Spec => []StateFollows
  <1>1. Init => TypeInv /\ LineInv /\ ModeInv /\ StateInv
    BY TypeInit, LineInit, ModeInit, StateInit
  <1>2. TypeInv /\ LineInv /\ ModeInv /\ StateInv /\ [Next]_vars
            => (TypeInv /\ LineInv /\ ModeInv /\ StateInv)'
    BY TypeKept, LineKept, ModeKept, StateKept
  <1>3. TypeInv /\ LineInv /\ ModeInv /\ StateInv => StateFollows
    BY NoChains DEF StateInv, StateFollows, Settled
  <1> QED  BY <1>1, <1>2, <1>3, PTL DEF Spec

-----------------------------------------------------------------------------
(* The values that are read.                                                 *)

\* What the decoder has stored for the variable a read is at.
Stored(r) == decoder[Variables[r.task][at[r.task] + 1]]

Verifies(a) == a.request.chain = "read" /\ a.request.step = "byte" /\ Verified(a.ok, a.ack)

\* No pulse was misread, or one of a caller who is alone.
Trusted == happened["misread"] = 0 \/ (happened["misread"] = 1 /\ ~overlapped)
Clean   == happened["misread"] = 0 /\ ~overlapped

\* Values that are reported, and values that are verified by the response that is on its
\* way, are those of the decoder.
VerifyInv ==
    Trusted =>
        /\ \A t \in Tasks : \A e \in results[t] : e.value = decoder[e.variable]
        /\ \A i \in DOMAIN toClient :
               Verifies(toClient[i]) => toClient[i].request.value = Stored(toClient[i].request)

\* As long as no pulse was misread, so are all bits that have been read; then a read that is
\* misread later fails, and does not succeed with the wrong value.
BitsInv ==
    Clean =>
        /\ \A i \in UnderWay :
               Under(i).chain = "read" =>
                   Under(i).value = Stored(Under(i)) \cap 0 .. (Under(i).bit - 1)
        /\ \A i \in DOMAIN toClient :
               /\ toClient[i].request.chain = "read" /\ toClient[i].request.step = "bit"
               /\ toClient[i].ok
               => (toClient[i].ack = "negative" <=>
                      toClient[i].request.bit \in Stored(toClient[i].request))

LEMMA ValueInit == Init => VerifyInv /\ BitsInv
  <1> SUFFICES ASSUME Init PROVE VerifyInv /\ BitsInv  OBVIOUS
  <1>1. toClient = <<>> /\ toProgrammer = <<>> /\ results = [t \in Tasks |-> {}]  BY DEF Init
  <1>2. UnderWay = {} /\ DOMAIN toClient = {}
    <2>1. Len(toClient) = 0 /\ Len(toProgrammer) = 0 /\ DOMAIN toClient = {}  BY <1>1
    <2>2. 1 .. 0 + 0 = {}  OBVIOUS
    <2> QED  BY <2>1, <2>2 DEF UnderWay
  <1> QED  BY <1>1, <1>2 DEF VerifyInv, BitsInv

\* Nothing makes up for a pulse that was misread, or for callers that overlapped.
LEMMA TrustIsLost ==
    ASSUME TypeInv, overlapped => overlapped', overlapped' \in BOOLEAN,
           UNCHANGED happened \/ \E kind \in Events : Event(kind)
    PROVE  /\ Trusted' => Trusted
           /\ Clean' => Clean
           /\ Event("misread") => ~Clean' /\ (Trusted' => Clean)
  <1>1. happened \in [Events -> Nat] /\ "misread" \in Events  BY TypeParts DEF Events
  <1>2. PICK k \in Nat : k = happened["misread"]  BY <1>1
  <1>3. CASE UNCHANGED happened
    <2>1. Event("misread") => happened'["misread"] = k + 1  BY <1>1, <1>2, EventCounts
    <2>2. ~Event("misread")  BY <1>2, <1>3, <2>1
    <2> QED  BY <1>3, <2>2 DEF Trusted, Clean
  <1>4. ASSUME NEW kind \in Events, Event(kind)
        PROVE  happened'["misread"] = k \/ happened'["misread"] = k + 1
    <2>1. happened' = [happened EXCEPT ![kind] = @ + 1]  BY <1>4, EventCounts
    <2> QED  BY <1>1, <1>2, <2>1
  <1>5. ASSUME NEW kind \in Events, Event(kind)
        PROVE  (Trusted' => Trusted) /\ (Clean' => Clean)
    <2>1. PICK l : l = happened'["misread"]  OBVIOUS
    <2>2. l = k \/ l = k + 1  BY <1>4, <1>5, <2>1
    <2>3. (l = 0 => k = 0) /\ (l = 1 => k = 0 \/ k = 1)  BY <1>2, <2>2
    <2> QED  BY <1>2, <2>1, <2>3 DEF Trusted, Clean
  <1>6. ASSUME Event("misread") PROVE ~Clean' /\ (Trusted' => Clean)
    <2>1. PICK l : l = happened'["misread"]  OBVIOUS
    <2>2. l = k + 1  BY <1>1, <1>2, <1>6, <2>1, EventCounts
    <2>3. l # 0 /\ (l = 1 => k = 0)  BY <1>2, <2>2
    <2> QED  BY <1>2, <2>1, <2>3 DEF Trusted, Clean
  <1> QED  BY <1>3, <1>5, <1>6

\* What is stored is a value.
LEMMA StoredBits ==
    ASSUME TypeInv, NEW r \in Good, r.chain = "read", Entitled(r)
    PROVE  Stored(r) \subseteq 0 .. (Bits - 1)
  <1>1. PICK t : t = r.task  OBVIOUS
  <1>2. t \in Tasks /\ at[t] < Len(Variables[t]) /\ at[t] \in Nat
    <2>1. t \in Tasks  BY <1>1, RequestKinds
    <2> QED  BY <1>1, <2>1 DEF Entitled, Personal, TypeInv, TypeOK
  <1>3. PICK name : name = Variables[t][at[t] + 1]  OBVIOUS
  <1>4. Variables[t] \in Seq(STRING)  BY <1>2, Lp2Assumption
  <1>5. PICK n, k : n = Len(Variables[t]) /\ k = at[t] + 1  OBVIOUS
  <1>6. n \in Nat  BY <1>4, <1>5, LenProperties
  <1>7. k \in 1 .. n  BY <1>2, <1>5, <1>6
  <1>8. k \in DOMAIN Variables[t]  BY <1>4, <1>5, <1>7, LenProperties
  <1>9. name \in ToSet(Variables[t])  BY <1>3, <1>5, <1>8 DEF ToSet
  <1>10. decoder \in Decoders  BY DEF TypeInv, TypeOK
  <1>11. name \in DOMAIN decoder  BY <1>2, <1>9, <1>10, Lp2Assumption
  <1>12. decoder[name] \subseteq 0 .. (Bits - 1)  BY <1>10, <1>11, Lp2Assumption
  <1> QED  BY <1>1, <1>3, <1>12 DEF Stored

\* The session ends.
LEMMA ValueClosed ==
    ASSUME TypeInv, LineInv, VerifyInv, BitsInv, Close,
           UNCHANGED happened \/ \E kind \in Events : Event(kind)
    PROVE  VerifyInv' /\ BitsInv'
  <1>1. /\ UNCHANGED <<results, decoder, overlapped>> /\ toClient' = <<>>
        /\ overlapped \in BOOLEAN
    BY DEF Close, callers, station, TypeInv, TypeOK
  <1>2. (Trusted' => Trusted) /\ (Clean' => Clean)  BY <1>1, TrustIsLost
  <1>3. UnderWay' = {} /\ DOMAIN toClient' = {}  BY <1>1, LineClosed
  <1>4. VerifyInv'  BY <1>1, <1>2, <1>3 DEF VerifyInv
  <1>5. BitsInv'  BY <1>3 DEF BitsInv
  <1> QED  BY <1>4, <1>5

\* Requests of callers do not belong to a read yet.
LEMMA ValueExtended ==
    ASSUME TypeInv, VerifyInv, BitsInv, NEW o \in Good, toProgrammer' = Append(toProgrammer, o),
           UNCHANGED <<toClient, at, results, decoder>>, o.chain # "read",
           Trusted' => Trusted, Clean' => Clean
    PROVE  VerifyInv' /\ BitsInv'
  <1>1. VerifyInv'  BY DEF VerifyInv, Verifies, Stored
  <1>2. ASSUME Clean', NEW i \in UnderWay', Under(i)'.chain = "read"
        PROVE  Under(i)'.value = Stored(Under(i))' \cap 0 .. (Under(i)'.bit - 1)
    <2>1. PICK s : s = Under(i)'  OBVIOUS
    <2>2. \E j \in UnderWay : s = Under(j)  BY <1>2, <2>1, AfterRequest
    <2>3. s.value = Stored(s) \cap 0 .. (s.bit - 1)
      BY <1>2, <2>1, <2>2 DEF BitsInv
    <2> QED  BY <2>1, <2>3 DEF Stored
  <1>3. BitsInv'  BY <1>2 DEF BitsInv, Stored
  <1> QED  BY <1>1, <1>3

\* A read goes on with the bits it has, and with the bit that was answered.
LEMMA ValueAnswered ==
    ASSUME TypeInv, LineInv, VerifyInv, BitsInv, toClient # <<>>, NEW a, a = Head(toClient),
           Parsed, ResponseKinds(a.request, a.ok, a.ack)
    PROVE  VerifyInv' /\ BitsInv'
  <1>1. PICK r, ok, ack : r = a.request /\ ok = a.ok /\ ack = a.ack  OBVIOUS
  <1>2. /\ 1 \in DOMAIN toClient /\ a = toClient[1] /\ a \in Answer
        /\ 1 \in UnderWay /\ Under(1) = r /\ r \in Good /\ r.chain # "drive"
        /\ \A i \in UnderWay' :
               \/ \E j \in UnderWay : j # 1 /\ Under(i)' = Under(j)
               \/ \E o : FollowsBy(r, ok, ack, o) /\ Under(i)' = o
        /\ \A i \in DOMAIN toClient' :
               i + 1 \in DOMAIN toClient /\ i + 1 # 1 /\ toClient'[i] = toClient[i + 1]
    BY <1>1, AfterResponse
  <1>3. ResponseKinds(r, ok, ack)  BY <1>1
  <1>4. UNCHANGED <<decoder, overlapped, happened, started>>  BY DEF Parsed, station
  <1>5. (Trusted' <=> Trusted) /\ (Clean' <=> Clean)  BY <1>4 DEF Trusted, Clean
  <1>6. Entitled(r)  BY <1>2 DEF LineInv
  <1>7. AtBy(r)  BY <1>2, <1>3, <1>6, ResponseSends DEF TypeInv, TypeOK
  \* Nobody else's read gets on.
  <1>8. ASSUME NEW j \in UnderWay, j # 1, NEW s, s = Under(j), s.chain = "read"
        PROVE  Stored(s)' = Stored(s)
    <2>1. 1 < j  BY <1>8, LineType DEF UnderWay
    <2>2. Apart(r, s) /\ Entitled(s) /\ s \in Good  BY <1>2, <1>8, <2>1, LineType DEF LineInv
    <2>3. s.task \in Tasks  BY <1>8, <2>2, RequestKinds
    <2>4. r.chain = "read" => s.task # r.task  BY <1>8, <2>2 DEF Apart, Personal
    <2>5. at'[s.task] = at[s.task]  BY <1>7, <2>3, <2>4 DEF AtBy
    <2> QED  BY <1>4, <2>5 DEF Stored
  <1>9. ASSUME NEW i \in DOMAIN toClient', NEW b, b = toClient'[i], b.request.chain = "read"
        PROVE  Stored(b.request)' = Stored(b.request) /\ \E j \in DOMAIN toClient : b = toClient[j]
    <2>1. i + 1 \in DOMAIN toClient /\ i + 1 # 1 /\ b = toClient[i + 1]  BY <1>2, <1>9
    <2>2. i + 1 \in UnderWay /\ Under(i + 1) = b.request  BY <2>1, ResponseUnderWay
    <2>3. PICK s : s = b.request  OBVIOUS
    <2>4. Stored(s)' = Stored(s)  BY <1>8, <1>9, <2>1, <2>2, <2>3
    <2> QED  BY <2>1, <2>3, <2>4 DEF Stored
  <1>10. ASSUME Trusted, NEW t \in Tasks, NEW e \in results'[t]
         PROVE  e.value = decoder[e.variable]
    <2>1. CASE e \in results[t]  BY <1>10, <2>1 DEF VerifyInv
    <2>2. CASE e \notin results[t]
      <3>1. results' # results  BY <1>10, <2>2
      <3>2. ValueRead(r, ok, ack)
        <4>1. CASE NextSent(r, ok) \/ ChainThrough(r, ok) \/ ChainFailed(r) \/ ReadBegins(r)
          BY <3>1, <4>1 DEF NextSent, ChainThrough, ChainFailed, ReadBegins
        <4>2. CASE ReadGoesOn(r, ok, ack) \/ ReadGivenUp(r)
          BY <3>1, <4>2 DEF ReadGoesOn, ReadGivenUp
        <4> QED  BY <1>3, <4>1, <4>2 DEF ResponseKinds
      <3>3. PICK entry : entry = [variable |-> Variables[r.task][at[r.task] + 1],
                                  value |-> r.value]
        OBVIOUS
      <3>4. results' = [results EXCEPT ![r.task] = @ \union {entry}]
        BY <3>2, <3>3 DEF ValueRead
      <3>5. e = entry
        <4>1. results \in [Tasks -> SUBSET [variable: Read, value: Value]]
          BY DEF TypeInv, TypeOK
        <4>2. results'[t] = IF t = r.task THEN results[t] \union {entry} ELSE results[t]
          BY <3>4, <4>1
        <4> QED  BY <1>10, <2>2, <4>2
      <3>6. Verifies(a)  BY <1>1, <3>2 DEF Verifies, ValueRead
      <3>7. r.value = Stored(r)  BY <1>1, <1>2, <1>10, <3>6 DEF VerifyInv
      <3>8. e.value = r.value /\ e.variable = Variables[r.task][at[r.task] + 1]
        BY <3>3, <3>5
      <3> QED  BY <3>7, <3>8 DEF Stored
    <2> QED  BY <2>1, <2>2
  <1>11. ASSUME Trusted, NEW i \in DOMAIN toClient', NEW b, b = toClient'[i], Verifies(b)
         PROVE  b.request.value = Stored(b.request)'
    <2>1. Stored(b.request)' = Stored(b.request) /\ \E j \in DOMAIN toClient : b = toClient[j]
      BY <1>9, <1>11 DEF Verifies
    <2>2. b.request.value = Stored(b.request)  BY <1>11, <2>1 DEF VerifyInv
    <2> QED  BY <2>1, <2>2
  <1>12. VerifyInv'
    <2> SUFFICES ASSUME Trusted' PROVE VerifyInv'  BY DEF VerifyInv
    <2>1. \A t \in Tasks : \A e \in results'[t] : e.value = decoder'[e.variable]
      BY <1>4, <1>5, <1>10
    <2>2. (\A i \in DOMAIN toClient :
               Verifies(toClient[i]) =>
                   toClient[i].request.value = Stored(toClient[i].request))'
      <3> SUFFICES ASSUME NEW i \in DOMAIN toClient', Verifies(toClient[i])'
                   PROVE  (toClient[i].request.value = Stored(toClient[i].request))'
        OBVIOUS
      <3>1. PICK b : b = toClient'[i]  OBVIOUS
      <3>2. b.request.value = Stored(b.request)'  BY <1>5, <1>11, <3>1 DEF Verifies
      <3> QED  BY <3>1, <3>2 DEF Stored
    <2> QED  BY <2>1, <2>2 DEF VerifyInv
  \* The next request of a read.
  <1>13. ASSUME Clean, NEW o, FollowsBy(r, ok, ack, o), o.chain = "read"
         PROVE  o.value = Stored(o)' \cap 0 .. (o.bit - 1)
    <2>1. CASE o = StartReading(r.task)
      <3>1. o.value = {} /\ o.bit = 0  BY <2>1 DEF StartReading
      <3>2. 0 .. (0 - 1) = {}  OBVIOUS
      <3> QED  BY <3>1, <3>2
    <2>2. ASSUME r.chain = "read", o.task = r.task, at' = at
          PROVE  Stored(o)' = Stored(r) /\ r.value = Stored(r) \cap 0 .. (r.bit - 1)
      <3>1. Stored(o)' = Stored(r)  BY <1>4, <2>2 DEF Stored
      <3> QED  BY <1>2, <1>13, <2>2, <3>1 DEF BitsInv
    <2>3. CASE r.chain = "read" /\ o.task = r.task /\ at' = at
               /\ o.bit = r.bit /\ o.value = r.value
      BY <2>2, <2>3
    <2>4. CASE r.chain = "read" /\ o.task = r.task /\ at' = at
               /\ r.step = "bit" /\ ok /\ o.bit = r.bit + 1 /\ o.value = BitRead(r, ack)
      <3>1. ack = "negative" <=> r.bit \in Stored(r)
        BY <1>1, <1>2, <1>13, <2>4 DEF BitsInv
      <3>2. PICK v, k : v = Stored(r) /\ k = r.bit  OBVIOUS
      <3>3. k \in Nat
        <4>1. r.bit \in 0 .. Bits /\ Bits \in Nat  BY <1>2, <2>4, RequestKinds, Lp2Assumption
        <4> QED  BY <3>2, <4>1
      <3>4. r.value = v \cap 0 .. (k - 1) /\ Stored(o)' = v  BY <2>2, <2>4, <3>2
      <3>5. o.value = IF k \in v THEN (v \cap 0 .. (k - 1)) \union {k} ELSE v \cap 0 .. (k - 1)
        BY <2>4, <3>1, <3>2, <3>4 DEF BitRead
      <3>6. o.bit - 1 = k  BY <2>4, <3>2, <3>3
      <3>7. 0 .. k = (0 .. (k - 1)) \union {k} /\ k \notin 0 .. (k - 1)  BY <3>3
      <3>8. o.value = v \cap 0 .. k  BY <3>5, <3>7
      <3> QED  BY <3>4, <3>6, <3>8
    <2>5. CASE r.chain \in {"info", "service", "enable"} /\ o.chain = r.chain  BY <1>13, <2>5
    <2>6. CASE o \in {Off1, Service1(r.task)}  BY <1>13, <2>6 DEF Off1, Service1
    <2> QED  BY <1>13, <2>1, <2>3, <2>4, <2>5, <2>6 DEF FollowsBy
  <1>14. ASSUME Clean, NEW i \in UnderWay', NEW s, s = Under(i)', s.chain = "read"
         PROVE  s.value = Stored(s)' \cap 0 .. (s.bit - 1)
    <2>1. CASE FollowsBy(r, ok, ack, s)  BY <1>13, <1>14, <2>1
    <2>2. ASSUME NEW j \in UnderWay, j # 1, s = Under(j)
          PROVE  s.value = Stored(s)' \cap 0 .. (s.bit - 1)
      <3>1. Stored(s)' = Stored(s)  BY <1>8, <1>14, <2>2
      <3>2. s.value = Stored(s) \cap 0 .. (s.bit - 1)  BY <1>14, <2>2 DEF BitsInv
      <3> QED  BY <3>1, <3>2
    <2> QED  BY <1>2, <1>14, <2>1, <2>2
  <1>15. ASSUME Clean, NEW i \in DOMAIN toClient', NEW b, b = toClient'[i],
                b.request.chain = "read", b.request.step = "bit", b.ok
         PROVE  b.ack = "negative" <=> b.request.bit \in Stored(b.request)'
    <2>1. Stored(b.request)' = Stored(b.request) /\ \E j \in DOMAIN toClient : b = toClient[j]
      BY <1>9, <1>15
    <2>2. b.ack = "negative" <=> b.request.bit \in Stored(b.request)
      BY <1>15, <2>1 DEF BitsInv
    <2> QED  BY <2>1, <2>2
  <1>16. BitsInv'
    <2> SUFFICES ASSUME Clean' PROVE BitsInv'  BY DEF BitsInv
    <2>1. ASSUME NEW i \in UnderWay', Under(i)'.chain = "read"
          PROVE  Under(i)'.value = Stored(Under(i))' \cap 0 .. (Under(i)'.bit - 1)
      <3>1. PICK s : s = Under(i)'  OBVIOUS
      <3>2. s.value = Stored(s)' \cap 0 .. (s.bit - 1)  BY <1>5, <1>14, <2>1, <3>1
      <3> QED  BY <3>1, <3>2 DEF Stored
    <2>2. (\A i \in DOMAIN toClient :
               /\ toClient[i].request.chain = "read" /\ toClient[i].request.step = "bit"
               /\ toClient[i].ok
               => (toClient[i].ack = "negative" <=>
                      toClient[i].request.bit \in Stored(toClient[i].request)))'
      <3> SUFFICES ASSUME NEW i \in DOMAIN toClient', toClient'[i].request.chain = "read",
                          toClient'[i].request.step = "bit", toClient'[i].ok
                   PROVE  (toClient[i].ack = "negative" <=>
                              toClient[i].request.bit \in Stored(toClient[i].request))'
        OBVIOUS
      <3>1. PICK b : b = toClient'[i]  OBVIOUS
      <3>2. b.ack = "negative" <=> b.request.bit \in Stored(b.request)'
        BY <1>5, <1>15, <3>1
      <3> QED  BY <3>1, <3>2 DEF Stored
    <2> QED  BY <2>1, <2>2 DEF BitsInv
  <1> QED  BY <1>12, <1>16

\* The programmer answers with the pulse of the decoder, unless it is misread or nothing was
\* executed.
LEMMA ValueServed ==
    ASSUME TypeInv, LineInv, ModeInv, VerifyInv, BitsInv, NEW ok \in BOOLEAN, NEW ack,
           Respond(ok, ack), NEW r, r = Head(toProgrammer),
           UNCHANGED happened \/ \E kind \in Events : Event(kind),
           \/ ~ok
           \/ ack = Acknowledge(r)
           \/ Event("misread") /\ ack # Acknowledge(r)
    PROVE  VerifyInv' /\ BitsInv'
  <1>1. PICK c : c = Len(toClient) + 1  OBVIOUS
  <1>2. PICK answer : answer = [request |-> r, ok |-> ok, ack |-> ack]  OBVIOUS
  <1>3. /\ r \in Good /\ c \in UnderWay /\ Under(c) = r
        /\ \A i \in UnderWay' : \E j \in UnderWay : Under(i)' = Under(j)
        /\ \A i \in DOMAIN toClient' :
               \/ i \in DOMAIN toClient /\ toClient'[i] = toClient[i]
               \/ toClient'[i] = answer /\ r.chain # "drive"
    BY <1>1, <1>2, AfterService
  <1>4. UNCHANGED <<decoder, at, results, overlapped>> /\ overlapped \in BOOLEAN
    BY DEF Respond, callers, TypeInv, TypeOK
  <1>5. /\ Trusted' => Trusted
        /\ Clean' => Clean
        /\ Event("misread") => ~Clean' /\ (Trusted' => Clean)
    BY <1>4, TrustIsLost
  <1>6. \A s : Stored(s)' = Stored(s)  BY <1>4 DEF Stored
  <1>7. Entitled(r)  BY <1>3 DEF LineInv
  <1>8. answer.request = r /\ answer.ok = ok /\ answer.ack = ack  BY <1>2
  <1>9. r.chain = "read" /\ ~overlapped => mode = "service"
    BY <1>3 DEF ModeInv, PastPower, ModeOf
  <1>10. ASSUME Trusted', Verifies(answer) PROVE r.value = Stored(r)
    <2>1. r.chain = "read" /\ r.step = "byte" /\ ok /\ ack = "positive"
      BY <1>8, <1>10 DEF Verifies, Verified
    <2>2. CASE ack = Acknowledge(r)
      BY <2>1, <2>2 DEF Acknowledge, Pulse, Stored
    <2>3. CASE Event("misread") /\ ack # Acknowledge(r)
      <3>1. Clean  BY <1>5, <1>10, <2>3
      <3>2. r.value = Stored(r) \cap 0 .. (r.bit - 1)  BY <1>3, <2>1, <3>1 DEF BitsInv
      <3>3. r.bit = Bits  BY <1>3, <2>1, RequestKinds
      <3>4. Stored(r) \subseteq 0 .. (Bits - 1)  BY <1>3, <1>7, <2>1, StoredBits
      <3> QED  BY <3>2, <3>3, <3>4
    <2> QED  BY <2>1, <2>2, <2>3
  <1>11. ASSUME Clean', r.chain = "read", r.step = "bit", ok
         PROVE  ack = "negative" <=> r.bit \in Stored(r)
    <2>1. ack = Acknowledge(r)  BY <1>5, <1>11
    <2>2. mode = "service"  BY <1>5, <1>9, <1>11 DEF Clean
    <2>3. Pulse(r) <=> r.bit \notin Stored(r)  BY <1>11, <2>2 DEF Pulse, Stored
    <2> QED  BY <1>11, <2>1, <2>3 DEF Acknowledge
  <1>12. VerifyInv'
    <2> SUFFICES ASSUME Trusted' PROVE VerifyInv'  BY DEF VerifyInv
    <2>1. (\A t \in Tasks : \A e \in results[t] : e.value = decoder[e.variable])'
      BY <1>4, <1>5 DEF VerifyInv
    <2>2. (\A i \in DOMAIN toClient :
               Verifies(toClient[i]) =>
                   toClient[i].request.value = Stored(toClient[i].request))'
      <3> SUFFICES ASSUME NEW i \in DOMAIN toClient', Verifies(toClient[i])'
                   PROVE  (toClient[i].request.value = Stored(toClient[i].request))'
        OBVIOUS
      <3>1. PICK b : b = toClient'[i]  OBVIOUS
      <3>2. Verifies(b)  BY <3>1 DEF Verifies
      <3>3. b.request.value = Stored(b.request)
        <4>1. CASE b = answer  BY <1>8, <1>10, <3>2, <4>1
        <4>2. CASE b # answer
          <5>1. \E j \in DOMAIN toClient : b = toClient[j]  BY <1>3, <3>1, <4>2
          <5> QED  BY <1>5, <3>2, <5>1 DEF VerifyInv
        <4> QED  BY <4>1, <4>2
      <3> QED  BY <1>4, <3>1, <3>3 DEF Stored
    <2> QED  BY <2>1, <2>2 DEF VerifyInv
  <1>13. BitsInv'
    <2> SUFFICES ASSUME Clean' PROVE BitsInv'  BY DEF BitsInv
    <2>1. ASSUME NEW i \in UnderWay', Under(i)'.chain = "read"
          PROVE  Under(i)'.value = Stored(Under(i))' \cap 0 .. (Under(i)'.bit - 1)
      <3>1. PICK s : s = Under(i)'  OBVIOUS
      <3>2. \E j \in UnderWay : s = Under(j)  BY <1>3, <3>1
      <3>3. s.value = Stored(s) \cap 0 .. (s.bit - 1)  BY <1>5, <2>1, <3>1, <3>2 DEF BitsInv
      <3> QED  BY <1>4, <3>1, <3>3 DEF Stored
    <2>2. (\A i \in DOMAIN toClient :
               /\ toClient[i].request.chain = "read" /\ toClient[i].request.step = "bit"
               /\ toClient[i].ok
               => (toClient[i].ack = "negative" <=>
                      toClient[i].request.bit \in Stored(toClient[i].request)))'
      <3> SUFFICES ASSUME NEW i \in DOMAIN toClient', toClient'[i].request.chain = "read",
                          toClient'[i].request.step = "bit", toClient'[i].ok
                   PROVE  (toClient[i].ack = "negative" <=>
                              toClient[i].request.bit \in Stored(toClient[i].request))'
        OBVIOUS
      <3>1. PICK b : b = toClient'[i]  OBVIOUS
      <3>2. b.ack = "negative" <=> b.request.bit \in Stored(b.request)
        <4>1. CASE b = answer  BY <1>8, <1>11, <3>1, <4>1
        <4>2. CASE b # answer
          <5>1. \E j \in DOMAIN toClient : b = toClient[j]  BY <1>3, <3>1, <4>2
          <5> QED  BY <1>5, <3>1, <5>1 DEF BitsInv
        <4> QED  BY <4>1, <4>2
      <3> QED  BY <1>4, <3>1, <3>2 DEF Stored
    <2> QED  BY <2>1, <2>2 DEF BitsInv
  <1> QED  BY <1>12, <1>13

LEMMA ValueKept ==
    ASSUME TypeInv, LineInv, ModeInv, VerifyInv, BitsInv, [Next]_vars
    PROVE  VerifyInv' /\ BitsInv'
  <1>0. ASSUME UNCHANGED <<toClient, toProgrammer, decoder, at, results>>,
               Trusted' => Trusted, Clean' => Clean
        PROVE  VerifyInv' /\ BitsInv'
    <2>1. UnderWay' = UnderWay /\ \A i \in UnderWay : Under(i)' = Under(i)
      BY <1>0 DEF UnderWay, Under
    <2>2. VerifyInv'  BY <1>0 DEF VerifyInv, Verifies, Stored
    <2>3. BitsInv'  BY <1>0, <2>1 DEF BitsInv, Stored
    <2> QED  BY <2>2, <2>3
  <1>1. overlapped \in BOOLEAN  BY DEF TypeInv, TypeOK
  <1>2. CASE Connect
    <2>1. \E kind \in Events : Event(kind)  BY <1>2 DEF Connect, Events
    <2>2. CASE open  BY <1>2, <2>1, <2>2, ValueClosed DEF Connect
    <2>3. CASE ~open
      <3>1. PICK o : o = [chain |-> "info", index |-> 1, task |-> Nobody]  OBVIOUS
      <3>2. /\ UNCHANGED <<toClient, decoder, at, results, overlapped>>
            /\ toProgrammer' = Append(toProgrammer, o)
        BY <1>2, <2>3, <3>1, Begins DEF Connect, station
      <3>3. o \in Good /\ o.chain # "read"  BY <3>1, FirstRequests
      <3>4. (Trusted' => Trusted) /\ (Clean' => Clean)  BY <1>1, <2>1, <3>2, TrustIsLost
      <3> QED  BY <3>2, <3>3, <3>4, ValueExtended
    <2> QED  BY <2>2, <2>3
  <1>3. CASE Disconnect
    <2>1. \E kind \in Events : Event(kind)  BY <1>3 DEF Disconnect, Events
    <2> QED  BY <1>3, <2>1, ValueClosed DEF Disconnect
  <1>4. CASE ConnectTimeout  BY <1>4, ValueClosed DEF ConnectTimeout, Timeout
  <1>5. ASSUME NEW t \in Tasks, Start(t) PROVE VerifyInv' /\ BitsInv'
    <2>1. UNCHANGED <<toClient, decoder, happened>>  BY <1>5 DEF Start, station
    <2>2. CASE open
      <3>1. PICK o : o = [chain |-> "service", index |-> 1, task |-> t]  OBVIOUS
      <3>2. /\ UNCHANGED <<at, results>> /\ overlapped' = (overlapped \/ Chains # {})
            /\ toProgrammer' = Append(toProgrammer, o)
        BY <1>5, <2>2, <3>1, Begins DEF Start, ReadVariable
      <3>3. o \in Good /\ o.chain # "read"  BY <3>1, FirstRequests
      <3>4. (Trusted' => Trusted) /\ (Clean' => Clean)  BY <1>1, <2>1, <3>2, TrustIsLost
      <3> QED  BY <2>1, <3>2, <3>3, <3>4, ValueExtended
    <2>3. CASE ~open
      <3>1. UNCHANGED <<toProgrammer, at, results, overlapped>>  BY <1>5, <2>3 DEF Start
      <3>2. (Trusted' => Trusted) /\ (Clean' => Clean)  BY <1>1, <2>1, <3>1, TrustIsLost
      <3> QED  BY <1>0, <2>1, <3>1, <3>2
    <2> QED  BY <2>2, <2>3
  <1>6. ASSUME NEW chain \in {"enable", "disable"}, Call(chain) PROVE VerifyInv' /\ BitsInv'
    <2>1. \E kind \in Events : Event(kind)  BY <1>6 DEF Call, Events
    <2>2. PICK o : o = [chain |-> chain, index |-> 1, task |-> Nobody]  OBVIOUS
    <2>3. /\ UNCHANGED <<toClient, decoder, at, results>>
          /\ overlapped' = (overlapped \/ Chains # {})
          /\ toProgrammer' = Append(toProgrammer, o)
      BY <1>6, <2>2, Begins DEF Call, station
    <2>4. o \in Good /\ o.chain # "read"  BY <2>2, FirstRequests
    <2>5. (Trusted' => Trusted) /\ (Clean' => Clean)  BY <1>1, <2>1, <2>3, TrustIsLost
    <2> QED  BY <2>3, <2>4, <2>5, ValueExtended
  <1>7. CASE Drive
    <2>1. PICK o : o = [chain |-> "drive"]  OBVIOUS
    <2>2. /\ UNCHANGED <<toClient, decoder, at, results, overlapped, happened>>
          /\ toProgrammer' = Append(toProgrammer, o)
      BY <1>7, <2>1 DEF Drive, station, callers
    <2>3. o \in Good /\ o.chain # "read"  BY <2>1, DrivingIsGood
    <2>4. (Trusted' => Trusted) /\ (Clean' => Clean)  BY <1>1, <2>2, TrustIsLost
    <2> QED  BY <2>2, <2>3, <2>4, ValueExtended
  <1>8. CASE ParseMessage
    <2>1. PICK a : a = Head(toClient)  OBVIOUS
    <2>2. toClient # <<>>  BY <1>8 DEF ParseMessage
    <2>3. CASE Close /\ UNCHANGED happened  BY <2>3, ValueClosed
    <2>4. CASE Parsed /\ ResponseKinds(a.request, a.ok, a.ack)
      BY <2>1, <2>2, <2>4, ValueAnswered
    <2> QED  BY <1>8, <2>1, <2>3, <2>4, ParseKinds
  <1>9. CASE Execute  BY <1>9, ValueServed DEF Execute
  <1>10. CASE Refuse
    <2>1. \E kind \in Events : Event(kind)  BY <1>10 DEF Refuse, Events
    <2> QED  BY <1>10, <2>1, ValueServed DEF Refuse
  <1>11. CASE Misread
    <2>1. /\ Event("misread") /\ \E kind \in Events : Event(kind)
      BY <1>11 DEF Misread, Events
    <2>2. PICK ack : Respond(TRUE, ack) /\ ack # Acknowledge(Head(toProgrammer))
      BY <1>11 DEF Misread
    <2> QED  BY <2>1, <2>2, ValueServed
  <1>12. CASE UNCHANGED vars
    <2>1. UNCHANGED <<toClient, toProgrammer, decoder, at, results, overlapped, happened>>
      BY <1>12 DEF vars, station, callers
    <2>2. (Trusted' => Trusted) /\ (Clean' => Clean)  BY <2>1 DEF Trusted, Clean
    <2> QED  BY <1>0, <2>1, <2>2
  <1> QED  BY <1>2, <1>3, <1>4, <1>5, <1>6, <1>7, <1>8, <1>9, <1>10, <1>11, <1>12 DEF Next

\* A value that is reported is the value in the decoder, if no pulse was misread, whatever
\* the callers do to each other, and if one was, as long as they do not overlap: the bits
\* that were read before are right then, and the decoder does not acknowledge what is wrong.
THEOREM ReadValuesAreRight == Spec => []ReadValueIsRight
  <1>1. Init => TypeInv /\ LineInv /\ ModeInv /\ VerifyInv /\ BitsInv
    BY TypeInit, LineInit, ModeInit, ValueInit
  <1>2. TypeInv /\ LineInv /\ ModeInv /\ VerifyInv /\ BitsInv /\ [Next]_vars
            => (TypeInv /\ LineInv /\ ModeInv /\ VerifyInv /\ BitsInv)'
    BY TypeKept, LineKept, ModeKept, ValueKept
  <1>3. VerifyInv => ReadValueIsRight  BY DEF VerifyInv, Trusted, ReadValueIsRight
  <1> QED  BY <1>1, <1>2, <1>3, PTL DEF Spec
=============================================================================
