----------------------- MODULE VariableControlProofs -----------------------
(* Theorems about VariableControl, for any tasks, lists of variables, pages  *)
(* and numbers of retries.                                                   *)
EXTENDS VariableControl, SequenceTheorems, FiniteSetTheorems, TLAPS

\* The pages are selected by one variable at most: SUSI banks, and no page at all.  For
\* pages selected by CV31 and CV32 both properties are wrong, as the run of extended_page
\* shows: the callback of the first one accesses the variable.
OneNumberSelects == \A v \in DOMAIN Page : Page[v].space # "Extended"

-----------------------------------------------------------------------------
(* What is inductive.                                                        *)

\* An operation that selects a page belongs to a variable that has one.
Fits(op) ==
    /\ op.step \in {"high", "low"} => Page[op.variable].space = "Extended"
    /\ op.step = "bank" => Page[op.variable].space = "Susi"

\* What may be queued.
Fitting == {op \in Operation : op.task \in started /\ Fits(op)}

TypeInv == TypeOK /\ queue \in Seq(Fitting)

\* What an operation will lead to, with what was delivered, is the list of its task; its
\* retries are counted twice.
GoesOn(op) ==
    LET n    == Len(delivered[op.task])
        list == Variables[op.task]
    IN  /\ n + 1 + Len(op.rest) = Len(list)
        /\ op.variable = list[n + 1]
        /\ \A i \in 1 .. Len(op.rest) : op.rest[i] = list[n + 1 + i]
        /\ streak[op.task] = op.retries
        /\ Policy[op.task] = "first" => n = 0

\* Each task has one operation in the queue at most: it is told nothing twice.
OneEach == \A i, j \in DOMAIN queue : queue[i].task = queue[j].task => i = j

DeliveredSoFar(t) ==
    /\ Len(delivered[t]) <= Len(Variables[t])
    /\ \A i \in 1 .. Len(delivered[t]) : delivered[t][i] = Variables[t][i]

ReportedWhenDone(t) ==
    reports[t] = 0 \/ (reports[t] = 1 /\ Len(delivered[t]) = Len(Variables[t]))

NotYet(t) == delivered[t] = <<>> /\ streak[t] = 0 /\ reports[t] = 0

\* What GivesUpLate allows a task that has nothing in the queue.
Ended(t) ==
    \/ Len(delivered[t]) = Len(Variables[t])
    \/ Policy[t] = "first" /\ Len(delivered[t]) = 1
    \/ streak[t] = RetryLimit + 1

ChainInv ==
    /\ OneEach
    /\ \A i \in DOMAIN queue : GoesOn(queue[i])
    /\ \A t \in Tasks : DeliveredSoFar(t) /\ ReportedWhenDone(t)
    /\ \A t \in Tasks \ started : NotYet(t)
    /\ GivesUpLate

\* Who has the device for itself has the only operation in the queue, and an access
\* comes when the page is there.
PageInv ==
    /\ \A i \in DOMAIN queue :
           queue[i].task \notin overlapped =>
               /\ Len(queue) = 1
               /\ queue[i].step = "access" =>
                      Shown(queue[i].variable) = Page[queue[i].variable].numbers
    /\ \A t \in Tasks \ started : touched[t] = {}

-----------------------------------------------------------------------------
(* Lemmas.                                                                   *)

\* Lists and the pages of variables are what they are assumed to be.
LEMMA ListType ==
    ASSUME NEW t \in Tasks
    PROVE  /\ Variables[t] \in Seq(DOMAIN Page) /\ Variables[t] # <<>>
           /\ Len(Variables[t]) \in Nat \ {0}
           /\ Policy[t] \in {"retry", "collect", "first"}
  <1>1. Variables[t] \in Seq(DOMAIN Page) \ {<<>>}  BY TaskAssumption
  <1>2. Len(Variables[t]) \in Nat /\ Len(Variables[t]) # 0  BY <1>1, LenProperties, EmptySeq
  <1> QED  BY <1>1, <1>2, TaskAssumption

\* The numbers that name a page, one by one.
LEMMA PageType ==
    ASSUME NEW v \in DOMAIN Page
    PROVE  /\ Page[v].space \in {"Basic", "Susi", "Extended"}
           /\ Page[v].numbers \in Seq(Nat)
           /\ Page[v].space = "Basic" => Page[v].numbers = <<>>
           /\ Page[v].space = "Susi" =>
                  Len(Page[v].numbers) = 1 /\ Page[v].numbers[1] \in Nat
                  /\ Page[v].numbers = <<Page[v].numbers[1]>>
           /\ Page[v].space = "Extended" =>
                  Page[v].numbers[1] \in Nat /\ Page[v].numbers[2] \in Nat
  <1> DEFINE n == Page[v].numbers
  <1>1. Page[v].space \in {"Basic", "Susi", "Extended"} /\ n \in Seq(Nat)
        /\ Len(n) = Space[Page[v].space]
    BY PageAssumption DEF Space
  <1>2. ASSUME Page[v].space = "Basic" PROVE n = <<>>
    BY <1>1, <1>2, EmptySeq DEF Space
  <1>3. ASSUME Page[v].space = "Susi"
        PROVE  Len(n) = 1 /\ n[1] \in Nat /\ n = <<n[1]>>
    <2>1. Len(n) = 1  BY <1>1, <1>3 DEF Space
    <2>2. n[1] \in Nat  BY <1>1, <2>1, ElementOfSeq
    <2>3. <<n[1]>> \in Seq(Nat) /\ Len(<<n[1]>>) = 1 /\ <<n[1]>>[1] = n[1]  BY <2>2
    <2>4. n = <<n[1]>>  BY <1>1, <2>1, <2>3, SeqEqual
    <2> QED  BY <2>1, <2>2, <2>4
  <1>4. ASSUME Page[v].space = "Extended" PROVE n[1] \in Nat /\ n[2] \in Nat
    <2>1. Len(n) = 2  BY <1>1, <1>4 DEF Space
    <2> QED  BY <1>1, <2>1, ElementOfSeq
  <1> QED  BY <1>1, <1>2, <1>3, <1>4

\* What a call queues first is an operation; a variable that needs no page is accessed.
LEMMA AccessType ==
    ASSUME NEW t \in Tasks, NEW list \in Seq(DOMAIN Page), list # <<>>
    PROVE  /\ Access(t, list) \in Operation /\ Fits(Access(t, list))
           /\ Access(t, list).task = t /\ Access(t, list).variable = list[1]
           /\ Access(t, list).rest = Tail(list) /\ Access(t, list).retries = 0
           /\ Access(t, list).step = "access" => Page[list[1]].space = "Basic"
  <1>1. Head(list) \in DOMAIN Page /\ Tail(list) \in Seq(DOMAIN Page) /\ Head(list) = list[1]
    BY HeadTailProperties
  <1>2. FirstStep[Page[Head(list)].space] \in {"high", "bank", "access"}
    BY <1>1, PageType DEF FirstStep
  <1>3. 0 \in 0 .. RetryLimit  BY TaskAssumption
  <1>4. Access(t, list) \in Operation  BY <1>1, <1>2, <1>3 DEF Access, Operation
  <1>5. /\ Access(t, list).task = t /\ Access(t, list).variable = list[1]
        /\ Access(t, list).rest = Tail(list) /\ Access(t, list).retries = 0
        /\ Access(t, list).step = FirstStep[Page[list[1]].space]
    BY <1>1 DEF Access
  <1>6. Page[list[1]].space \in {"Basic", "Susi", "Extended"}  BY <1>1, PageType
  <1> QED  BY <1>4, <1>5, <1>6 DEF Fits, FirstStep

\* The parts of an operation.
LEMMA OperationType ==
    ASSUME NEW op \in Fitting
    PROVE  /\ op \in Operation
           /\ op.task \in Tasks /\ op.task \in started
           /\ op.variable \in DOMAIN Page /\ op.rest \in Seq(DOMAIN Page)
           /\ op.retries \in 0 .. RetryLimit /\ op.retries \in Nat
           /\ op.step \in {"high", "low", "bank", "access"}
  BY TaskAssumption DEF Fitting, Operation

\* The chain of an operation, one step further.
LEMMA ThenType ==
    ASSUME NEW op \in Fitting, NEW step \in {"low", "access"},
           step = "low" => Page[op.variable].space = "Extended"
    PROVE  \E o \in Fitting :
               /\ Then(op, step) = <<o>>
               /\ o.step = step /\ o.retries = 0
               /\ o.task = op.task /\ o.variable = op.variable /\ o.rest = op.rest
  <1> DEFINE o == [op EXCEPT !.step = step, !.retries = 0]
  <1>1. o \in Operation
    <2>1. 0 \in 0 .. RetryLimit  BY TaskAssumption
    <2> QED  BY <2>1, OperationType, Zenon DEF Operation
  <1>2. /\ o.step = step /\ o.retries = 0
        /\ o.task = op.task /\ o.variable = op.variable /\ o.rest = op.rest
    BY OperationType DEF Operation
  <1>3. Then(op, step) = <<o>>  BY DEF Then
  <1> HIDE DEF o
  <1>4. o \in Fitting  BY <1>1, <1>2 DEF Fitting, Fits
  <1> QED  BY <1>2, <1>3, <1>4

\* A failed operation is queued once more, unless it was queued too often.
LEMMA RetryType ==
    ASSUME NEW op \in Fitting
    PROVE  \/ /\ op.retries = RetryLimit
              /\ AfterFailure(op) = <<>>
           \/ \E o \in Fitting :
                 /\ AfterFailure(op) = <<o>>
                 /\ o.step = op.step /\ o.retries = op.retries + 1
                 /\ o.task = op.task /\ o.variable = op.variable /\ o.rest = op.rest
  <1>1. CASE op.retries < RetryLimit
    <2> DEFINE o == [op EXCEPT !.retries = @ + 1]
    <2>1. o = [step |-> op.step, task |-> op.task, variable |-> op.variable,
               rest |-> op.rest, retries |-> op.retries + 1]
      BY OperationType DEF Operation
    <2>2. op.retries + 1 \in 0 .. RetryLimit  BY <1>1, OperationType, TaskAssumption
    <2>3. o \in Operation  BY <2>1, <2>2, OperationType DEF Operation
    <2>4. AfterFailure(op) = <<o>>  BY <1>1 DEF AfterFailure, Retry
    <2>5. /\ o.step = op.step /\ o.retries = op.retries + 1
          /\ o.task = op.task /\ o.variable = op.variable /\ o.rest = op.rest
      BY <2>1
    <2> HIDE DEF o
    <2>6. o \in Fitting  BY <2>3, <2>5 DEF Fitting, Fits
    <2> QED  BY <2>4, <2>5, <2>6
  <1>2. CASE ~(op.retries < RetryLimit)
    BY <1>2, OperationType, TaskAssumption DEF AfterFailure, Retry
  <1> QED  BY <1>1, <1>2

\* The next variable of the list.
LEMMA RestType ==
    ASSUME NEW op \in Fitting
    PROVE  \/ op.rest = <<>> /\ AccessRest(op) = <<>>
           \/ /\ op.rest # <<>>
              /\ \E o \in Fitting :
                     /\ AccessRest(op) = <<o>>
                     /\ o.step = "access" => Page[o.variable].space = "Basic"
                     /\ o.retries = 0 /\ o.task = op.task
                     /\ o.variable = op.rest[1] /\ o.rest = Tail(op.rest)
  <1>1. CASE op.rest = <<>>  BY <1>1 DEF AccessRest
  <1>2. CASE op.rest # <<>>
    <2> DEFINE o == Access(op.task, op.rest)
    <2>1. op.task \in Tasks /\ op.task \in started /\ op.rest \in Seq(DOMAIN Page)
      BY OperationType
    <2>2. /\ o \in Fitting
          /\ o.step = "access" => Page[op.rest[1]].space = "Basic"
          /\ o.retries = 0 /\ o.task = op.task
          /\ o.variable = op.rest[1] /\ o.rest = Tail(op.rest)
      BY <1>2, <2>1, AccessType DEF Fitting
    <2>3. AccessRest(op) = <<o>>  BY <1>2 DEF AccessRest
    <2> HIDE DEF o
    <2> QED  BY <1>2, <2>2, <2>3
  <1> QED  BY <1>1, <1>2

\* One operation or none, as a sequence.
LEMMA OneOrNone == <<>> \in Seq(Fitting) /\ \A o \in Fitting : <<o>> \in Seq(Fitting)
  OBVIOUS

\* What is queued after a success, a failure or a result.
LEMMA NextType ==
    ASSUME NEW op \in Fitting
    PROVE  /\ AfterSuccess(op) \in Seq(Fitting)
           /\ AfterFailure(op) \in Seq(Fitting)
           /\ AccessRest(op) \in Seq(Fitting)
  <1> USE OneOrNone
  <1>1. AccessRest(op) \in Seq(Fitting)  BY RestType
  <1>2. AfterFailure(op) \in Seq(Fitting)  BY RetryType
  <1>3. Then(op, "access") \in Seq(Fitting)  BY ThenType
  <1>4. AfterSuccess(op) \in Seq(Fitting)
    <2>1. CASE op.step = "high"
      <3>1. Page[op.variable].space = "Extended"  BY <2>1 DEF Fitting, Fits
      <3>2. Then(op, "low") \in Seq(Fitting)  BY <3>1, ThenType
      <3> QED  BY <1>3, <2>1, <3>2, ConcatProperties DEF AfterSuccess
    <2>2. CASE op.step \in {"low", "bank"}  BY <1>3, <2>2 DEF AfterSuccess
    <2>3. CASE op.step = "access"  BY <1>1, <2>3 DEF AfterSuccess
    <2> QED  BY OperationType, <2>1, <2>2, <2>3
  <1> QED  BY <1>1, <1>2, <1>4

\* The first operation of the queue.
LEMMA FirstType ==
    ASSUME TypeInv, queue # <<>>
    PROVE  /\ Head(queue) \in Fitting /\ Head(queue) = queue[1] /\ 1 \in DOMAIN queue
           /\ Tail(queue) \in Seq(Fitting) /\ Len(queue) \in Nat \ {0}
           /\ DOMAIN queue = 1 .. Len(queue)
  BY HeadTailProperties, LenProperties, EmptySeq DEF TypeInv

-----------------------------------------------------------------------------
(* Every variable has its type.                                              *)

\* What reaches the decoder: numbers of pages, and accesses.
LEMMA PerformType ==
    ASSUME TypeInv, NEW op \in Fitting, Perform(op)
    PROVE  /\ high' \in Nat /\ low' \in Nat /\ bank' \in Nat
           /\ touched' \in [Tasks -> SUBSET [variable: DOMAIN Page, page: Seq(Nat)]]
  <1> USE OperationType
  <1>1. high' \in Nat /\ low' \in Nat /\ bank' \in Nat
    BY PageType DEF Perform, TypeInv, TypeOK, Fitting, Fits
  <1>2. Shown(op.variable) \in Seq(Nat)
    <2>1. <<>> \in Seq(Nat) /\ <<bank>> \in Seq(Nat) /\ <<high, low>> \in Seq(Nat)
      BY DEF TypeInv, TypeOK
    <2> QED  BY <2>1, PageType DEF Shown
  <1>3. {[variable |-> op.variable, page |-> Shown(op.variable)]}
            \subseteq [variable: DOMAIN Page, page: Seq(Nat)]
    BY <1>2
  <1>4. touched' \in [Tasks -> SUBSET [variable: DOMAIN Page, page: Seq(Nat)]]
    BY <1>3 DEF Perform, TypeInv, TypeOK
  <1> QED  BY <1>1, <1>4

LEMMA DeliverType ==
    ASSUME TypeInv, NEW op \in Fitting, Deliver(op)
    PROVE  /\ delivered' \in [Tasks -> Seq(DOMAIN Page)]
           /\ reports' \in [Tasks -> Nat]
  <1>1. Append(delivered[op.task], op.variable) \in Seq(DOMAIN Page)
    BY OperationType, AppendProperties DEF TypeInv, TypeOK
  <1> QED  BY <1>1, OperationType DEF Deliver, TypeInv, TypeOK

\* The next operations follow the others.
LEMMA QueueType ==
    ASSUME TypeInv, queue # <<>>, NEW next \in Seq(Fitting), queue' = Tail(queue) \o next
    PROVE  queue' \in Seq(Fitting)
  BY FirstType, ConcatProperties

LEMMA TypeStep == TypeInv /\ [Next]_vars => TypeInv'
  <1> SUFFICES ASSUME TypeInv, [Next]_vars PROVE TypeInv'
    OBVIOUS
  <1>0. Fitting' \subseteq Operation  BY DEF Fitting
  <1>1. SUFFICES /\ queue' \in Seq(Fitting')
                 /\ high' \in Nat /\ low' \in Nat /\ bank' \in Nat
                 /\ started' \subseteq Tasks /\ overlapped' \subseteq started'
                 /\ delivered' \in [Tasks -> Seq(DOMAIN Page)]
                 /\ reports' \in [Tasks -> Nat]
                 /\ touched' \in [Tasks -> SUBSET [variable: DOMAIN Page, page: Seq(Nat)]]
                 /\ streak' \in [Tasks -> 0..(RetryLimit + 1)]
    BY <1>0, SeqMonotonic DEF TypeInv, TypeOK
  <1> DEFINE op == Head(queue)
  <1>2. CASE \E t \in Tasks : Start(t)
    <2>1. PICK t \in Tasks : Start(t)  BY <1>2
    <2>2. queue' \in Seq(Fitting')
      <3> DEFINE o == Access(t, Variables[t])
      <3>1. Fitting \subseteq Fitting'  BY <2>1 DEF Start, Fitting
      <3>2. queue \in Seq(Fitting')  BY <3>1, SeqMonotonic DEF TypeInv
      <3>3. o \in Operation /\ Fits(o) /\ o.task \in started'
        BY <2>1, ListType, AccessType DEF Start
      <3>4. queue' = Append(queue, o)  BY <2>1 DEF Start
      <3> HIDE DEF o
      <3>5. o \in Fitting'  BY <3>3 DEF Fitting, Fits
      <3> QED  BY <3>2, <3>4, <3>5, AppendProperties
    <2>3. overlapped' \subseteq started'
      <3>1. TasksIn(queue) \subseteq started
        BY LenProperties, ElementOfSeq DEF TypeInv, TasksIn, Fitting
      <3> QED  BY <2>1, <3>1 DEF Start, TypeInv, TypeOK
    <2> QED  BY <2>1, <2>2, <2>3 DEF Start, TypeInv, TypeOK
  <1>3. CASE Succeed
    <2>0. Fitting' = Fitting  BY <1>3 DEF Succeed, Fitting, Fits
    <2>1. op \in Fitting /\ op.task \in Tasks /\ queue # <<>> /\ Perform(op)
      BY <1>3, FirstType, OperationType DEF Succeed
    <2>2. queue' \in Seq(Fitting)  BY <1>3, <2>1, NextType, QueueType DEF Succeed
    <2>3. /\ delivered' \in [Tasks -> Seq(DOMAIN Page)]
          /\ reports' \in [Tasks -> Nat]
      <3>1. CASE op.step = "access"  BY <1>3, <2>1, <3>1, DeliverType DEF Succeed
      <3>2. CASE op.step # "access"  BY <1>3, <3>2 DEF Succeed, TypeInv, TypeOK
      <3> QED  BY <3>1, <3>2
    <2>4. streak' \in [Tasks -> 0..(RetryLimit + 1)]
      BY <1>3, <2>1, TaskAssumption DEF Succeed, TypeInv, TypeOK
    <2> QED  BY <1>3, <2>0, <2>1, <2>2, <2>3, <2>4, PerformType DEF Succeed, TypeInv, TypeOK
  <1>4. CASE Fail
    <2>0. Fitting' = Fitting  BY <1>4 DEF Fail, Fitting, Fits
    <2>1. op \in Fitting /\ op.task \in Tasks /\ queue # <<>>
      BY <1>4, FirstType, OperationType DEF Fail
    <2>2. /\ high' \in Nat /\ low' \in Nat /\ bank' \in Nat
          /\ touched' \in [Tasks -> SUBSET [variable: DOMAIN Page, page: Seq(Nat)]]
      <3>1. Perform(op) \/ UNCHANGED <<high, low, bank, touched>>  BY <1>4 DEF Fail
      <3> QED  BY <2>1, <3>1, PerformType DEF TypeInv, TypeOK
    <2>3. /\ queue' \in Seq(Fitting)
          /\ delivered' \in [Tasks -> Seq(DOMAIN Page)]
          /\ reports' \in [Tasks -> Nat]
          /\ streak' \in [Tasks -> 0..(RetryLimit + 1)]
      <3>1. CASE op.step = "access" /\ Policy[op.task] \in {"collect", "first"}
        <4>1. /\ Deliver(op)
              /\ streak' = [streak EXCEPT ![op.task] = 0]
              /\ \/ queue' = Tail(queue) \o AccessRest(op)
                 \/ queue' = Tail(queue) \o <<>>
          BY <1>4, <3>1 DEF Fail
        <4>2. queue' \in Seq(Fitting)  BY <2>1, <4>1, NextType, OneOrNone, QueueType
        <4>3. streak' \in [Tasks -> 0..(RetryLimit + 1)]
          BY <2>1, <4>1, TaskAssumption DEF TypeInv, TypeOK
        <4> QED  BY <2>1, <4>1, <4>2, <4>3, DeliverType
      <3>2. CASE ~(op.step = "access" /\ Policy[op.task] \in {"collect", "first"})
        <4>1. /\ UNCHANGED <<delivered, reports>>
              /\ streak' = [streak EXCEPT ![op.task] = IF @ > RetryLimit THEN @ ELSE @ + 1]
              /\ queue' = Tail(queue) \o AfterFailure(op)
          BY <1>4, <3>2 DEF Fail
        <4>2. queue' \in Seq(Fitting)  BY <2>1, <4>1, NextType, QueueType
        <4>3. streak' \in [Tasks -> 0..(RetryLimit + 1)]
          BY <2>1, <4>1, TaskAssumption DEF TypeInv, TypeOK
        <4> QED  BY <4>1, <4>2, <4>3 DEF TypeInv, TypeOK
      <3> QED  BY <3>1, <3>2
    <2> QED  BY <1>4, <2>0, <2>2, <2>3 DEF Fail, TypeInv, TypeOK
  <1>5. CASE UNCHANGED vars  BY <1>5 DEF vars, TypeInv, TypeOK, Fitting, Fits
  <1> QED  BY <1>2, <1>3, <1>4, <1>5 DEF Next

LEMMA TypeStarts == Init => TypeInv
  BY TaskAssumption, EmptySeq DEF Init, TypeInv, TypeOK

\* Whatever is accessed, retried or given up, every variable has its type, and a page is
\* selected only for a variable that has one.
THEOREM TypeCorrect == Spec => []TypeOK
  <1>1. TypeInv => TypeOK  BY DEF TypeInv
  <1> QED  BY <1>1, TypeStarts, TypeStep, PTL DEF Spec

-----------------------------------------------------------------------------
(* The steps, as the list of a task sees them.                               *)

\* The first operation is queued again, as a retry or because the page is selected.
Again(op, o) ==
    /\ queue' = Tail(queue) \o <<o>>
    /\ o.task = op.task /\ o.variable = op.variable /\ o.rest = op.rest
    /\ streak' = [streak EXCEPT ![op.task] = o.retries]
    /\ UNCHANGED <<delivered, reports>>

\* The callback gets a result, and the list goes on or ends.
Told(op) ==
    /\ Deliver(op)
    /\ streak' = [streak EXCEPT ![op.task] = 0]
    /\ \/ queue' = Tail(queue) \o AccessRest(op) /\ Policy[op.task] # "first"
       \/ queue' = Tail(queue) \o <<>> /\ Policy[op.task] = "first"

\* The last retry failed.
GivenUp(op) ==
    /\ queue' = Tail(queue) \o <<>>
    /\ streak' = [streak EXCEPT ![op.task] = RetryLimit + 1]
    /\ UNCHANGED <<delivered, reports>>

\* There are no other steps of an operation.
LEMMA StepKinds ==
    ASSUME OneNumberSelects, TypeInv, Succeed \/ Fail, queue # <<>>,
           GoesOn(Head(queue))
    PROVE  \/ \E o \in Fitting : Again(Head(queue), o)
           \/ Told(Head(queue))
           \/ GivenUp(Head(queue))
  <1> DEFINE op == Head(queue)
  <1>1. op \in Fitting /\ op.step \in {"bank", "access"} /\ op.task \in Tasks
        /\ op.retries \in 0 .. RetryLimit
    <2>1. op \in Fitting  BY FirstType
    <2>2. Page[op.variable].space # "Extended"  BY <2>1, OperationType DEF OneNumberSelects
    <2> QED  BY <2>1, <2>2, OperationType DEF Fitting, Fits
  <1>2. CASE Succeed /\ op.step = "bank"
    <2>1. PICK o \in Fitting :
              /\ Then(op, "access") = <<o>> /\ o.retries = 0
              /\ o.task = op.task /\ o.variable = op.variable /\ o.rest = op.rest
      BY <1>1, ThenType
    <2>2. AfterSuccess(op) = Then(op, "access")  BY <1>2 DEF AfterSuccess
    <2>3. Again(op, o)  BY <1>2, <2>1, <2>2 DEF Succeed, Again
    <2> QED  BY <2>3
  <1>3. CASE Succeed /\ op.step = "access"
    <2>1. AfterSuccess(op) = IF Policy[op.task] = "first" THEN <<>> ELSE AccessRest(op)
      BY <1>3 DEF AfterSuccess
    <2> QED  BY <1>3, <2>1 DEF Succeed, Told
  <1>4. CASE Fail /\ op.step = "access" /\ Policy[op.task] \in {"collect", "first"}
    BY <1>4 DEF Fail, Told
  <1>5. CASE Fail /\ ~(op.step = "access" /\ Policy[op.task] \in {"collect", "first"})
    <2>1. /\ UNCHANGED <<delivered, reports>>
          /\ streak' = [streak EXCEPT ![op.task] = IF @ > RetryLimit THEN @ ELSE @ + 1]
          /\ queue' = Tail(queue) \o AfterFailure(op)
      BY <1>5 DEF Fail
    <2>2. streak[op.task] = op.retries  BY DEF GoesOn
    <2>3. streak' = [streak EXCEPT ![op.task] = op.retries + 1]
      <3>1. (IF streak[op.task] > RetryLimit THEN streak[op.task] ELSE streak[op.task] + 1)
                = op.retries + 1
        BY <1>1, <2>2, TaskAssumption
      <3> QED  BY <2>1, <3>1, Zenon
    <2>4. CASE op.retries = RetryLimit /\ AfterFailure(op) = <<>>
      BY <2>1, <2>3, <2>4 DEF GivenUp
    <2>5. CASE \E o \in Fitting :
                 /\ AfterFailure(op) = <<o>>
                 /\ o.step = op.step /\ o.retries = op.retries + 1
                 /\ o.task = op.task /\ o.variable = op.variable /\ o.rest = op.rest
      BY <2>1, <2>3, <2>5 DEF Again
    <2> QED  BY <1>1, <2>4, <2>5, RetryType
  <1> QED  BY <1>1, <1>2, <1>3, <1>4, <1>5

\* What the queue holds after a step: the others, and what follows the first one.
LEMMA QueueAfter ==
    ASSUME TypeInv, queue # <<>>, NEW next \in Seq(Fitting), Len(next) <= 1,
           queue' = Tail(queue) \o next
    PROVE  /\ Len(queue') = Len(queue) - 1 + Len(next)
           /\ DOMAIN queue' = 1 .. Len(queue) - 1 + Len(next)
           /\ \A i \in 1 .. Len(queue) - 1 : queue'[i] = queue[i + 1]
           /\ next # <<>> => Len(next) = 1 /\ queue'[Len(queue)] = next[1]
  <1> DEFINE tail == Tail(queue)
  <1>1. /\ tail \in Seq(Fitting) /\ Len(tail) = Len(queue) - 1
        /\ Len(queue) \in Nat \ {0}
        /\ \A i \in 1 .. Len(queue) - 1 : tail[i] = queue[i + 1]
    BY FirstType, HeadTailProperties DEF TypeInv
  <1>2. Len(next) \in Nat /\ (next # <<>> => Len(next) = 1)
    <2>1. Len(next) \in Nat  BY LenProperties
    <2>2. next # <<>> => Len(next) \in Nat \ {0}  BY EmptySeq
    <2>3. \A n \in Nat \ {0} : n <= 1 => n = 1  OBVIOUS
    <2> QED  BY <2>1, <2>2, <2>3
  <1>3. /\ queue' \in Seq(Fitting) /\ Len(queue') = Len(tail) + Len(next)
        /\ \A i \in 1 .. Len(tail) + Len(next) :
               queue'[i] = IF i <= Len(tail) THEN tail[i] ELSE next[i - Len(tail)]
    BY <1>1, ConcatProperties
  <1>4. DOMAIN queue' = 1 .. Len(queue')  BY <1>3, LenProperties
  <1> HIDE DEF tail
  <1>5. Len(queue') = Len(queue) - 1 + Len(next)  BY <1>1, <1>3
  <1>6. \A i \in 1 .. Len(queue) - 1 : queue'[i] = queue[i + 1]  BY <1>1, <1>2, <1>3
  <1>7. next # <<>> => Len(next) = 1 /\ queue'[Len(queue)] = next[1]
    <2> SUFFICES ASSUME next # <<>> PROVE Len(next) = 1 /\ queue'[Len(queue)] = next[1]
      OBVIOUS
    <2>1. Len(next) = 1  BY <1>2
    <2>2. /\ Len(queue) \in 1 .. Len(tail) + Len(next) /\ ~(Len(queue) <= Len(tail))
          /\ Len(queue) - Len(tail) = 1
      BY <1>1, <2>1
    <2> QED  BY <1>3, <2>1, <2>2
  <1> QED  BY <1>4, <1>5, <1>6, <1>7

\* A sequence has as many different elements as it is long, or less.
LEMMA ElementsOfSeq ==
    ASSUME NEW S, NEW s \in Seq(S)
    PROVE  Cardinality(ToSet(s)) \in Nat /\ Cardinality(ToSet(s)) <= Len(s)
  <1>1. /\ s \in [1 .. Len(s) -> ToSet(s)] /\ Len(s) \in Nat
        /\ \A e \in ToSet(s) : \E i \in 1 .. Len(s) : s[i] = e
    BY LenProperties DEF ToSet
  <1>2. s \in Surjection(1 .. Len(s), ToSet(s))  BY <1>1 DEF Surjection
  <1>3. IsFiniteSet(1 .. Len(s)) /\ Cardinality(1 .. Len(s)) = Len(s)
    <2>1. 1 \in Int /\ Len(s) \in Int  BY <1>1
    <2>2. /\ IsFiniteSet(1 .. Len(s))
          /\ Cardinality(1 .. Len(s)) = IF 1 > Len(s) THEN 0 ELSE Len(s) - 1 + 1
      BY <2>1, FS_Interval
    <2> QED  BY <1>1, <2>2
  <1>4. IsFiniteSet(ToSet(s)) /\ Cardinality(ToSet(s)) <= Len(s)
    BY <1>2, <1>3, FS_Surjection
  <1> QED  BY <1>4, FS_CardinalityType

-----------------------------------------------------------------------------
(* The results come in order.                                                *)

\* A step keeps the chains when it keeps the one of the first operation.
LEMMA ChainStep ==
    ASSUME TypeInv, ChainInv, queue # <<>>, UNCHANGED started,
           NEW op, op = Head(queue),
           NEW next \in Seq(Fitting), Len(next) <= 1, queue' = Tail(queue) \o next,
           \A t \in Tasks \ {op.task} :
               UNCHANGED <<delivered[t], reports[t], streak[t]>>,
           next # <<>> => next[1].task = op.task /\ GoesOn(next[1])',
           next = <<>> => Ended(op.task)',
           DeliveredSoFar(op.task)', ReportedWhenDone(op.task)'
    PROVE  ChainInv'
  <1>1. /\ op \in Fitting /\ op = queue[1] /\ op.task \in Tasks /\ op.task \in started
        /\ Len(queue) \in Nat \ {0} /\ DOMAIN queue = 1 .. Len(queue)
    BY FirstType, OperationType
  <1>2. \A i \in 1 .. Len(queue) - 1 :
            /\ queue'[i] = queue[i + 1] /\ i + 1 \in DOMAIN queue
            /\ queue[i + 1].task \in Tasks \ {op.task}
    <2> TAKE i \in 1 .. Len(queue) - 1
    <2>1. i + 1 \in DOMAIN queue /\ i + 1 # 1 /\ 1 \in DOMAIN queue  BY <1>1
    <2>2. queue[i + 1] \in Fitting  BY <1>1, <2>1, ElementOfSeq DEF TypeInv
    <2>3. queue[i + 1].task # op.task  BY <1>1, <2>1 DEF ChainInv, OneEach
    <2> QED  BY <2>1, <2>2, <2>3, QueueAfter, OperationType
  <1>3. \A i \in DOMAIN queue' :
            \/ i \in 1 .. Len(queue) - 1
            \/ i = Len(queue) /\ next # <<>> /\ queue'[i] = next[1]
    <2>1. Len(next) \in Nat /\ (next = <<>> => Len(next) = 0)
      BY LenProperties, EmptySeq
    <2>2. DOMAIN queue' = 1 .. Len(queue) - 1 + Len(next)
          /\ (next # <<>> => Len(next) = 1 /\ queue'[Len(queue)] = next[1])
      BY QueueAfter
    <2> QED  BY <1>1, <2>1, <2>2
  <1>4. OneEach'
    <2> SUFFICES ASSUME NEW i \in DOMAIN queue', NEW j \in DOMAIN queue',
                        queue'[i].task = queue'[j].task
                 PROVE  i = j
      BY DEF OneEach
    <2>1. CASE i \in 1 .. Len(queue) - 1 /\ j \in 1 .. Len(queue) - 1
      <3>1. i + 1 = j + 1  BY <1>2, <2>1 DEF ChainInv, OneEach
      <3> QED  BY <2>1, <3>1
    <2>2. CASE i \in 1 .. Len(queue) - 1 /\ ~(j \in 1 .. Len(queue) - 1)
      BY <1>2, <1>3, <2>2
    <2>3. CASE ~(i \in 1 .. Len(queue) - 1) /\ j \in 1 .. Len(queue) - 1
      BY <1>2, <1>3, <2>3
    <2>4. CASE ~(i \in 1 .. Len(queue) - 1) /\ ~(j \in 1 .. Len(queue) - 1)
      BY <1>3, <2>4
    <2> QED  BY <2>1, <2>2, <2>3, <2>4
  <1>5. (\A i \in DOMAIN queue : GoesOn(queue[i]))'
    <2>1. ASSUME NEW o, o.task \in Tasks \ {op.task}, GoesOn(o) PROVE GoesOn(o)'
      BY <2>1 DEF GoesOn
    <2> SUFFICES ASSUME NEW i \in DOMAIN queue' PROVE GoesOn(queue[i])'
      OBVIOUS
    <2>2. CASE i \in 1 .. Len(queue) - 1
      <3>1. PICK o : o = queue[i + 1]  OBVIOUS
      <3>2. GoesOn(o) /\ o.task \in Tasks \ {op.task}  BY <1>2, <2>2, <3>1 DEF ChainInv
      <3>3. GoesOn(o)'  BY <2>1, <3>2
      <3>4. queue'[i] = o  BY <1>2, <2>2, <3>1
      <3> QED  BY <3>3, <3>4 DEF GoesOn
    <2>3. CASE i = Len(queue) /\ next # <<>> /\ queue'[i] = next[1]
      BY <2>3 DEF GoesOn
    <2> QED  BY <1>3, <2>2, <2>3
  <1>6. (\A t \in Tasks : DeliveredSoFar(t) /\ ReportedWhenDone(t))'
    <2> SUFFICES ASSUME NEW t \in Tasks PROVE DeliveredSoFar(t)' /\ ReportedWhenDone(t)'
      OBVIOUS
    <2>1. CASE t = op.task  BY <2>1
    <2>2. CASE t # op.task
      BY <2>2 DEF ChainInv, DeliveredSoFar, ReportedWhenDone
    <2> QED  BY <2>1, <2>2
  <1>7. (\A t \in Tasks \ started : NotYet(t))'
    BY <1>1 DEF ChainInv, NotYet
  <1>8. GivesUpLate'
    <2> SUFFICES ASSUME NEW t \in started', t \notin TasksIn(queue') PROVE Ended(t)'
      BY DEF GivesUpLate, Ended
    <2>0. t \in Tasks /\ t \in started  BY DEF TypeInv, TypeOK
    <2>1. CASE t = op.task
      <3>1. next = <<>>
        <4> SUFFICES ASSUME next # <<>> PROVE FALSE
          OBVIOUS
        <4>1. Len(queue) \in DOMAIN queue' /\ queue'[Len(queue)] = next[1]
          BY <1>1, QueueAfter
        <4> QED  BY <2>1, <4>1 DEF TasksIn
      <3> QED  BY <2>1, <3>1
    <2>2. CASE t # op.task
      <3>1. t \notin TasksIn(queue)
        <4> SUFFICES ASSUME NEW i \in DOMAIN queue, queue[i].task = t PROVE FALSE
          BY DEF TasksIn
        <4>1. i # 1 /\ i \in 1 .. Len(queue)  BY <1>1, <2>2
        <4>2. i - 1 \in 1 .. Len(queue) - 1 /\ (i - 1) + 1 = i  BY <1>1, <4>1
        <4>3. queue'[i - 1] = queue[i]  BY <1>2, <4>2
        <4>4. i - 1 \in DOMAIN queue'
          <5>1. DOMAIN queue' = 1 .. Len(queue) - 1 + Len(next) /\ Len(next) \in Nat
            BY QueueAfter, LenProperties
          <5> QED  BY <1>1, <4>2, <5>1
        <4> QED  BY <4>3, <4>4 DEF TasksIn
      <3>2. Ended(t)  BY <2>0, <3>1 DEF ChainInv, GivesUpLate, Ended
      <3> QED  BY <2>0, <2>2, <3>2 DEF Ended
    <2> QED  BY <2>1, <2>2
  <1> QED  BY <1>4, <1>5, <1>6, <1>7, <1>8 DEF ChainInv

\* A sequence of one operation.
LEMMA OneSeq ==
    ASSUME NEW o \in Fitting
    PROVE  /\ <<o>> \in Seq(Fitting) /\ <<o>> # <<>>
           /\ Len(<<o>>) = 1 /\ Len(<<o>>) <= 1 /\ <<o>>[1] = o
  OBVIOUS

LEMMA AgainKeeps ==
    ASSUME TypeInv, ChainInv, queue # <<>>, UNCHANGED started,
           NEW op, op = Head(queue), NEW o \in Fitting, Again(op, o)
    PROVE  ChainInv'
  <1>1. op = queue[1] /\ 1 \in DOMAIN queue /\ op.task \in Tasks
    BY FirstType, OperationType
  <1>2. GoesOn(op) /\ DeliveredSoFar(op.task) /\ ReportedWhenDone(op.task)
    BY <1>1 DEF ChainInv
  <1>3. /\ UNCHANGED <<delivered, reports>>
        /\ streak'[op.task] = o.retries
        /\ \A t \in Tasks \ {op.task} : streak'[t] = streak[t]
    BY <1>1 DEF Again, TypeInv, TypeOK
  <1>4. GoesOn(o)'  BY <1>2, <1>3 DEF GoesOn, Again
  <1>5. DeliveredSoFar(op.task)' /\ ReportedWhenDone(op.task)'
    BY <1>2, <1>3 DEF DeliveredSoFar, ReportedWhenDone
  <1>6. o.task = op.task /\ queue' = Tail(queue) \o <<o>>  BY DEF Again
  <1>7. PICK next : next = <<o>>  OBVIOUS
  <1>8. next \in Seq(Fitting) /\ next # <<>> /\ Len(next) <= 1 /\ next[1] = o
    BY <1>7, OneSeq
  <1> QED  BY <1>3, <1>4, <1>5, <1>6, <1>7, <1>8, ChainStep

\* What Deliver() appends is the next variable of the list.
LEMMA ToldInOrder ==
    ASSUME TypeInv, ChainInv, queue # <<>>, NEW op, op = Head(queue), Told(op)
    PROVE  /\ Len(delivered'[op.task]) = Len(delivered[op.task]) + 1
           /\ DeliveredSoFar(op.task)' /\ ReportedWhenDone(op.task)'
           /\ \A t \in Tasks \ {op.task} : UNCHANGED <<delivered[t], reports[t], streak[t]>>
           /\ streak'[op.task] = 0
  <1> DEFINE t == op.task
             n == Len(delivered[t])
             list == Variables[t]
             l == Len(list)
             m == Len(op.rest)
  <1>1. op \in Fitting /\ op = queue[1] /\ 1 \in DOMAIN queue /\ t \in Tasks
        /\ op.variable \in DOMAIN Page /\ op.rest \in Seq(DOMAIN Page)
    BY FirstType, OperationType
  <1>2. /\ n + 1 + m = l /\ op.variable = list[n + 1]
        /\ \A i \in 1 .. n : delivered[t][i] = list[i]
        /\ reports[t] = 0 \/ (reports[t] = 1 /\ n = l)
    <2>1. n + 1 + m = l /\ op.variable = list[n + 1]  BY <1>1 DEF ChainInv, GoesOn
    <2>2. \A i \in 1 .. n : delivered[t][i] = list[i]  BY <1>1 DEF ChainInv, DeliveredSoFar
    <2>3. reports[t] = 0 \/ (reports[t] = 1 /\ n = l)
      BY <1>1 DEF ChainInv, ReportedWhenDone
    <2> QED  BY <2>1, <2>2, <2>3
  <1>3. /\ delivered \in [Tasks -> Seq(DOMAIN Page)] /\ delivered[t] \in Seq(DOMAIN Page)
        /\ n \in Nat /\ l \in Nat /\ m \in Nat
    BY <1>1, ListType, LenProperties DEF TypeInv, TypeOK
  <1>a. DeliveredSoFar(t)' <=> (/\ Len(delivered'[t]) <= l
                                /\ \A i \in 1 .. Len(delivered'[t]) : delivered'[t][i] = list[i])
    BY DEF DeliveredSoFar
  <1>b. ReportedWhenDone(t)' <=> (\/ reports'[t] = 0
                                  \/ reports'[t] = 1 /\ Len(delivered'[t]) = l)
    BY DEF ReportedWhenDone
  <1>4. /\ delivered'[t] = Append(delivered[t], op.variable)
        /\ \A u \in Tasks \ {t} : delivered'[u] = delivered[u]
    BY <1>1, <1>3 DEF Told, Deliver
  <1>5. /\ delivered'[t] \in Seq(DOMAIN Page) /\ Len(delivered'[t]) = n + 1
        /\ \A i \in 1 .. n : delivered'[t][i] = delivered[t][i]
        /\ delivered'[t][n + 1] = op.variable
    <2>1. Append(delivered[t], op.variable) \in Seq(DOMAIN Page)
      BY <1>1, <1>3, AppendProperties
    <2>2. /\ Len(Append(delivered[t], op.variable)) = n + 1
          /\ \A i \in 1 .. n : Append(delivered[t], op.variable)[i] = delivered[t][i]
          /\ Append(delivered[t], op.variable)[n + 1] = op.variable
      BY <1>1, <1>3, AppendProperties
    <2> QED  BY <1>4, <2>1, <2>2
  <1>6. /\ \A u \in Tasks \ {t} : reports'[u] = reports[u]
        /\ \/ reports'[t] = reports[t]
           \/ reports'[t] = reports[t] + 1 /\ Cardinality(ToSet(delivered'[t])) = l
    BY <1>1 DEF Told, Deliver, TypeInv, TypeOK
  <1>7. Cardinality(ToSet(delivered'[t])) \in Nat
        /\ Cardinality(ToSet(delivered'[t])) <= n + 1
    BY <1>5, ElementsOfSeq
  <1>8. /\ streak'[t] = 0
        /\ \A u \in Tasks \ {t} : streak'[u] = streak[u]
    BY <1>1 DEF Told, TypeInv, TypeOK
  <1> HIDE DEF n, m, l
  <1>9. n + 1 <= l /\ reports[t] = 0  BY <1>2, <1>3
  <1>10. DeliveredSoFar(t)'
    <2>1. \A i \in 1 .. n + 1 : i \in 1 .. n \/ i = n + 1  BY <1>3
    <2> QED  BY <1>2, <1>5, <1>9, <1>a, <2>1
  <1>11. ReportedWhenDone(t)'
    <2>1. ASSUME NEW c \in Nat, c <= n + 1, c = l PROVE n + 1 = l
      BY <1>3, <1>9, <2>1
    <2>2. reports'[t] = 0 \/ (reports'[t] = 1 /\ n + 1 = l)
      BY <1>6, <1>7, <1>9, <2>1
    <2> QED  BY <1>5, <1>b, <2>2
  <1> USE DEF n
  <1> QED  BY <1>4, <1>5, <1>6, <1>8, <1>10, <1>11

LEMMA ToldKeeps ==
    ASSUME TypeInv, ChainInv, queue # <<>>, UNCHANGED started,
           NEW op, op = Head(queue), Told(op)
    PROVE  ChainInv'
  <1> DEFINE t == op.task
             n == Len(delivered[t])
             list == Variables[t]
             l == Len(list)
             m == Len(op.rest)
  <1>1. op \in Fitting /\ op = queue[1] /\ 1 \in DOMAIN queue /\ t \in Tasks
        /\ op.rest \in Seq(DOMAIN Page) /\ m \in Nat /\ n \in Nat /\ l \in Nat
    BY FirstType, OperationType, ListType, LenProperties DEF TypeInv, TypeOK
  <1>2. /\ n + 1 + m = l /\ \A i \in 1 .. m : op.rest[i] = list[n + 1 + i]
        /\ Policy[t] = "first" => n = 0
    BY <1>1 DEF ChainInv, GoesOn
  <1>3. Len(delivered'[t]) = n + 1 /\ streak'[t] = 0  BY ToldInOrder
  <1>4. CASE Policy[t] = "first"
    <2>1. PICK next : next = <<>>  OBVIOUS
    <2>2. next \in Seq(Fitting) /\ Len(next) <= 1  BY <2>1, EmptySeq
    <2>3. queue' = Tail(queue) \o next  BY <1>4, <2>1 DEF Told
    <2>4. Ended(t)'  BY <1>2, <1>3, <1>4 DEF Ended
    <2> QED  BY <2>1, <2>2, <2>3, <2>4, ToldInOrder, ChainStep
  <1>5. CASE Policy[t] # "first" /\ op.rest = <<>>
    <2>1. PICK next : next = <<>>  OBVIOUS
    <2>2. next \in Seq(Fitting) /\ Len(next) <= 1  BY <2>1, EmptySeq
    <2>3. queue' = Tail(queue) \o next  BY <1>5, <2>1 DEF Told, AccessRest
    <2>4. Ended(t)'
      <3>1. m = 0  BY <1>5, EmptySeq
      <3>2. Ended(t)' <=> \/ Len(delivered'[t]) = l
                          \/ Policy[t] = "first" /\ Len(delivered'[t]) = 1
                          \/ streak'[t] = RetryLimit + 1
        BY DEF Ended
      <3> HIDE DEF l, m, n
      <3>3. n + 1 = l  BY <1>1, <1>2, <3>1
      <3> QED  BY <1>3, <3>2, <3>3
    <2> QED  BY <2>1, <2>2, <2>3, <2>4, ToldInOrder, ChainStep
  <1>6. CASE Policy[t] # "first" /\ op.rest # <<>>
    <2>1. PICK o \in Fitting :
              /\ AccessRest(op) = <<o>> /\ o.retries = 0 /\ o.task = t
              /\ o.variable = op.rest[1] /\ o.rest = Tail(op.rest)
      BY <1>1, <1>6, RestType
    <2>2. PICK next : next = <<o>>  OBVIOUS
    <2>3. next \in Seq(Fitting) /\ next # <<>> /\ Len(next) <= 1 /\ next[1] = o
      BY <2>2, OneSeq
    <2>4. queue' = Tail(queue) \o next  BY <1>6, <2>1, <2>2 DEF Told
    <2>5. GoesOn(o)'
      <3> DEFINE k == Len(o.rest)
      <3>1. /\ m \in Nat \ {0} /\ k = m - 1
            /\ \A i \in 1 .. k : o.rest[i] = op.rest[i + 1]
        BY <1>1, <1>6, <2>1, EmptySeq, HeadTailProperties
      <3>2. GoesOn(o)' <=> /\ Len(delivered'[t]) + 1 + k = l
                           /\ o.variable = list[Len(delivered'[t]) + 1]
                           /\ \A i \in 1 .. k : o.rest[i] = list[Len(delivered'[t]) + 1 + i]
                           /\ streak'[t] = o.retries
                           /\ Policy[t] = "first" => Len(delivered'[t]) = 0
        BY <2>1 DEF GoesOn
      <3> HIDE DEF l, m, n, k, t, list
      <3>3. (n + 1) + 1 + k = l  BY <1>1, <1>2, <3>1
      <3>4. o.variable = list[(n + 1) + 1]  BY <1>1, <1>2, <2>1, <3>1
      <3>5. ASSUME NEW i \in 1 .. k PROVE o.rest[i] = list[(n + 1) + 1 + i]
        <4>1. i + 1 \in 1 .. m /\ n + 1 + (i + 1) = (n + 1) + 1 + i
          BY <1>1, <3>1
        <4> QED  BY <1>2, <3>1, <4>1
      <3> QED  BY <1>3, <1>6, <2>1, <3>2, <3>3, <3>4, <3>5
    <2> QED  BY <2>1, <2>3, <2>4, <2>5, ToldInOrder, ChainStep
  <1> QED  BY <1>4, <1>5, <1>6

LEMMA GivenUpKeeps ==
    ASSUME TypeInv, ChainInv, queue # <<>>, UNCHANGED started,
           NEW op, op = Head(queue), GivenUp(op)
    PROVE  ChainInv'
  <1>1. op = queue[1] /\ 1 \in DOMAIN queue /\ op.task \in Tasks
    BY FirstType, OperationType
  <1>2. DeliveredSoFar(op.task) /\ ReportedWhenDone(op.task)  BY <1>1 DEF ChainInv
  <1>3. /\ UNCHANGED <<delivered, reports>>
        /\ streak'[op.task] = RetryLimit + 1
        /\ \A t \in Tasks \ {op.task} : streak'[t] = streak[t]
    BY <1>1 DEF GivenUp, TypeInv, TypeOK
  <1>4. DeliveredSoFar(op.task)' /\ ReportedWhenDone(op.task)' /\ Ended(op.task)'
    BY <1>2, <1>3 DEF DeliveredSoFar, ReportedWhenDone, Ended
  <1>5. PICK next : next = <<>>  OBVIOUS
  <1>6. next \in Seq(Fitting) /\ Len(next) <= 1  BY <1>5, EmptySeq
  <1>7. queue' = Tail(queue) \o next  BY <1>5 DEF GivenUp
  <1> QED  BY <1>3, <1>4, <1>5, <1>6, <1>7, ChainStep

\* A call queues its chain behind the others.
LEMMA StartKeeps ==
    ASSUME TypeInv, ChainInv, NEW t \in Tasks, Start(t)
    PROVE  ChainInv'
  <1> DEFINE list == Variables[t]
  <1>1. PICK o : o = Access(t, list)  OBVIOUS
  <1>2. /\ o \in Operation /\ Fits(o) /\ o.task = t /\ o.retries = 0
        /\ o.variable = list[1] /\ o.rest = Tail(list)
    <2>1. list \in Seq(DOMAIN Page) /\ list # <<>>  BY ListType
    <2> HIDE DEF list
    <2>2. /\ Access(t, list) \in Operation /\ Fits(Access(t, list))
          /\ Access(t, list).task = t /\ Access(t, list).retries = 0
          /\ Access(t, list).variable = list[1] /\ Access(t, list).rest = Tail(list)
      BY <2>1, AccessType
    <2> QED  BY <1>1, <2>2
  <1>3. /\ queue' = Append(queue, o) /\ t \notin started /\ started' = started \union {t}
        /\ UNCHANGED <<delivered, reports, streak>>
    BY <1>1 DEF Start
  <1>4. PICK n : n = Len(queue)  OBVIOUS
  <1>5. /\ n \in Nat /\ DOMAIN queue = 1 .. n /\ DOMAIN queue' = 1 .. n + 1
        /\ \A i \in 1 .. n : queue'[i] = queue[i]
        /\ queue'[n + 1] = o
    <2>1. queue \in Seq(Operation)  BY DEF TypeInv, TypeOK
    <2>2. /\ Append(queue, o) \in Seq(Operation) /\ Len(Append(queue, o)) = n + 1
          /\ \A i \in 1 .. n : Append(queue, o)[i] = queue[i]
          /\ Append(queue, o)[n + 1] = o
      BY <1>2, <1>4, <2>1, AppendProperties
    <2> QED  BY <1>3, <1>4, <2>1, <2>2, LenProperties
  <1>6. \A i \in DOMAIN queue : queue[i].task # t
    BY <1>3, <1>4, <1>5, ElementOfSeq DEF TypeInv, Fitting
  <1>7. \A i \in DOMAIN queue' : i \in DOMAIN queue \/ (i = n + 1 /\ i \notin DOMAIN queue)
    BY <1>5
  <1>8. OneEach'  BY <1>2, <1>5, <1>6, <1>7 DEF ChainInv, OneEach
  <1>9. GoesOn(o)'
    <2>1. NotYet(t)  BY <1>3 DEF ChainInv
    <2>2. PICK l : l = Len(list)  OBVIOUS
    <2>3. /\ l \in Nat \ {0} /\ Len(o.rest) = l - 1
          /\ \A i \in 1 .. l - 1 : o.rest[i] = list[i + 1]
      BY <1>2, <2>2, ListType, HeadTailProperties
    <2>4. delivered'[t] = <<>> /\ Len(delivered'[t]) = 0 /\ streak'[t] = 0
      BY <1>3, <2>1, EmptySeq DEF NotYet
    <2>5. 0 + 1 + (l - 1) = l /\ 0 + 1 = 1 /\ \A i \in 1 .. l - 1 : 0 + 1 + i = i + 1
      BY <2>3
    <2> QED  BY <1>2, <2>2, <2>3, <2>4, <2>5 DEF GoesOn
  <1>10. (\A i \in DOMAIN queue : GoesOn(queue[i]))'
    <2> SUFFICES ASSUME NEW i \in DOMAIN queue' PROVE GoesOn(queue[i])'
      OBVIOUS
    <2>1. CASE i \in DOMAIN queue
      <3>1. GoesOn(queue[i]) /\ queue'[i] = queue[i]  BY <1>5, <2>1 DEF ChainInv
      <3> QED  BY <1>3, <3>1 DEF GoesOn
    <2>2. CASE i = n + 1  BY <1>5, <1>9, <2>2 DEF GoesOn
    <2> QED  BY <1>7, <2>1, <2>2
  <1>11. (\A u \in Tasks : DeliveredSoFar(u) /\ ReportedWhenDone(u))'
    BY <1>3 DEF ChainInv, DeliveredSoFar, ReportedWhenDone
  <1>12. (\A u \in Tasks \ started : NotYet(u))'
    BY <1>3 DEF ChainInv, NotYet
  <1>13. GivesUpLate'
    <2> SUFFICES ASSUME NEW u \in started', u \notin TasksIn(queue') PROVE Ended(u)'
      BY DEF GivesUpLate, Ended
    <2>1. u # t  BY <1>2, <1>5 DEF TasksIn
    <2>2. u \in started /\ u \notin TasksIn(queue)  BY <1>3, <1>5, <2>1 DEF TasksIn
    <2>3. Ended(u)  BY <2>2 DEF ChainInv, GivesUpLate, Ended
    <2> QED  BY <1>3, <2>3 DEF Ended
  <1> QED  BY <1>8, <1>10, <1>11, <1>12, <1>13 DEF ChainInv

LEMMA ChainKept == OneNumberSelects /\ TypeInv /\ ChainInv /\ [Next]_vars => ChainInv'
  <1> SUFFICES ASSUME OneNumberSelects, TypeInv, ChainInv, [Next]_vars PROVE ChainInv'
    OBVIOUS
  <1>1. CASE \E t \in Tasks : Start(t)  BY <1>1, StartKeeps
  <1>2. CASE Succeed \/ Fail
    <2>1. queue # <<>> /\ UNCHANGED started  BY <1>2 DEF Succeed, Fail
    <2>2. GoesOn(Head(queue))  BY <2>1, FirstType DEF ChainInv
    <2>3. PICK op : op = Head(queue)  OBVIOUS
    <2>4. (\E o \in Fitting : Again(op, o)) \/ Told(op) \/ GivenUp(op)
      BY <1>2, <2>1, <2>2, <2>3, StepKinds
    <2> QED  BY <2>1, <2>3, <2>4, AgainKeeps, ToldKeeps, GivenUpKeeps
  <1>3. CASE UNCHANGED vars
    <2>1. UNCHANGED <<queue, started, delivered, reports, streak>>  BY <1>3 DEF vars
    <2>2. OneEach'  BY <2>1 DEF ChainInv, OneEach
    <2>3. (\A i \in DOMAIN queue : GoesOn(queue[i]))'  BY <2>1 DEF ChainInv, GoesOn
    <2>4. (\A t \in Tasks : DeliveredSoFar(t) /\ ReportedWhenDone(t))'
      BY <2>1 DEF ChainInv, DeliveredSoFar, ReportedWhenDone
    <2>5. (\A t \in Tasks \ started : NotYet(t))'  BY <2>1 DEF ChainInv, NotYet
    <2>6. GivesUpLate'  BY <2>1 DEF ChainInv, GivesUpLate, TasksIn
    <2> QED  BY <2>2, <2>3, <2>4, <2>5, <2>6 DEF ChainInv
  <1> QED  BY <1>1, <1>2, <1>3 DEF Next

LEMMA ChainStarts == Init => ChainInv
  <1> SUFFICES ASSUME Init PROVE ChainInv
    OBVIOUS
  <1>1. DOMAIN queue = {} /\ started = {}  BY DEF Init
  <1>2. \A t \in Tasks : DeliveredSoFar(t) /\ ReportedWhenDone(t) /\ NotYet(t)
    <2> TAKE t \in Tasks
    <2>1. /\ delivered[t] = <<>> /\ Len(delivered[t]) = 0 /\ reports[t] = 0 /\ streak[t] = 0
          /\ Len(Variables[t]) \in Nat
      BY ListType, EmptySeq DEF Init
    <2> QED  BY <2>1 DEF DeliveredSoFar, ReportedWhenDone, NotYet
  <1> QED  BY <1>1, <1>2 DEF ChainInv, OneEach, GivesUpLate

\* What was delivered is the beginning of the list, and nobody reports twice.
LEMMA ChainsAreInOrder == TypeInv /\ ChainInv => ResultsInOrder
  <1> SUFFICES ASSUME TypeInv, ChainInv PROVE ResultsInOrder
    OBVIOUS
  <1>1. ASSUME NEW t \in Tasks PROVE IsPrefix(delivered[t], Variables[t]) /\ reports[t] <= 1
    <2> DEFINE s == delivered[t]
               list == Variables[t]
    <2>1. /\ s \in Seq(DOMAIN Page) /\ list \in Seq(DOMAIN Page)
          /\ Len(s) \in Nat /\ Len(list) \in Nat
      BY ListType, LenProperties DEF TypeInv, TypeOK
    <2>2. Len(s) <= Len(list) /\ \A i \in 1 .. Len(s) : s[i] = list[i]
      BY DEF ChainInv, DeliveredSoFar
    <2>3. reports[t] <= 1  BY DEF ChainInv, ReportedWhenDone
    <2> HIDE DEF s, list
    <2>4. SubSeq(s, 1, Len(s)) = s  BY <2>1, SubSeqFull
    <2>5. PICK n \in Nat : n = Len(s)  BY <2>1
    <2>6. 1 \in Int /\ n \in Int /\ n - 1 + 1 = n  BY <2>5
    <2>7. \A i \in 1 .. n : list[i] \in DOMAIN Page
      BY <2>1, <2>2, <2>5, ElementOfSeq
    <2>8. /\ SubSeq(list, 1, n) \in Seq(DOMAIN Page)
          /\ Len(SubSeq(list, 1, n)) = IF 1 <= n THEN n - 1 + 1 ELSE 0
          /\ \A i \in 1 .. n - 1 + 1 : SubSeq(list, 1, n)[i] = list[1 + i - 1]
      BY <2>6, <2>7, SubSeqProperties
    <2>9. Len(SubSeq(list, 1, n)) = Len(s)  BY <2>5, <2>6, <2>8
    <2>10. \A i \in 1 .. Len(s) : s[i] = SubSeq(list, 1, n)[i]
      BY <2>2, <2>5, <2>6, <2>8
    <2>11. s = SubSeq(list, 1, n)  BY <2>1, <2>8, <2>9, <2>10, SeqEqual
    <2>12. IsPrefix(s, list)  BY <2>2, <2>4, <2>5, <2>11 DEF IsPrefix
    <2> QED  BY <2>3, <2>12 DEF s, list
  <1> QED  BY <1>1 DEF ResultsInOrder, DeliveredInOrder, ChainInv

\* The results come in the order of the list, one for each variable, are reported together
\* once, and a task gives up only after RetryLimit + 1 failures in a row, however many tasks
\* run at once: readVariableList() and ContinuationCallback::retry(), if no page is
\* selected by two numbers.
THEOREM ResultsAreInOrder == OneNumberSelects => (Spec => []ResultsInOrder)
  <1> DEFINE Inv == OneNumberSelects /\ TypeInv /\ ChainInv
  <1>1. OneNumberSelects /\ Init => Inv  BY TypeStarts, ChainStarts
  <1>2. Inv /\ [Next]_vars => Inv'
    BY TypeStep, ChainKept DEF OneNumberSelects
  <1>3. Inv => ResultsInOrder  BY ChainsAreInOrder
  <1> HIDE DEF Inv
  <1> QED  BY <1>1, <1>2, <1>3, PTL DEF Spec

-----------------------------------------------------------------------------
(* An access finds its page.                                                 *)

\* When the page of an operation is there, or it is still to be selected, so it is for what
\* follows it.
LEMMA PageFollows ==
    ASSUME OneNumberSelects, TypeInv, Succeed \/ Fail, queue # <<>>,
           NEW op, op = Head(queue),
           op.step = "access" => Shown(op.variable) = Page[op.variable].numbers
    PROVE  \/ queue' = Tail(queue) \o <<>>
           \/ \E o \in Fitting :
                /\ queue' = Tail(queue) \o <<o>>
                /\ o.step = "access" => Shown(o.variable)' = Page[o.variable].numbers
  <1>1. op \in Fitting /\ op.step \in {"bank", "access"} /\ op.variable \in DOMAIN Page
        /\ Page[op.variable].space # "Extended"
    <2>1. op \in Fitting  BY FirstType
    <2>2. Page[op.variable].space # "Extended"  BY <2>1, OperationType DEF OneNumberSelects
    <2> QED  BY <2>1, <2>2, OperationType DEF Fitting, Fits
  <1>2. \/ AccessRest(op) = <<>>
        \/ \E o \in Fitting :
             /\ AccessRest(op) = <<o>>
             /\ o.step = "access" => Shown(o.variable)' = Page[o.variable].numbers
    <2>1. CASE AccessRest(op) = <<>>  BY <2>1
    <2>2. CASE AccessRest(op) # <<>>
      <3>1. PICK o \in Fitting :
                /\ AccessRest(op) = <<o>>
                /\ o.step = "access" => Page[o.variable].space = "Basic"
        BY <1>1, <2>2, RestType
      <3>2. ASSUME o.step = "access" PROVE Shown(o.variable)' = Page[o.variable].numbers
        BY <3>1, <3>2, OperationType, PageType DEF Shown
      <3> QED  BY <3>1, <3>2
    <2> QED  BY <2>1, <2>2
  <1>3. CASE Succeed /\ op.step = "bank"
    <2>1. PICK o \in Fitting :
              /\ Then(op, "access") = <<o>> /\ o.variable = op.variable
      BY <1>1, ThenType
    <2>2. queue' = Tail(queue) \o <<o>>  BY <1>3, <2>1 DEF Succeed, AfterSuccess
    <2>3. bank' = Page[op.variable].numbers[1]  BY <1>3 DEF Succeed, Perform
    <2>4. Page[op.variable].space = "Susi"
          /\ Page[op.variable].numbers = <<Page[op.variable].numbers[1]>>
      BY <1>1, <1>3, PageType DEF Fitting, Fits
    <2>5. Shown(o.variable)' = Page[o.variable].numbers
      BY <2>1, <2>3, <2>4 DEF Shown
    <2> QED  BY <2>2, <2>5
  <1>4. CASE Succeed /\ op.step = "access"
    <2>1. AfterSuccess(op) = IF Policy[op.task] = "first" THEN <<>> ELSE AccessRest(op)
      BY <1>4 DEF AfterSuccess
    <2> QED  BY <1>2, <1>4, <2>1 DEF Succeed
  <1>5. CASE Fail /\ op.step = "access" /\ Policy[op.task] \in {"collect", "first"}
    BY <1>2, <1>5 DEF Fail
  <1>6. CASE Fail /\ ~(op.step = "access" /\ Policy[op.task] \in {"collect", "first"})
    <2>1. queue' = Tail(queue) \o AfterFailure(op)  BY <1>6 DEF Fail
    <2>2. CASE AfterFailure(op) = <<>>  BY <2>1, <2>2
    <2>3. CASE AfterFailure(op) # <<>>
      <3>1. PICK o \in Fitting :
                /\ AfterFailure(op) = <<o>>
                /\ o.step = op.step /\ o.variable = op.variable
        BY <1>1, <2>3, RetryType
      <3>2. op.step = "access" => UNCHANGED <<high, low, bank>>
        BY <1>6 DEF Fail, Perform
      <3>3. o.step = "access" => Shown(o.variable)' = Page[o.variable].numbers
        BY <3>1, <3>2 DEF Shown
      <3> QED  BY <2>1, <3>1, <3>3
    <2> QED  BY <2>2, <2>3
  <1> QED  BY <1>1, <1>3, <1>4, <1>5, <1>6

LEMMA PageKept ==
    OneNumberSelects /\ TypeInv /\ ChainInv /\ PageInv /\ [Next]_vars => PageInv'
  <1> SUFFICES ASSUME OneNumberSelects, TypeInv, ChainInv, PageInv, [Next]_vars
               PROVE  PageInv'
    OBVIOUS
  <1>1. ASSUME NEW t \in Tasks, Start(t) PROVE PageInv'
    <2>1. PICK o : o = Access(t, Variables[t])  OBVIOUS
    <2>2. /\ o \in Operation /\ o.task = t
          /\ o.step = "access" => Page[o.variable].space = "Basic"
      <3>1. PICK list : list = Variables[t]  OBVIOUS
      <3>2. list \in Seq(DOMAIN Page) /\ list # <<>>  BY <3>1, ListType
      <3> QED  BY <2>1, <3>1, <3>2, AccessType
    <2>3. queue' = Append(queue, o)  BY <1>1, <2>1 DEF Start
    <2>4. \A u \in Tasks \ started' : touched'[u] = {}
      BY <1>1 DEF Start, PageInv
    <2>5. CASE queue = <<>>
      <3>1. queue' = <<o>>  BY <2>3, <2>5
      <3>2. Len(queue') = 1 /\ DOMAIN queue' = 1 .. 1 /\ queue'[1] = o  BY <3>1
      <3>3. o.step = "access" => Shown(o.variable)' = Page[o.variable].numbers
        BY <2>2, PageType DEF Shown, Operation
      <3>4. \A i \in DOMAIN queue' : queue'[i] = o  BY <3>2
      <3> QED  BY <2>4, <3>2, <3>3, <3>4 DEF PageInv, Shown
    <2>6. CASE queue # <<>>
      <3>1. overlapped' = overlapped \union TasksIn(queue) \union {t}
        BY <1>1, <2>6 DEF Start
      <3>2. \A i \in DOMAIN queue' : queue'[i].task \in overlapped'
        <4>1. queue \in Seq(Operation)  BY DEF TypeInv, TypeOK
        <4>2. \A i \in DOMAIN queue' : (i \in DOMAIN queue /\ queue'[i] = queue[i]) \/ queue'[i] = o
          BY <2>2, <2>3, <4>1, AppendProperties, LenProperties
        <4> QED  BY <2>2, <3>1, <4>2 DEF TasksIn
      <3> QED  BY <2>4, <3>2 DEF PageInv
    <2> QED  BY <2>5, <2>6
  <1>2. ASSUME Succeed \/ Fail PROVE PageInv'
    <2>1. queue # <<>> /\ UNCHANGED <<started, overlapped>>  BY <1>2 DEF Succeed, Fail
    <2>2. PICK op : op = Head(queue)  OBVIOUS
    <2>3. /\ op \in Fitting /\ op = queue[1] /\ 1 \in DOMAIN queue /\ op.task \in started
          /\ op.task \in Tasks /\ Len(queue) \in Nat \ {0} /\ DOMAIN queue = 1 .. Len(queue)
      BY <2>1, <2>2, FirstType, OperationType
    <2>4. \A u \in Tasks \ started' : touched'[u] = {}
      <3>1. \A u \in Tasks \ {op.task} : touched'[u] = touched[u]
        BY <1>2, <2>2, <2>3 DEF Succeed, Fail, Perform, TypeInv, TypeOK
      <3> QED  BY <2>1, <2>3, <3>1 DEF PageInv
    <2>5. \E next \in Seq(Fitting) :
              /\ Len(next) <= 1 /\ queue' = Tail(queue) \o next
              /\ next # <<>> => next[1].task = op.task
      <3>1. GoesOn(op)  BY <2>3 DEF ChainInv
      <3>2. (\E o \in Fitting : Again(op, o)) \/ Told(op) \/ GivenUp(op)
        BY <1>2, <2>1, <2>2, <3>1, StepKinds
      <3>3. <<>> \in Seq(Fitting) /\ Len(<<>>) <= 1  BY EmptySeq
      <3>4. \A o \in Fitting : o.task = op.task /\ queue' = Tail(queue) \o <<o>> =>
                \E next \in Seq(Fitting) :
                    /\ Len(next) <= 1 /\ queue' = Tail(queue) \o next
                    /\ next # <<>> => next[1].task = op.task
        BY OneSeq
      <3>5. CASE \E o \in Fitting : Again(op, o)  BY <3>4, <3>5 DEF Again
      <3>6. CASE Told(op)
        <4>1. CASE queue' = Tail(queue) \o <<>>  BY <3>3, <4>1
        <4>2. CASE queue' = Tail(queue) \o AccessRest(op) /\ AccessRest(op) = <<>>
          BY <3>3, <4>2
        <4>3. CASE queue' = Tail(queue) \o AccessRest(op) /\ AccessRest(op) # <<>>
          <5>1. PICK o \in Fitting : AccessRest(op) = <<o>> /\ o.task = op.task
            BY <2>3, <4>3, RestType
          <5> QED  BY <3>4, <4>3, <5>1
        <4> QED  BY <3>6, <4>1, <4>2, <4>3 DEF Told
      <3>7. CASE GivenUp(op)  BY <3>3, <3>7 DEF GivenUp
      <3> QED  BY <3>2, <3>5, <3>6, <3>7
    <2>6. CASE op.task \in overlapped
      <3>1. PICK next \in Seq(Fitting) :
                /\ Len(next) <= 1 /\ queue' = Tail(queue) \o next
                /\ next # <<>> => next[1].task = op.task
        BY <2>5
      <3>2. \A i \in DOMAIN queue : queue[i].task \in overlapped
        <4>1. CASE Len(queue) = 1  BY <2>3, <2>6, <4>1
        <4>2. CASE Len(queue) # 1  BY <4>2 DEF PageInv
        <4> QED  BY <4>1, <4>2
      <3>3. \A i \in DOMAIN queue' : queue'[i].task \in overlapped
        <4>1. /\ DOMAIN queue' = 1 .. Len(queue) - 1 + Len(next)
              /\ \A i \in 1 .. Len(queue) - 1 : queue'[i] = queue[i + 1]
              /\ next # <<>> => Len(next) = 1 /\ queue'[Len(queue)] = next[1]
          BY <2>1, <3>1, QueueAfter
        <4>2. Len(next) \in Nat /\ (next = <<>> => Len(next) = 0)
          BY LenProperties, EmptySeq
        <4>3. \A i \in DOMAIN queue' :
                  i \in 1 .. Len(queue) - 1 \/ (i = Len(queue) /\ next # <<>>)
          <5>1. \A n \in Nat \ {0}, k \in Nat : \A i \in 1 .. n - 1 + k :
                    i \in 1 .. n - 1 \/ (k = 1 => i = n)
            OBVIOUS
          <5>2. \A n \in Nat \ {0} : n - 1 + 0 = n - 1
            OBVIOUS
          <5> QED  BY <2>3, <4>1, <4>2, <5>1, <5>2
        <4>4. \A i \in 1 .. Len(queue) - 1 : i + 1 \in DOMAIN queue  BY <2>3
        <4> QED  BY <2>6, <3>1, <3>2, <4>1, <4>3, <4>4
      <3> QED  BY <2>1, <2>4, <3>3 DEF PageInv
    <2>7. CASE op.task \notin overlapped
      <3>1. /\ Len(queue) = 1
            /\ op.step = "access" => Shown(op.variable) = Page[op.variable].numbers
        BY <2>3, <2>7 DEF PageInv
      <3>2. Tail(queue) = <<>>
        <4>1. Tail(queue) \in Seq(Fitting) /\ Len(Tail(queue)) = 0
          BY <2>1, <3>1, HeadTailProperties DEF TypeInv
        <4> QED  BY <4>1, EmptySeq
      <3>3. \/ queue' = Tail(queue) \o <<>>
            \/ \E o \in Fitting :
                 /\ queue' = Tail(queue) \o <<o>>
                 /\ o.step = "access" => Shown(o.variable)' = Page[o.variable].numbers
        BY <1>2, <2>1, <2>2, <3>1, PageFollows
      <3>4. CASE queue' = Tail(queue) \o <<>>
        BY <2>4, <3>2, <3>4 DEF PageInv
      <3>5. CASE \E o \in Fitting :
                   /\ queue' = Tail(queue) \o <<o>>
                   /\ o.step = "access" => Shown(o.variable)' = Page[o.variable].numbers
        <4>1. PICK o \in Fitting :
                  /\ queue' = Tail(queue) \o <<o>>
                  /\ o.step = "access" => Shown(o.variable)' = Page[o.variable].numbers
          BY <3>5
        <4>2. queue' = <<o>>  BY <3>2, <4>1, OneSeq, ConcatEmptySeq
        <4>3. Len(queue') = 1 /\ \A i \in DOMAIN queue' : queue'[i] = o  BY <4>2
        <4> QED  BY <2>4, <4>1, <4>3 DEF PageInv, Shown
      <3> QED  BY <3>3, <3>4, <3>5
    <2> QED  BY <2>6, <2>7
  <1>3. CASE UNCHANGED vars  BY <1>3 DEF vars, PageInv, Shown
  <1> QED  BY <1>1, <1>2, <1>3 DEF Next

\* What an access adds to the history of its task is the page it was meant for.
LEMMA OwnPageKept ==
    TypeInv /\ PageInv /\ OwnPageOnly /\ [Next]_vars => OwnPageOnly'
  <1> SUFFICES ASSUME TypeInv, PageInv, OwnPageOnly, [Next]_vars,
                      NEW t \in started' \ overlapped', NEW a \in touched'[t]
               PROVE  a.page = Page[a.variable].numbers
    BY DEF OwnPageOnly
  <1>1. CASE \E u \in Tasks : Start(u)
    <2>1. PICK u \in Tasks : Start(u)  BY <1>1
    <2>2. touched' = touched /\ started' = started \union {u} /\ overlapped \subseteq overlapped'
      BY <2>1 DEF Start
    <2>3. t \in started  BY <2>1, <2>2 DEF Start, PageInv
    <2> QED  BY <2>2, <2>3 DEF OwnPageOnly
  <1>2. CASE Succeed \/ Fail
    <2>1. queue # <<>> /\ UNCHANGED <<started, overlapped>>  BY <1>2 DEF Succeed, Fail
    <2>2. PICK op : op = Head(queue)  OBVIOUS
    <2>3. op = queue[1] /\ 1 \in DOMAIN queue /\ op.task \in Tasks
      BY <2>1, <2>2, FirstType, OperationType
    <2>4. \/ a \in touched[t]
          \/ /\ t = op.task /\ op.step = "access"
             /\ a = [variable |-> op.variable, page |-> Shown(op.variable)]
      <3>1. Perform(op) \/ touched' = touched  BY <1>2, <2>2 DEF Succeed, Fail
      <3>2. touched \in [Tasks -> SUBSET [variable: DOMAIN Page, page: Seq(Nat)]]
            /\ t \in Tasks
        BY <2>1 DEF TypeInv, TypeOK
      <3>3. CASE touched' = touched  BY <3>3
      <3>4. CASE Perform(op) /\ op.step # "access"  BY <3>4 DEF Perform
      <3>5. CASE Perform(op) /\ op.step = "access"
        <4>1. touched' = [touched EXCEPT ![op.task] = @ \union
                              {[variable |-> op.variable, page |-> Shown(op.variable)]}]
          BY <3>5 DEF Perform
        <4> QED  BY <2>3, <3>2, <3>5, <4>1
      <3> QED  BY <3>1, <3>3, <3>4, <3>5
    <2>5. CASE a \in touched[t]  BY <2>1, <2>5 DEF OwnPageOnly
    <2>6. CASE t = op.task /\ op.step = "access"
               /\ a = [variable |-> op.variable, page |-> Shown(op.variable)]
      <3>1. Shown(op.variable) = Page[op.variable].numbers
        BY <2>1, <2>3, <2>6 DEF PageInv
      <3> QED  BY <2>6, <3>1
    <2> QED  BY <2>4, <2>5, <2>6
  <1>3. CASE UNCHANGED vars  BY <1>3 DEF vars, OwnPageOnly
  <1> QED  BY <1>1, <1>2, <1>3 DEF Next

\* Who has the device for itself reads and writes its own page only, whatever fails before
\* and whatever page was left selected: readExtendedVariable(), writeExtendedVariable() and
\* selectPage(), if no page is selected by two numbers.
THEOREM OwnPagesOnly == OneNumberSelects => (Spec => []OwnPageOnly)
  <1> DEFINE Inv == OneNumberSelects /\ TypeInv /\ ChainInv /\ PageInv /\ OwnPageOnly
  <1>1. OneNumberSelects /\ Init => Inv
    BY TypeStarts, ChainStarts DEF Init, PageInv, OwnPageOnly
  <1>2. Inv /\ [Next]_vars => Inv'
    BY TypeStep, ChainKept, PageKept, OwnPageKept DEF OneNumberSelects
  <1>3. Inv => OwnPageOnly  OBVIOUS
  <1> HIDE DEF Inv
  <1> QED  BY <1>1, <1>2, <1>3, PTL DEF Spec
=============================================================================
