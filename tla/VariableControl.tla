-------------------------- MODULE VariableControl --------------------------
(* Reading and writing configuration variables that live on pages:           *)
(* lmrs::core::VariableControl (lmrs/core/device.cpp) and the retries of     *)
(* ContinuationCallback (lmrs/core/continuation.h).                          *)
(*                                                                           *)
(* A decoder shows one page at a time.  An access first writes the page      *)
(* selection, CV31 and CV32 or the SUSI bank CV1021, and the variable after  *)
(* that; each step is issued by the callback of the one before.  The queue   *)
(* of the device works off the operations in order, as the request queues of *)
(* the mx1 and lp2 devices and the mock of tst_variablecontrol.cpp do.  A    *)
(* callback that answers Retry gets its operation repeated at the end of the *)
(* queue, RetryLimit times; then nobody hears of the operation again.        *)
(*                                                                           *)
(* Abstractions.  The value of a variable is the page it lives on, hence     *)
(* reads and writes take the same steps: an operation of step "access" is    *)
(* readVariable() or writeVariable() of the variable itself.                 *)
EXTENDS Integers, SequencesExt

CONSTANTS
    Tasks,      \* calls made by the views
    Variables,  \* Task -> the variables it lists, a single one for the
                \* functions that access one variable
    Policy,     \* Task -> what its callback answers
    Page,       \* Variable -> where it lives: [space, numbers]
    RetryLimit  \* ContinuationCallback::DefaultRetryLimit

Space == [Basic |-> 0, Susi |-> 1, Extended |-> 2] \* how many numbers name a page

ASSUME PageAssumption ==
    \A v \in DOMAIN Page : /\ Page[v].space \in DOMAIN Space
                           /\ Page[v].numbers \in Seq(Nat)
                           /\ Len(Page[v].numbers) = Space[Page[v].space]

ASSUME TaskAssumption ==
    /\ Variables \in [Tasks -> Seq(DOMAIN Page) \ {<<>>}]
    \* "retry": Retry on failure, as the views do; "collect": the closure that
    \* gathers all results, whatever they are; "first": Abort
    /\ Policy \in [Tasks -> {"retry", "collect", "first"}]
    /\ RetryLimit \in Nat

Operation == [step: {"high", "low", "bank", "access"}, task: Tasks,
              variable: DOMAIN Page, rest: Seq(DOMAIN Page), retries: 0..RetryLimit]

VARIABLES
    queue,      \* operations the device has to work off, with their callbacks
    high, low,  \* CV31 and CV32 of the decoder
    bank,       \* CV1021 of the decoder
    started,    \* tasks that were called
    delivered,  \* Task -> variables its callback got a final result for
    reports,    \* Task -> how often the closure reported all the results
    touched,    \* history: Task -> accesses that reached the decoder
    streak,     \* history: Task -> failures since its last success
    overlapped  \* history: tasks that ran at the same time as others

vars == <<queue, high, low, bank, started, delivered, reports, touched, streak, overlapped>>

Init ==
    /\ queue = <<>> /\ started = {} /\ overlapped = {}
    /\ high = 0 /\ low = 0 /\ bank = 0
    /\ delivered = [t \in Tasks |-> <<>>]
    /\ reports = [t \in Tasks |-> 0]
    /\ touched = [t \in Tasks |-> {}]
    /\ streak = [t \in Tasks |-> 0]

-----------------------------------------------------------------------------
(* The operations.                                                           *)

\* readExtendedVariable(), writeExtendedVariable(): what is queued first.
FirstStep == [Basic |-> "access", Susi |-> "bank", Extended |-> "high"]

\* The list call takes the first variable off its list.
Access(t, list) ==
    [step |-> FirstStep[Page[Head(list)].space], task |-> t,
     variable |-> Head(list), rest |-> Tail(list), retries |-> 0]

\* Once its callback says Proceed, the list call accesses the next variable.
AccessRest(op) == IF op.rest = <<>> THEN <<>> ELSE <<Access(op.task, op.rest)>>

\* The page the decoder shows where variable v lives.
Shown(v) == CASE Page[v].space = "Basic"    -> <<>>
              [] Page[v].space = "Susi"     -> <<bank>>
              [] Page[v].space = "Extended" -> <<high, low>>

\* What an operation does to the decoder.
Perform(op) ==
    LET n == Page[op.variable].numbers
    IN  /\ high' = IF op.step = "high" THEN n[1] ELSE high
        /\ low'  = IF op.step = "low"  THEN n[2] ELSE low
        /\ bank' = IF op.step = "bank" THEN n[1] ELSE bank
        /\ touched' = IF op.step = "access"
                          THEN [touched EXCEPT ![op.task] = @ \union
                                   {[variable |-> op.variable, page |-> Shown(op.variable)]}]
                          ELSE touched

\* A slip of retry(): the copy keeps its retry count.
RetryForever(op) == <<op>>
\* A slip of retry(): the last retry is withheld.
RetryLess(op) ==
    IF op.retries + 1 < RetryLimit THEN <<[op EXCEPT !.retries = @ + 1]>> ELSE <<>>
\* A slip of retry(): one retry too many.
RetryMore(op) ==
    IF op.retries <= RetryLimit THEN <<[op EXCEPT !.retries = @ + 1]>> ELSE <<>>
\* ContinuationCallback::retry() and the switch in readVariable() and
\* writeVariable() of the devices: a failed operation, once more.
Retry(op) ==
    IF op.retries < RetryLimit THEN <<[op EXCEPT !.retries = @ + 1]>> ELSE <<>>

\* The same operation chain, one step further.
Then(op, step) == <<[op EXCEPT !.step = step, !.retries = 0]>>

\* The callback of the task is called with a result for op.variable.  The
\* closure that collects reports as soon as it has them all.
Deliver(op) ==
    LET t == op.task
    IN  /\ delivered' = [delivered EXCEPT ![t] = Append(@, op.variable)]
        /\ reports' = IF Policy[t] = "collect" /\ Cardinality(ToSet(delivered'[t])) = Len(Variables[t])
                          THEN [reports EXCEPT ![t] = @ + 1] ELSE reports

\* A slip of selectPage(): the variable is accessed whatever became of the page.
AfterFailedPage(op) == Then(op, "access")
\* What a failure queues: a failed page selection is an error for the callback
\* of selectPage(), which answers Retry.
AfterFailure(op) == Retry(op)

\* What a success queues.  selectPage() of an extended page hands the success
\* of CV31 to its callback, which accesses the variable, and writes CV32 next;
\* that success goes to the callback, too.
AfterSuccess(op) ==
    CASE op.step = "high" -> Then(op, "access") \o Then(op, "low")
      [] op.step \in {"low", "bank"} -> Then(op, "access")
      [] op.step = "access" -> IF Policy[op.task] = "first" THEN <<>> ELSE AccessRest(op)

-----------------------------------------------------------------------------
(* The steps.                                                                *)

TasksIn(q) == {q[i].task : i \in DOMAIN q}

\* A view calls one of the four functions.
Start(t) ==
    /\ t \notin started
    /\ started' = started \union {t}
    /\ overlapped' = IF queue = <<>> THEN overlapped
                     ELSE overlapped \union TasksIn(queue) \union {t}
    /\ queue' = Append(queue, Access(t, Variables[t]))
    /\ UNCHANGED <<high, low, bank, delivered, reports, touched, streak>>

\* The device reports the success of its first operation.
Succeed ==
    /\ queue # <<>>
    /\ LET op == Head(queue)
       IN  /\ Perform(op)
           /\ streak' = [streak EXCEPT ![op.task] = 0]
           /\ queue' = Tail(queue) \o AfterSuccess(op)
           /\ IF op.step = "access" THEN Deliver(op) ELSE UNCHANGED <<delivered, reports>>
    /\ UNCHANGED <<started, overlapped>>

\* The device reports a failure: a timeout, a short circuit, a lost answer.  The
\* decoder may have executed the operation nevertheless.
Fail ==
    /\ queue # <<>>
    /\ LET op       == Head(queue)
           collects == op.step = "access" /\ Policy[op.task] = "collect"
           aborts   == op.step = "access" /\ Policy[op.task] = "first"
       IN  /\ Perform(op) \/ UNCHANGED <<high, low, bank, touched>>
           /\ IF collects \/ aborts
                  THEN /\ Deliver(op)
                       /\ streak' = [streak EXCEPT ![op.task] = 0]
                       /\ queue' = Tail(queue) \o (IF collects THEN AccessRest(op) ELSE <<>>)
                  ELSE /\ streak' = [streak EXCEPT ![op.task] =
                                        IF @ > RetryLimit THEN @ ELSE @ + 1]
                       /\ queue' = Tail(queue) \o AfterFailure(op)
                       /\ UNCHANGED <<delivered, reports>>
    /\ UNCHANGED <<started, overlapped>>

Next == (\E t \in Tasks : Start(t)) \/ Succeed \/ Fail

Spec == Init /\ [][Next]_vars

\* The device answers every request, if only by its timeout.
Fairness == WF_vars(Succeed \/ Fail)

FairSpec == Spec /\ Fairness

-----------------------------------------------------------------------------
(* Properties.                                                               *)

\* Every variable has its type.
TypeOK ==
    /\ queue \in Seq(Operation)
    /\ high \in Nat /\ low \in Nat /\ bank \in Nat
    /\ started \subseteq Tasks /\ overlapped \subseteq started
    /\ delivered \in [Tasks -> Seq(DOMAIN Page)]
    /\ reports \in [Tasks -> Nat]
    /\ touched \in [Tasks -> SUBSET [variable: DOMAIN Page, page: Seq(Nat)]]
    /\ streak \in [Tasks -> 0..(RetryLimit + 1)]

\* A task that has the device for itself reads and writes only the page its
\* variables live on: whatever fails, no value is taken from, and nothing is
\* written to, a page some earlier access left selected.
OwnPageOnly ==
    \A t \in started \ overlapped : \A a \in touched[t] : a.page = Page[a.variable].numbers

\* The results come in the order of the list, one for each variable, and the
\* closure that collects them reports once: also if tasks overlap.
DeliveredInOrder ==
    \A t \in Tasks : /\ IsPrefix(delivered[t], Variables[t])
                     /\ reports[t] <= 1

\* A task of which nothing is left in the queue has a result for every variable,
\* unless it asked for the first one only or one of its operations failed
\* RetryLimit + 1 times in a row: no variable is skipped for less.
GivesUpLate ==
    \A t \in started \ TasksIn(queue) :
        \/ Len(delivered[t]) = Len(Variables[t])
        \/ Policy[t] = "first" /\ Len(delivered[t]) = 1
        \/ streak[t] = RetryLimit + 1

\* The two together: what a task is told is complete, in order and told once.
\* See readVariableList() and ContinuationCallback::retry().
ResultsInOrder == DeliveredInOrder /\ GivesUpLate

\* No task is retried forever.
TasksEnd == \A t \in Tasks : t \in started ~> t \notin TasksIn(queue)
=============================================================================
