----------------------- MODULE Z21ProgrammingProofs -----------------------
(* Theorems about Z21Programming, for any calls, variables and values and    *)
(* every bound.                                                              *)
EXTENDS Z21Programming, SequenceTheorems, FiniteSetTheorems, WellFoundedInduction, TLAPS

-----------------------------------------------------------------------------
(* Induction.  The theorems of the library speak of operators; these speak   *)
(* of sets instead.                                                          *)

\* Every set of natural numbers has a least one: initial segments are well-founded.
LEMMA LeastNatural ==
    ASSUME NEW T \in SUBSET Nat, T # {}
    PROVE  \E m \in T : \A n \in T : m <= n
  <1> DEFINE Below(n) == 0 .. (n - 1)
  <1> DEFINE Belows == {Below(n) : n \in T}
  <1>1. Belows \subseteq FiniteSubsetsOf(Nat) /\ Belows # {}
    <2>1. \A n \in Nat : IsFiniteSet(Below(n))  BY FS_Interval
    <2>2. \A n \in Nat : Below(n) \in SUBSET Nat  OBVIOUS
    <2>3. \A n \in Nat : Below(n) \in FiniteSubsetsOf(Nat)
      <3> HIDE DEF Below
      <3> QED  BY <2>1, <2>2 DEF FiniteSubsetsOf
    <2> HIDE DEF Below
    <2> QED  BY <2>3
  <1>2. IsWellFoundedOn(StrictSubsetOrdering(Nat), FiniteSubsetsOf(Nat))
    BY FS_StrictSubsetOrderingWellFounded
  <1> HIDE DEF Belows
  <1>3. \E b \in Belows : \A c \in Belows : <<c, b>> \notin StrictSubsetOrdering(Nat)
    BY <1>1, <1>2, WFMin
  <1>4. PICK m \in T : \A c \in Belows : <<c, Below(m)>> \notin StrictSubsetOrdering(Nat)
    BY <1>3 DEF Belows
  <1>5. ASSUME NEW n \in T  PROVE m <= n
    <2>1. <<Below(n), Below(m)>> \notin StrictSubsetOrdering(Nat)  BY <1>4 DEF Belows
    <2> QED  BY <2>1 DEF StrictSubsetOrdering
  <1> QED  BY <1>5

LEMMA Induction ==
    ASSUME NEW S, 0 \in S, \A n \in Nat : n \in S => n + 1 \in S
    PROVE  Nat \subseteq S
  <1> SUFFICES ASSUME Nat \ S # {} PROVE FALSE  OBVIOUS
  <1>1. PICK m \in Nat \ S : \A n \in Nat \ S : m <= n  BY LeastNatural
  <1>2. m # 0 /\ m - 1 \in Nat  BY <1>1
  <1>3. m - 1 \in S  BY <1>1, <1>2
  <1> QED  BY <1>1, <1>2, <1>3

-----------------------------------------------------------------------------
(* How parseDatagrams() goes through the observers.                          *)

ShownTo(m, seq) == FoldLeft(LAMBDA s, call : Observe(s, call, m), Working, seq)

\* The observers see the message one after the other.
LEMMA OneByOne ==
    ASSUME NEW m, NEW seq, NEW N \in Nat, DOMAIN seq = 1 .. N
    PROVE  \E g : /\ g[0] = Working
                  /\ \A n \in 1 .. N : g[n] = Observe(g[n - 1], seq[n], m)
                  /\ ShownTo(m, seq) = g[N]
  <1> DEFINE Step(g, s) == IF s = {} THEN Working ELSE Observe(g[s \ {Max(s)}], seq[Max(s)], m)
             Folds(g, n) == g = [s \in SUBSET (1 .. n) |-> Step(g, s)]
  <1>1. ASSUME NEW n \in Nat, NEW s \in SUBSET (1 .. n), n \in s  PROVE Max(s) = n
    <2>1. \A y \in s : y \in Nat /\ n >= y  OBVIOUS
    <2>2. \A x \in s : (\A y \in s : x >= y) => x = n
      <3> SUFFICES ASSUME NEW x \in s, \A y \in s : x >= y PROVE x = n  OBVIOUS
      <3>1. x >= n /\ n >= x /\ x \in Nat  BY <1>1, <2>1
      <3> QED  BY <3>1
    <2>3. \E x \in s : \A y \in s : x >= y  BY <1>1, <2>1
    <2>4. /\ Max(s) \in s /\ \A y \in s : Max(s) >= y  BY <2>3, Zenon DEF Max
    <2> QED  BY <2>2, <2>4
  <1>2. ASSUME NEW n \in Nat, NEW s \in SUBSET (1 .. (n + 1))  PROVE s \ {Max(s)} \in SUBSET (1 .. n)
    <2>1. CASE n + 1 \in s
      <3>1. n + 1 \in Nat  OBVIOUS
      <3>2. Max(s) = n + 1  BY <1>1, <2>1, <3>1
      <3> QED  BY <3>2
    <2>2. CASE n + 1 \notin s
      <3>1. s \subseteq 1 .. n  BY <2>2
      <3> QED  BY <3>1
    <2> QED  BY <2>1, <2>2
  <1>3. \A n \in Nat : \E g : Folds(g, n)
    <2> DEFINE Foldable == {n \in Nat : \E g : Folds(g, n)}
    <2>1. 0 \in Foldable
      <3> DEFINE g == [s \in SUBSET (1 .. 0) |-> Working]
      <3>1. \A s \in SUBSET (1 .. 0) : Step(g, s) = Working  OBVIOUS
      <3>2. Folds(g, 0)  BY <3>1, Zenon
      <3> QED  BY <3>2
    <2>2. ASSUME NEW n \in Foldable  PROVE n + 1 \in Foldable
      <3>1. PICK g : Folds(g, n)  OBVIOUS
      <3> DEFINE h == [s \in SUBSET (1 .. (n + 1)) |-> Step(g, s)]
      <3>2. \A s \in SUBSET (1 .. n) : h[s] = g[s]
        <4> TAKE s \in SUBSET (1 .. n)
        <4>1. s \in SUBSET (1 .. (n + 1))  OBVIOUS
        <4>2. h[s] = Step(g, s)  BY <4>1, Zenon
        <4>3. g[s] = Step(g, s)
          <5> HIDE DEF Step
          <5> QED  BY <3>1
        <4> HIDE DEF h, Step
        <4> QED  BY <4>2, <4>3
      <3>3. \A s \in SUBSET (1 .. (n + 1)) : Step(h, s) = Step(g, s)
        <4> HIDE DEF h
        <4> QED  BY <1>2, <3>2
      <3>4. Folds(h, n + 1)
        <4> HIDE DEF Step
        <4> QED  BY <3>3, Zenon
      <3> HIDE DEF h, Folds
      <3> QED  BY <3>4
    <2> HIDE DEF Foldable
    <2>3. Nat \subseteq Foldable  BY <2>1, <2>2, Induction
    <2> QED  BY <2>3 DEF Foldable
  <1> DEFINE iter == CHOOSE iter : Folds(iter, N)
  <1>4. Folds(iter, N)
    <2> HIDE DEF Folds
    <2> QED  BY <1>3
  <1>5. ShownTo(m, seq) = iter[1 .. N]  BY DEF ShownTo, FoldLeft, MapThenFoldSet
  <1> HIDE DEF iter
  <1>6. \A s \in SUBSET (1 .. N) : iter[s] = Step(iter, s)
    <2> HIDE DEF Step
    <2> QED  BY <1>4
  <1> DEFINE g == [n \in 0 .. N |-> iter[1 .. n]]
  <1>7. g[0] = Working
    <2>1. (1 .. 0) = {} /\ (1 .. 0) \in SUBSET (1 .. N)  OBVIOUS
    <2>2. iter[1 .. 0] = Step(iter, 1 .. 0)
      <3> HIDE DEF Step
      <3> QED  BY <1>6, <2>1
    <2> QED  BY <2>1, <2>2
  <1>8. ASSUME NEW n \in 1 .. N  PROVE g[n] = Observe(g[n - 1], seq[n], m)
    <2>1. Max(1 .. n) = n  BY <1>1
    <2>2. /\ (1 .. n) \ {n} = 1 .. (n - 1) /\ 1 .. n # {}
          /\ (1 .. n) \in SUBSET (1 .. N)
      <3>1. n \in Nat /\ n >= 1 /\ n <= N  OBVIOUS
      <3>2. (1 .. n) \ {n} = 1 .. (n - 1)  BY <3>1
      <3>3. n \in 1 .. n  BY <3>1
      <3>4. \A k \in 1 .. n : k \in 1 .. N  BY <3>1
      <3> QED  BY <3>2, <3>3, <3>4
    <2>3. iter[1 .. n] = Step(iter, 1 .. n)
      <3> HIDE DEF Step
      <3> QED  BY <1>6, <2>2
    <2>4. iter[1 .. n] = Observe(iter[1 .. (n - 1)], seq[n], m)
      <3> DEFINE s == 1 .. n
      <3>1. s # {} /\ Max(s) = n /\ s \ {n} = 1 .. (n - 1)  BY <2>1, <2>2
      <3>2. iter[s] = Step(iter, s)  BY <2>3
      <3> HIDE DEF s
      <3>3. iter[s] = Observe(iter[1 .. (n - 1)], seq[n], m)  BY <3>1, <3>2
      <3> QED  BY <3>3 DEF s
    <2>5. g[n] = iter[1 .. n] /\ g[n - 1] = iter[1 .. (n - 1)]  OBVIOUS
    <2> QED  BY <2>4, <2>5
  <1>9. g[N] = iter[1 .. N]  OBVIOUS
  <1> HIDE DEF g
  <1> QED  BY <1>5, <1>7, <1>8, <1>9

\* What holds before the first observer, and is kept by each of them, holds in the end.
LEMMA ShownToAll ==
    ASSUME NEW m, NEW seq, NEW N \in Nat, DOMAIN seq = 1 .. N, NEW Holds,
           Working \in Holds[0],
           \A n \in 1 .. N : \A s \in Holds[n - 1] : Observe(s, seq[n], m) \in Holds[n]
    PROVE  ShownTo(m, seq) \in Holds[N]
  <1>1. PICK g : /\ g[0] = Working
                 /\ \A n \in 1 .. N : g[n] = Observe(g[n - 1], seq[n], m)
                 /\ ShownTo(m, seq) = g[N]
    BY OneByOne
  <1> DEFINE Held == {n \in Nat : n <= N => g[n] \in Holds[n]}
  <1>2. 0 \in Held  BY <1>1
  <1>3. ASSUME NEW n \in Nat, n \in Held  PROVE n + 1 \in Held
    <2> SUFFICES ASSUME n + 1 <= N PROVE g[n + 1] \in Holds[n + 1]  OBVIOUS
    <2>1. n + 1 \in 1 .. N /\ (n + 1) - 1 = n  OBVIOUS
    <2>2. g[n + 1] = Observe(g[n], seq[n + 1], m)  BY <1>1, <2>1
    <2>3. g[n] \in Holds[n]  BY <1>3
    <2>4. Observe(g[n], seq[n + 1], m) \in Holds[n + 1]  BY <2>1, <2>3
    <2> QED  BY <2>2, <2>4
  <1> HIDE DEF Held
  <1>4. Nat \subseteq Held  BY <1>2, <1>3, Induction
  <1> QED  BY <1>1, <1>4 DEF Held

-----------------------------------------------------------------------------
(* What is inductive, and what a handler works on.                           *)

\* Accesses of tasks of T, with their callbacks.
Calls(T) == {c \in Call : c.task \in T}
AtMostOne(S) == {q \in Seq(S) : Len(q) <= 1}

\* Requests as they are made: what is written is a value.
Good == {r \in Request : r.type = "write" => r.value \in Values}

TypeInv ==
    /\ TypeOK
    /\ pending \in Seq(Calls(started)) /\ verifying \in Seq(Calls(started))
    /\ armed \in Seq(Calls(started))
    /\ toStation \in Seq(Good)

Work(T) == [kept: Seq(Calls(T)), added: Seq(Calls(T)), powering: BOOLEAN,
            armed: AtMostOne(Calls(T)), verifying: Seq(Calls(T)), sent: Seq(Good),
            results: [Tasks -> Nat], told: SUBSET T, held: [Tasks -> SUBSET Values],
            stale: BOOLEAN]

\* What was sent is still sent.
Sends(s, r) == \A i \in DOMAIN s.sent : i \in DOMAIN r.sent /\ r.sent[i] = s.sent[i]

\* r has asked for variable v.
Asks(r, v) == \E i \in DOMAIN r.sent : r.sent[i].type = "read" /\ r.sent[i].variable = v

\* r is s after task t was called once more, or was given up.
Calls1(s, r, T, t) ==
    /\ r \in Work(T) /\ Sends(s, r)
    /\ r.kept = s.kept /\ r.results = s.results /\ r.stale = s.stale
    /\ \/ r.added = s.added /\ r.verifying = s.verifying /\ r.held = s.held
       \/ \E c \in Calls(T) :
              /\ c.task = t /\ Written[t] # NoValue
              /\ r.added = s.added /\ r.verifying = Append(s.verifying, c) /\ r.held = s.held
       \/ \E c \in Calls(T) :
              /\ c.task = t /\ Written[t] = NoValue
              /\ r.added = Append(s.added, c) /\ r.verifying = s.verifying
              /\ r.held = [s.held EXCEPT ![t] = {decoder[Variable[t]]}]
              /\ Asks(r, Variable[t])

LEMMA SendsAll ==
    ASSUME NEW s, NEW r, NEW q, Sends(s, r), Sends(r, q)
    PROVE  Sends(s, q)
  BY DEF Sends

\* A request that is sent.
LEMMA SendsOne ==
    ASSUME NEW s, NEW r, NEW x \in Good, s.sent \in Seq(Good), r.sent = Append(s.sent, x)
    PROVE  /\ r.sent \in Seq(Good) /\ Sends(s, r)
           /\ x.type = "read" => Asks(r, x.variable)
  <1>1. /\ Append(s.sent, x) \in Seq(Good)
        /\ Len(Append(s.sent, x)) = Len(s.sent) + 1
        /\ \A i \in 1 .. Len(s.sent) : Append(s.sent, x)[i] = s.sent[i]
        /\ Append(s.sent, x)[Len(s.sent) + 1] = x
    BY AppendProperties
  <1>2. DOMAIN s.sent = 1 .. Len(s.sent) /\ Len(s.sent) \in Nat
        /\ DOMAIN r.sent = 1 .. (Len(s.sent) + 1)
    BY <1>1, LenProperties
  <1> DEFINE n == Len(s.sent)
  <1>3. n + 1 \in 1 .. (n + 1) /\ \A i \in 1 .. n : i \in 1 .. (n + 1)  BY <1>2
  <1> HIDE DEF n
  <1>4. Sends(s, r)  BY <1>1, <1>2, <1>3 DEF Sends, n
  <1>5. x.type = "read" => Asks(r, x.variable)  BY <1>1, <1>2, <1>3 DEF Asks, n
  <1> QED  BY <1>1, <1>4, <1>5

\* The tasks and what they send.
LEMMA TaskTypes ==
    ASSUME NEW t \in Tasks
    PROVE  /\ Variable[t] \in Variables
           /\ ReadRequest(t) \in Good /\ ReadRequest(t).type = "read"
           /\ ReadRequest(t).variable = Variable[t]
           /\ Written[t] # NoValue => Written[t] \in Values /\ WriteRequest(t) \in Good
           /\ PowerOn \in Good
  <1>1. Variable[t] \in Variables  BY DEF Variables
  <1>2. Written[t] \in Values \union {NoValue}  BY ProgrammingAssumption
  <1>3. ReadRequest(t) \in [type: {"read", "write"}, variable: Variables, value: Values \union {NoValue}]
    BY <1>1 DEF ReadRequest
  <1>4. WriteRequest(t) \in [type: {"read", "write"}, variable: Variables, value: Values \union {NoValue}]
    BY <1>1, <1>2 DEF WriteRequest
  <1>5. PowerOn \in [type: {"powerOn"}] /\ PowerOn.type # "write"  BY DEF PowerOn
  <1>6. ReadRequest(t).type = "read" /\ ReadRequest(t).variable = Variable[t]  BY DEF ReadRequest
  <1>7. WriteRequest(t).value = Written[t]  BY DEF WriteRequest
  <1> QED  BY <1>1, <1>2, <1>3, <1>4, <1>5, <1>6, <1>7 DEF Good, Request

\* Client::readVariable().
LEMMA Reads ==
    ASSUME NEW T \in SUBSET Tasks, NEW s \in Work(T), NEW c \in Calls(T),
           decoder \in [Variables -> Values]
    PROVE  LET r == ReadVariable(s, c)
           IN  /\ r \in Work(T) /\ Sends(s, r) /\ Asks(r, Variable[c.task])
               /\ r.kept = s.kept /\ r.results = s.results /\ r.stale = s.stale
               /\ r.added = Append(s.added, c) /\ r.verifying = s.verifying
               /\ r.held = [s.held EXCEPT ![c.task] = {decoder[Variable[c.task]]}]
  <1> DEFINE t == c.task
             r == ReadVariable(s, c)
  <1>1. t \in T /\ t \in Tasks  BY DEF Calls
  <1>2. r = [[[[s EXCEPT !.armed = <<c>>] EXCEPT !.sent = Append(s.sent, ReadRequest(t))]
                EXCEPT !.added = Append(s.added, c)]
                EXCEPT !.held = [s.held EXCEPT ![t] = {decoder[Variable[t]]}]]
    BY DEF ReadVariable, Work
  <1>3. /\ r.kept = s.kept /\ r.results = s.results /\ r.stale = s.stale
        /\ r.added = Append(s.added, c) /\ r.verifying = s.verifying
        /\ r.held = [s.held EXCEPT ![t] = {decoder[Variable[t]]}]
        /\ r.sent = Append(s.sent, ReadRequest(t))
    BY <1>2 DEF Work
  <1>4. s.sent \in Seq(Good) /\ s.added \in Seq(Calls(T)) /\ s.held \in [Tasks -> SUBSET Values]
    BY DEF Work
  <1>5. r.sent \in Seq(Good) /\ Sends(s, r) /\ Asks(r, Variable[t])
    <2> DEFINE x == ReadRequest(t)
    <2>1. x \in Good /\ x.type = "read" /\ x.variable = Variable[t]  BY <1>1, TaskTypes
    <2>2. r.sent = Append(s.sent, x) /\ s.sent \in Seq(Good)  BY <1>3, <1>4
    <2> HIDE DEF r, x, t
    <2> QED  BY <2>1, <2>2, SendsOne
  <1>6. Append(s.added, c) \in Seq(Calls(T))  BY <1>4, AppendProperties
  <1>7. <<c>> \in AtMostOne(Calls(T))  BY DEF AtMostOne
  <1>8. [s.held EXCEPT ![t] = {decoder[Variable[t]]}] \in [Tasks -> SUBSET Values]
    BY <1>1, <1>4, TaskTypes
  <1>9. r \in Work(T)  BY <1>2, <1>3, <1>5, <1>6, <1>7, <1>8, Zenon DEF Work
  <1> QED  BY <1>3, <1>5, <1>9

\* Client::writeVariable().
LEMMA Writes ==
    ASSUME NEW T \in SUBSET Tasks, NEW s \in Work(T), NEW c \in Calls(T),
           Written[c.task] # NoValue
    PROVE  LET r == WriteVariable(s, c)
           IN  /\ r \in Work(T) /\ Sends(s, r)
               /\ r.kept = s.kept /\ r.results = s.results /\ r.stale = s.stale
               /\ r.added = s.added /\ r.verifying = Append(s.verifying, c)
               /\ r.held = s.held
  <1> DEFINE t == c.task
             r == WriteVariable(s, c)
  <1>1. t \in T /\ t \in Tasks  BY DEF Calls
  <1>2. r = [[s EXCEPT !.sent = Append(s.sent, WriteRequest(t))]
                EXCEPT !.verifying = Append(s.verifying, c)]
    BY DEF WriteVariable, Work
  <1>3. /\ r.kept = s.kept /\ r.results = s.results /\ r.stale = s.stale
        /\ r.added = s.added /\ r.verifying = Append(s.verifying, c) /\ r.held = s.held
        /\ r.sent = Append(s.sent, WriteRequest(t))
    BY <1>2 DEF Work
  <1>4. s.sent \in Seq(Good) /\ s.verifying \in Seq(Calls(T))  BY DEF Work
  <1>5. r.sent \in Seq(Good) /\ Sends(s, r)
    <2> DEFINE x == WriteRequest(t)
    <2>1. x \in Good  BY <1>1, TaskTypes
    <2>2. r.sent = Append(s.sent, x)  BY <1>3
    <2> HIDE DEF r, x, t
    <2> QED  BY <1>4, <2>1, <2>2, SendsOne
  <1>6. Append(s.verifying, c) \in Seq(Calls(T))  BY <1>4, AppendProperties
  <1>7. r \in Work(T)  BY <1>2, <1>3, <1>5, <1>6, Zenon DEF Work
  <1> QED  BY <1>3, <1>5, <1>7

\* VariableControl::readVariable() and writeVariable().
LEMMA Performs ==
    ASSUME NEW T \in SUBSET Tasks, NEW s \in Work(T), NEW c \in Calls(T),
           decoder \in [Variables -> Values]
    PROVE  Calls1(s, Perform(s, c), T, c.task)
  <1>1. CASE Written[c.task] = NoValue
    <2> DEFINE r == ReadVariable(s, c)
    <2>1. Perform(s, c) = r  BY <1>1 DEF Perform
    <2>2. /\ r \in Work(T) /\ Sends(s, r) /\ Asks(r, Variable[c.task])
          /\ r.kept = s.kept /\ r.results = s.results /\ r.stale = s.stale
          /\ r.added = Append(s.added, c) /\ r.verifying = s.verifying
          /\ r.held = [s.held EXCEPT ![c.task] = {decoder[Variable[c.task]]}]
      BY Reads
    <2> HIDE DEF r
    <2> QED  BY <1>1, <2>1, <2>2 DEF Calls1
  <1>2. CASE Written[c.task] # NoValue
    <2> DEFINE r == WriteVariable(s, c)
    <2>1. Perform(s, c) = r  BY <1>2 DEF Perform
    <2>2. /\ r \in Work(T) /\ Sends(s, r)
          /\ r.kept = s.kept /\ r.results = s.results /\ r.stale = s.stale
          /\ r.added = s.added /\ r.verifying = Append(s.verifying, c)
          /\ r.held = s.held
      BY <1>2, Writes
    <2> HIDE DEF r
    <2> QED  BY <1>2, <2>1, <2>2 DEF Calls1
  <1> QED  BY <1>1, <1>2

\* Retry, or nothing.
LEMMA Retries ==
    ASSUME NEW T \in SUBSET Tasks, NEW s \in Work(T), NEW c \in Calls(T),
           decoder \in [Variables -> Values]
    PROVE  Calls1(s, Retry(s, c), T, c.task)
  <1>1. CASE c.retries < RetryLimit
    <2> DEFINE d == [c EXCEPT !.retries = c.retries + 1]
    <2>1. Retry(s, c) = Perform(s, d)  BY <1>1 DEF Retry
    <2>2. c.retries \in 0 .. RetryLimit /\ RetryLimit \in Nat
      BY ProgrammingAssumption DEF Calls, Call
    <2>3. c.retries + 1 \in 0 .. RetryLimit  BY <1>1, <2>2
    <2>4. d \in Calls(T) /\ d.task = c.task  BY <2>3 DEF Calls, Call
    <2> HIDE DEF d
    <2> QED  BY <2>1, <2>4, Performs
  <1>2. CASE ~(c.retries < RetryLimit)
    <2>1. Retry(s, c) = s  BY <1>2 DEF Retry
    <2> QED  BY <2>1 DEF Calls1, Sends
  <1> QED  BY <1>1, <1>2

\* The callback is called with an error: r is s but for what the client shows.
LEMMA CalledWithError ==
    ASSUME NEW T \in SUBSET Tasks, NEW s \in Work(T), NEW c \in Calls(T),
           decoder \in [Variables -> Values]
    PROVE  Calls1(s, CallbackError(s, c), T, c.task)
  <1> DEFINE q == [s EXCEPT !.told = s.told \union {c.task}]
             r == Retry(q, c)
  <1>1. CallbackError(s, c) = r  BY DEF CallbackError
  <1>2. c.task \in T  BY DEF Calls
  <1>3. /\ q.kept = s.kept /\ q.results = s.results /\ q.stale = s.stale
        /\ q.added = s.added /\ q.verifying = s.verifying /\ q.held = s.held
        /\ q.sent = s.sent
    BY DEF Work
  <1>4. s.told \union {c.task} \in SUBSET T  BY <1>2 DEF Work
  <1>5. q \in Work(T)  BY <1>4 DEF Work
  <1> HIDE DEF q
  <1>6. Calls1(q, r, T, c.task)  BY <1>5, Retries
  <1> HIDE DEF r
  <1> QED  BY <1>1, <1>3, <1>6 DEF Calls1, Sends

\* r is s after task t was told a value.
Reports1(s, r, T, t, value) ==
    /\ r \in Work(T) /\ Sends(s, r)
    /\ r.kept = s.kept /\ r.added = s.added /\ r.verifying = s.verifying /\ r.held = s.held
    /\ r.results = [s.results EXCEPT ![t] = s.results[t] + 1]
    /\ r.stale => s.stale \/ value \notin s.held[t]

\* r is s with an observer more that stays.
Keeps1(s, r, T, c) ==
    /\ r \in Work(T) /\ Sends(s, r)
    /\ r.kept = Append(s.kept, c)
    /\ r.added = s.added /\ r.verifying = s.verifying /\ r.held = s.held
    /\ r.results = s.results /\ r.stale = s.stale

\* r differs from s in what the station is asked for, and by the timeout.
LEMMA PowerRestored ==
    ASSUME NEW T \in SUBSET Tasks, NEW s \in Work(T)
    PROVE  LET r == RestorePower(StopTimeout(s))
           IN  /\ r \in Work(T) /\ Sends(s, r)
               /\ r.kept = s.kept /\ r.added = s.added /\ r.verifying = s.verifying
               /\ r.held = s.held /\ r.results = s.results /\ r.stale = s.stale
  <1> DEFINE q == StopTimeout(s)
             r == RestorePower(q)
  <1>1. /\ q.kept = s.kept /\ q.added = s.added /\ q.verifying = s.verifying
        /\ q.held = s.held /\ q.results = s.results /\ q.stale = s.stale /\ q.sent = s.sent
    BY DEF StopTimeout, Work
  <1>2. <<>> \in AtMostOne(Calls(T))  BY DEF AtMostOne
  <1>3. q \in Work(T)  BY <1>2, Zenon DEF StopTimeout, Work
  <1> HIDE DEF q
  <1>4. CASE Direct
    <2>1. r = [[q EXCEPT !.sent = Append(q.sent, PowerOn)] EXCEPT !.powering = TRUE]
      BY <1>3, <1>4 DEF RestorePower, Work
    <2>2. /\ r.kept = s.kept /\ r.added = s.added /\ r.verifying = s.verifying
          /\ r.held = s.held /\ r.results = s.results /\ r.stale = s.stale
          /\ r.sent = Append(s.sent, PowerOn)
      BY <1>1, <1>3, <2>1 DEF Work
    <2>3. r.sent \in Seq(Good) /\ Sends(s, r)
      <3>1. s.sent \in Seq(Good)  BY DEF Work
      <3>2. PowerOn \in Good
        <4>1. PowerOn \in [type: {"powerOn"}] /\ PowerOn.type # "write"  BY DEF PowerOn
        <4> QED  BY <4>1 DEF Good, Request
      <3> HIDE DEF r
      <3> QED  BY <2>2, <3>1, <3>2, SendsOne
    <2>4. Append(q.sent, PowerOn) \in Seq(Good)  BY <1>1, <2>2, <2>3
    <2>5. r \in Work(T)  BY <1>3, <2>1, <2>4, Zenon DEF Work
    <2> QED  BY <2>2, <2>3, <2>5 DEF q
  <1>5. CASE ~Direct
    <2>1. r = q  BY <1>5 DEF RestorePower
    <2> QED  BY <1>1, <1>3, <2>1 DEF Sends, q
  <1> QED  BY <1>4, <1>5

\* The callback is called with a value.
LEMMA CalledWithValue ==
    ASSUME NEW T \in SUBSET Tasks, NEW s \in Work(T), NEW c \in Calls(T), NEW value \in Values,
           decoder \in [Variables -> Values]
    PROVE  \/ /\ Calls1(s, CallbackValue(s, c, value), T, c.task)
              /\ Written[c.task] # NoValue
           \/ Reports1(s, CallbackValue(s, c, value), T, c.task, value)
  <1> DEFINE t == c.task
             r == CallbackValue(s, c, value)
             reported == IF Written[t] = NoValue THEN value ELSE Written[t]
  <1>0. t \in T /\ t \in Tasks  BY DEF Calls
  <1>1. CASE Verified(t, value)
    <2>1. reported = value  BY <1>1 DEF Verified
    <2>2. r = [s EXCEPT !.told = s.told \union {t}, !.results[t] = s.results[t] + 1,
                        !.stale = s.stale \/ reported \notin s.held[t]]
      BY <1>1 DEF CallbackValue, Work
    <2> DEFINE q == [[s EXCEPT !.told = s.told \union {t}]
                       EXCEPT !.results = [s.results EXCEPT ![t] = s.results[t] + 1]]
    <2>3. /\ q.kept = s.kept /\ q.added = s.added /\ q.verifying = s.verifying
          /\ q.held = s.held /\ q.sent = s.sent
          /\ q.results = [s.results EXCEPT ![t] = s.results[t] + 1]
      BY DEF Work
    <2>4. s.told \union {t} \in SUBSET T /\ [s.results EXCEPT ![t] = s.results[t] + 1] \in [Tasks -> Nat]
      BY <1>0 DEF Work
    <2>5. q \in Work(T)  BY <2>4, Zenon DEF Work
    <2>6. r = [q EXCEPT !.stale = s.stale \/ reported \notin s.held[t]]  BY <1>1, <2>2 DEF Work
    <2>7. (s.stale \/ reported \notin s.held[t]) \in BOOLEAN  OBVIOUS
    <2> HIDE DEF q, reported
    <2>8. r \in Work(T)  BY <2>5, <2>6, <2>7, Zenon DEF Work
    <2>9. /\ r.kept = s.kept /\ r.added = s.added /\ r.verifying = s.verifying
          /\ r.held = s.held /\ r.sent = s.sent
          /\ r.results = [s.results EXCEPT ![t] = s.results[t] + 1]
          /\ r.stale = (s.stale \/ reported \notin s.held[t])
      BY <2>3, <2>5, <2>6 DEF Work
    <2>10. Reports1(s, r, T, t, value)
      <3> HIDE DEF r
      <3> QED  BY <2>1, <2>8, <2>9 DEF Reports1, Sends, reported
    <2> QED  BY <2>10
  <1>2. CASE ~Verified(t, value)
    <2>1. r = CallbackError(s, c)  BY <1>2 DEF CallbackValue
    <2>2. Written[t] # NoValue  BY <1>2 DEF Verified
    <2> QED  BY <2>1, <2>2, CalledWithError
  <1> QED  BY <1>1, <1>2

\* The observer of readVariable() is shown an error or a result.
LEMMA Observes ==
    ASSUME NEW T \in SUBSET Tasks, NEW s \in Work(T), NEW c \in Calls(T),
           NEW m \in Answer, m.type # "powerOn", decoder \in [Variables -> Values]
    PROVE  LET r == Observe(s, c, m)
           IN  \/ m.type = "error" /\ Calls1(s, r, T, c.task)
               \/ /\ m.type = "result" /\ m.variable = Variable[c.task] /\ Written[c.task] # NoValue
                  /\ Calls1(s, r, T, c.task)
               \/ /\ m.type = "result" /\ m.variable = Variable[c.task]
                  /\ Reports1(s, r, T, c.task, m.value)
               \/ m.type = "result" /\ Keeps1(s, r, T, c)
  <1> DEFINE q == RestorePower(StopTimeout(s))
             r == Observe(s, c, m)
  <1>1. /\ q \in Work(T) /\ Sends(s, q)
        /\ q.kept = s.kept /\ q.added = s.added /\ q.verifying = s.verifying
        /\ q.held = s.held /\ q.results = s.results /\ q.stale = s.stale
    BY PowerRestored
  <1> HIDE DEF q
  <1>2. CASE m.type = "error"
    <2>1. r = CallbackError(q, c)  BY <1>2 DEF Observe, ObserveError, q
    <2>2. Calls1(q, r, T, c.task)  BY <1>1, <2>1, CalledWithError
    <2>3. Calls1(s, r, T, c.task)
      <3> HIDE DEF r
      <3> QED  BY <1>1, <2>2, SendsAll DEF Calls1
    <2> QED  BY <1>2, <2>3
  <1>3. CASE m.type # "error"
    <2>1. m.type = "result" /\ m.variable \in Variables /\ m.value \in Values
      BY <1>3 DEF Answer
    <2>2. CASE m.variable = Variable[c.task]
      <3>1. r = CallbackValue(q, c, m.value)
        BY <1>3, <2>2 DEF Observe, ObserveResult, Concerns, DropObserver, q
      <3> DEFINE v == m.value
      <3>2. v \in Values /\ r = CallbackValue(q, c, v)  BY <2>1, <3>1
      <3> HIDE DEF v, r
      <3>3. \/ Calls1(q, r, T, c.task) /\ Written[c.task] # NoValue
            \/ Reports1(q, r, T, c.task, v)
        BY <1>1, <3>2, CalledWithValue
      <3>4. CASE Calls1(q, r, T, c.task) /\ Written[c.task] # NoValue
        <4>1. Calls1(s, r, T, c.task)  BY <1>1, <3>4, SendsAll DEF Calls1
        <4> QED  BY <2>1, <2>2, <3>4, <4>1 DEF r
      <3>5. CASE Reports1(q, r, T, c.task, v)
        <4>1. Reports1(s, r, T, c.task, v)  BY <1>1, <3>5, SendsAll DEF Reports1
        <4> QED  BY <2>1, <2>2, <4>1 DEF r, v
      <3> QED  BY <3>3, <3>4, <3>5
    <2>3. CASE m.variable # Variable[c.task]
      <3> DEFINE p == StopTimeout(s)
      <3>1. r = [p EXCEPT !.kept = Append(p.kept, c)]
        BY <1>3, <2>3 DEF Observe, ObserveResult, Concerns, StopTimeout, Work
      <3>2. <<>> \in AtMostOne(Calls(T))  BY DEF AtMostOne
      <3>3. p \in Work(T)  BY <3>2, Zenon DEF StopTimeout, Work
      <3>4. /\ p.kept = s.kept /\ p.added = s.added /\ p.verifying = s.verifying
            /\ p.held = s.held /\ p.results = s.results /\ p.stale = s.stale /\ p.sent = s.sent
        BY DEF StopTimeout, Work
      <3> HIDE DEF p
      <3>5. /\ r.kept = Append(s.kept, c) /\ r.added = s.added /\ r.verifying = s.verifying
            /\ r.held = s.held /\ r.results = s.results /\ r.stale = s.stale /\ r.sent = s.sent
        <4> HIDE DEF r
        <4> QED  BY <3>1, <3>3, <3>4 DEF Work, r
      <3>6. Append(p.kept, c) \in Seq(Calls(T))
        <4>1. p.kept \in Seq(Calls(T))  BY <3>3 DEF Work
        <4> QED  BY <4>1, AppendProperties
      <3>7. r \in Work(T)
        <4> HIDE DEF r
        <4> QED  BY <3>1, <3>3, <3>6, Zenon DEF Work, r
      <3>8. Keeps1(s, r, T, c)
        <4> HIDE DEF r
        <4> QED  BY <3>5, <3>7 DEF Keeps1, Sends
      <3> QED  BY <2>1, <3>8
    <2> QED  BY <2>2, <2>3
  <1> QED  BY <1>2, <1>3

-----------------------------------------------------------------------------
(* Type correctness.                                                         *)

\* What every handler leaves behind.
LEMMA AppliedTypes ==
    ASSUME TypeInv, started' \in SUBSET Tasks, started \subseteq started',
           NEW s \in Work(started'), Apply(s),
           UNCHANGED <<station, spent>>, timeouts' \in [Tasks -> Nat], toClient' \in Seq(Answer)
    PROVE  TypeInv'
  <1>1. /\ s.kept \o s.added \in Seq(Calls(started')) /\ s.verifying \in Seq(Calls(started'))
        /\ s.armed \in Seq(Calls(started')) /\ Len(s.armed) <= 1
    BY ConcatProperties DEF Work, AtMostOne
  <1>2. Calls(started') \subseteq Call  BY DEF Calls
  <1>3. Seq(Calls(started')) \subseteq Seq(Call)  BY <1>2
  <1>4. /\ pending' \in Seq(Calls(started')) /\ verifying' \in Seq(Calls(started'))
        /\ armed' \in Seq(Calls(started')) /\ Len(armed') <= 1
    BY <1>1 DEF Apply
  <1>5. toStation' \in Seq(Good)  BY ConcatProperties DEF Apply, TypeInv, Work
  <1>6. Good \subseteq Request  BY DEF Good
  <1>7. toStation' \in Seq(Request)  BY <1>5, <1>6
  <1>8. /\ results' \in [Tasks -> Nat] /\ told' \subseteq started'
        /\ held' \in [Tasks -> SUBSET Values] /\ powering' \in BOOLEAN /\ stale' \in BOOLEAN
    BY DEF Apply, Work
  <1>9. duplicated' \in BOOLEAN  BY DEF Apply
  <1>10. /\ decoder' \in [Variables -> Values] /\ mode' \in {"normal", "programming"}
         /\ spent' \in [Budgets -> Nat]
    BY DEF TypeInv, TypeOK, station
  <1>11. TypeOK'
    BY <1>3, <1>4, <1>7, <1>8, <1>9, <1>10 DEF TypeOK
  <1> QED  BY <1>4, <1>5, <1>11 DEF TypeInv

\* What a handler begins with.
LEMMA WorkingTypes ==
    ASSUME TypeInv, NEW T \in SUBSET Tasks, started \subseteq T
    PROVE  /\ Working \in Work(T)
           /\ [Working EXCEPT !.kept = pending] \in Work(T)
           /\ Calls(started) \subseteq Calls(T) /\ Seq(Calls(started)) \subseteq Seq(Calls(T))
  <1>1. Calls(started) \subseteq Calls(T)  BY DEF Calls
  <1>2. Seq(Calls(started)) \subseteq Seq(Calls(T))  BY <1>1
  <1>3. /\ <<>> \in Seq(Calls(T)) /\ <<>> \in Seq(Good) /\ powering \in BOOLEAN
        /\ armed \in AtMostOne(Calls(T)) /\ verifying \in Seq(Calls(T))
        /\ results \in [Tasks -> Nat] /\ told \in SUBSET T /\ stale \in BOOLEAN
        /\ held \in [Tasks -> SUBSET Values] /\ pending \in Seq(Calls(T))
    BY <1>2 DEF TypeInv, TypeOK, AtMostOne
  <1>4. Working \in Work(T)  BY <1>3, Zenon DEF Working, Work
  <1>5. [Working EXCEPT !.kept = pending] \in Work(T)
    <2> HIDE DEF Working
    <2> QED  BY <1>3, <1>4, Zenon DEF Work
  <1> QED  BY <1>1, <1>2, <1>4, <1>5

\* parseDatagrams() leaves a state of the right type.
LEMMA ShownTypes ==
    ASSUME TypeInv, NEW m \in Answer, m.type # "powerOn"
    PROVE  ShownTo(m, pending) \in Work(started)
  <1> DEFINE N == Len(pending)
             Holds == [n \in 0 .. N |-> Work(started)]
  <1>1. N \in Nat /\ DOMAIN pending = 1 .. N /\ \A n \in 1 .. N : pending[n] \in Calls(started)
    BY LenProperties, ElementOfSeq DEF TypeInv
  <1>2. started \in SUBSET Tasks /\ decoder \in [Variables -> Values]  BY DEF TypeInv, TypeOK
  <1>3. Working \in Holds[0]  BY <1>1, <1>2, WorkingTypes
  <1>4. ASSUME NEW n \in 1 .. N, NEW s \in Holds[n - 1]  PROVE Observe(s, pending[n], m) \in Holds[n]
    <2> DEFINE r == Observe(s, pending[n], m)
    <2>1. s \in Work(started) /\ pending[n] \in Calls(started)  BY <1>1, <1>4
    <2>2. r \in Work(started)
      BY <1>2, <2>1, Observes DEF Calls1, Reports1, Keeps1
    <2> QED  BY <2>2
  <1> HIDE DEF Holds, N
  <1>5. ShownTo(m, pending) \in Holds[N]  BY <1>1, <1>3, <1>4, ShownToAll
  <1> QED  BY <1>1, <1>5 DEF Holds

LEMMA StartTypes ==
    ASSUME TypeInv, NEW t \in Tasks, Start(t)
    PROVE  LET c == [task |-> t, retries |-> 0]
               s == [Working EXCEPT !.kept = pending]
           IN  /\ started' = started \union {t} /\ started' \in SUBSET Tasks
               /\ s \in Work(started') /\ c \in Calls(started')
               /\ Calls1(s, Perform(s, c), started', t)
               /\ Apply(Perform(s, c))
  <1> DEFINE c == [task |-> t, retries |-> 0]
             s == [Working EXCEPT !.kept = pending]
  <1>1. started' = started \union {t} /\ Apply(Perform(s, c))  BY DEF Start
  <1>2. started' \in SUBSET Tasks /\ decoder \in [Variables -> Values]
    BY <1>1 DEF TypeInv, TypeOK
  <1>3. s \in Work(started')
    <2>1. started \subseteq started'  BY <1>1
    <2> QED  BY <1>2, <2>1, WorkingTypes
  <1>4. c \in Calls(started') /\ c.task = t  BY <1>1, ProgrammingAssumption DEF Calls, Call
  <1> HIDE DEF s, c
  <1>5. Calls1(s, Perform(s, c), started', t)  BY <1>2, <1>3, <1>4, Performs
  <1> QED  BY <1>1, <1>2, <1>3, <1>4, <1>5 DEF s, c

LEMMA VerifyTypes ==
    ASSUME TypeInv, Verify
    PROVE  LET c == Head(verifying)
               s == [Working EXCEPT !.kept = pending, !.verifying = Tail(verifying)]
           IN  /\ s \in Work(started) /\ c \in Calls(started)
               /\ s.kept = pending /\ s.added = <<>> /\ s.verifying = Tail(verifying)
               /\ s.results = results /\ s.held = held /\ s.stale = stale
               /\ Apply(ReadVariable(s, c))
  <1> DEFINE c == Head(verifying)
             p == [Working EXCEPT !.kept = pending]
             s == [Working EXCEPT !.kept = pending, !.verifying = Tail(verifying)]
  <1>1. s = [p EXCEPT !.verifying = Tail(verifying)]  BY DEF Working
  <1>2. p \in Work(started)
    <2>1. started \in SUBSET Tasks  BY DEF TypeInv, TypeOK
    <2> QED  BY <2>1, WorkingTypes
  <1>3. c \in Calls(started) /\ Tail(verifying) \in Seq(Calls(started))
    BY HeadTailProperties DEF Verify, TypeInv
  <1>4. s \in Work(started)
    <2> HIDE DEF p, s
    <2> QED  BY <1>1, <1>2, <1>3, Zenon DEF Work
  <1>5. /\ s.kept = pending /\ s.added = <<>> /\ s.verifying = Tail(verifying)
        /\ s.results = results /\ s.held = held /\ s.stale = stale
    BY DEF Working
  <1>6. [Working EXCEPT !.kept = pending, !.verifying = Tail(@)] = s  BY DEF Working
  <1>7. Apply(ReadVariable(s, c))  BY <1>6 DEF Verify
  <1> QED  BY <1>3, <1>4, <1>5, <1>7

LEMMA TimeoutTypes ==
    ASSUME TypeInv, ProgrammingTimeout
    PROVE  LET c == armed[1]
               s == [Working EXCEPT !.kept = pending]
               q == RestorePower(StopTimeout(s))
           IN  /\ s \in Work(started) /\ c \in Calls(started)
               /\ q \in Work(started)
               /\ q.kept = pending /\ q.added = <<>> /\ q.verifying = verifying
               /\ q.held = held /\ q.results = results /\ q.stale = stale
               /\ Calls1(q, CallbackError(q, c), started, c.task)
               /\ Apply(CallbackError(q, c))
               /\ timeouts' = [timeouts EXCEPT ![c.task] = timeouts[c.task] + 1]
  <1> DEFINE c == armed[1]
             s == [Working EXCEPT !.kept = pending]
             q == RestorePower(StopTimeout(s))
  <1>1. started \in SUBSET Tasks /\ decoder \in [Variables -> Values]  BY DEF TypeInv, TypeOK
  <1>2. s \in Work(started)  BY <1>1, WorkingTypes
  <1>3. c \in Calls(started)
    <2>1. armed \in Seq(Calls(started)) /\ armed # <<>>  BY DEF TypeInv, ProgrammingTimeout
    <2> QED  BY <2>1
  <1>4. /\ s.kept = pending /\ s.added = <<>> /\ s.verifying = verifying
        /\ s.results = results /\ s.held = held /\ s.stale = stale
    BY DEF Working
  <1>5. Apply(CallbackError(q, c))  BY DEF ProgrammingTimeout
  <1>6. timeouts' = [timeouts EXCEPT ![c.task] = timeouts[c.task] + 1]
    BY DEF ProgrammingTimeout
  <1> HIDE DEF s, c
  <1>7. /\ q \in Work(started)
        /\ q.kept = pending /\ q.added = <<>> /\ q.verifying = verifying
        /\ q.held = held /\ q.results = results /\ q.stale = stale
    BY <1>1, <1>2, <1>4, PowerRestored
  <1> HIDE DEF q
  <1>8. Calls1(q, CallbackError(q, c), started, c.task)
    BY <1>1, <1>3, <1>7, CalledWithError
  <1> QED  BY <1>2, <1>3, <1>5, <1>6, <1>7, <1>8 DEF q, s, c

LEMMA ParseTypes ==
    ASSUME TypeInv, ParseMessage
    PROVE  LET m == Head(toClient)
               s == [[Working EXCEPT !.kept = pending] EXCEPT !.powering = FALSE]
           IN  /\ m \in Answer /\ toClient' = Tail(toClient) /\ toClient # <<>>
               /\ toClient' \in Seq(Answer)
               /\ \/ m.type = "powerOn" /\ s \in Work(started) /\ Apply(s)
                  \/ m.type # "powerOn" /\ Apply(ShownTo(m, pending))
  <1> DEFINE m == Head(toClient)
             p == [Working EXCEPT !.kept = pending]
             s == [p EXCEPT !.powering = FALSE]
  <1>1. toClient \in Seq(Answer) /\ toClient # <<>>  BY DEF TypeInv, TypeOK, ParseMessage
  <1>2. m \in Answer /\ Tail(toClient) \in Seq(Answer)  BY <1>1, HeadTailProperties
  <1>3. p \in Work(started)
    <2>1. started \in SUBSET Tasks  BY DEF TypeInv, TypeOK
    <2> QED  BY <2>1, WorkingTypes
  <1>4. s \in Work(started)
    <2> HIDE DEF p
    <2> QED  BY <1>3, Zenon DEF Work
  <1>5. s = [Working EXCEPT !.kept = pending, !.powering = FALSE]  BY DEF Working
  <1>6. /\ toClient' = Tail(toClient)
        /\ m.type = "powerOn" => Apply([Working EXCEPT !.kept = pending, !.powering = FALSE])
        /\ m.type # "powerOn" => Apply(ShownTo(m, pending))
    BY Zenon DEF ParseMessage, ShownTo
  <1> QED  BY <1>1, <1>2, <1>4, <1>5, <1>6

\* What happens is counted.
LEMMA SpendTypes ==
    ASSUME spent \in [Budgets -> Nat], NEW b, Spend(b), b \in {"request", "answer", "early", "error"}
    PROVE  spent' \in [Budgets -> Nat]
  <1>1. b \in Budgets  BY DEF Budgets
  <1>2. spent' = [spent EXCEPT ![b] = spent[b] + 1]  BY DEF Spend
  <1> HIDE DEF Budgets
  <1> QED  BY <1>1, <1>2

\* Requests and answers the station or the link takes away.
LEMMA StationTypes ==
    ASSUME TypeInv, StationHandle
    PROVE  TypeInv'
  <1> DEFINE r == Head(toStation)
  <1>1. toStation # <<>> /\ toStation \in Seq(Good) /\ toClient \in Seq(Answer)
    BY DEF StationHandle, TypeInv, TypeOK
  <1>2. r \in Good /\ toStation' = Tail(toStation) /\ Tail(toStation) \in Seq(Good)
    BY <1>1, HeadTailProperties DEF StationHandle
  <1>3. Good \subseteq Request  BY DEF Good
  <1>4. toStation' \in Seq(Good) /\ toStation' \in Seq(Request)  BY <1>2, <1>3
  <1>5. mode' \in {"normal", "programming"}  BY DEF StationHandle, TypeInv, TypeOK
  <1>6. UNCHANGED <<client, stale, duplicated, timeouts, results, told, started>>
    BY DEF StationHandle
  <1>7. /\ toClient' \in Seq(Answer) /\ decoder' \in [Variables -> Values]
        /\ held' \in [Tasks -> SUBSET Values] /\ spent' \in [Budgets -> Nat]
    <2>0. /\ decoder \in [Variables -> Values] /\ held \in [Tasks -> SUBSET Values]
          /\ spent \in [Budgets -> Nat]
      BY DEF TypeInv, TypeOK
    <2>1. CASE /\ r.type = "read"
               /\ toClient' = Append(toClient, [type |-> "result", variable |-> r.variable,
                                                value |-> decoder[r.variable]])
               /\ UNCHANGED <<decoder, held, spent>>
      <3>1. r.variable \in Variables  BY <1>2, <2>1 DEF Good, Request
      <3>2. [type |-> "result", variable |-> r.variable, value |-> decoder[r.variable]] \in Answer
        BY <2>0, <3>1 DEF Answer
      <3> QED  BY <1>1, <2>0, <2>1, <3>2, AppendProperties
    <2>2. CASE /\ r.type = "read" /\ Spend("error")
               /\ toClient' = Append(toClient, [type |-> "error"])
               /\ UNCHANGED <<decoder, held>>
      <3>1. [type |-> "error"] \in Answer  BY DEF Answer
      <3>2. spent' \in [Budgets -> Nat]  BY <2>0, <2>2, SpendTypes
      <3> QED  BY <1>1, <2>0, <2>2, <3>1, <3>2, AppendProperties
    <2>3. CASE /\ r.type = "write"
               /\ decoder' = [decoder EXCEPT ![r.variable] = r.value]
               /\ held' = [t \in Tasks |-> IF Variable[t] = r.variable
                                           THEN held[t] \union {r.value} ELSE held[t]]
               /\ UNCHANGED <<toClient, spent>>
      <3>1. r.value \in Values  BY <1>2, <2>3 DEF Good
      <3>2. decoder' \in [Variables -> Values]  BY <2>0, <2>3, <3>1
      <3>3. held' \in [Tasks -> SUBSET Values]  BY <2>0, <2>3, <3>1
      <3> QED  BY <1>1, <2>0, <2>3, <3>2, <3>3
    <2>4. CASE r.type = "write" /\ Spend("error") /\ UNCHANGED <<decoder, held, toClient>>
      <3>1. spent' \in [Budgets -> Nat]  BY <2>0, <2>4, SpendTypes
      <3> QED  BY <1>1, <2>0, <2>4, <3>1
    <2>5. CASE /\ r.type = "powerOn" /\ toClient' = Append(toClient, PowerOn)
               /\ UNCHANGED <<decoder, held, spent>>
      <3>1. PowerOn \in Answer  BY DEF PowerOn, Answer
      <3> QED  BY <1>1, <2>0, <2>5, <3>1, AppendProperties
    <2> QED  BY <2>1, <2>2, <2>3, <2>4, <2>5 DEF StationHandle
  <1>8. TypeOK'  BY <1>4, <1>5, <1>6, <1>7 DEF TypeInv, TypeOK, client
  <1> QED  BY <1>4, <1>6, <1>8 DEF TypeInv, client

LEMMA TypeStarts == Init => TypeInv
  <1> SUFFICES ASSUME Init PROVE TypeInv  OBVIOUS
  <1>1. /\ <<>> \in Seq(Call) /\ Len(<<>>) <= 1 /\ <<>> \in Seq(Calls(started))
        /\ <<>> \in Seq(Request) /\ <<>> \in Seq(Good) /\ <<>> \in Seq(Answer)
    OBVIOUS
  <1>2. /\ results \in [Tasks -> Nat] /\ timeouts \in [Tasks -> Nat]
        /\ held \in [Tasks -> SUBSET Values] /\ spent \in [Budgets -> Nat]
    BY DEF Init
  <1> QED  BY <1>1, <1>2 DEF Init, TypeInv, TypeOK

LEMMA TypeStep == TypeInv /\ [Next]_vars => TypeInv'
  <1> SUFFICES ASSUME TypeInv, [Next]_vars PROVE TypeInv'  OBVIOUS
  <1>0. /\ started \in SUBSET Tasks /\ timeouts \in [Tasks -> Nat] /\ toClient \in Seq(Answer)
        /\ decoder \in [Variables -> Values] /\ spent \in [Budgets -> Nat]
    BY DEF TypeInv, TypeOK
  <1>1. ASSUME NEW t \in Tasks, Start(t)  PROVE TypeInv'
    <2> DEFINE s == Perform([Working EXCEPT !.kept = pending], [task |-> t, retries |-> 0])
    <2>1. /\ started' = started \union {t} /\ started' \in SUBSET Tasks
          /\ s \in Work(started') /\ Apply(s)
      BY <1>1, StartTypes DEF Calls1
    <2>2. UNCHANGED <<station, spent>> /\ timeouts' = timeouts /\ toClient' = toClient
      BY <1>1 DEF Start
    <2> HIDE DEF s
    <2> QED  BY <1>0, <2>1, <2>2, AppliedTypes
  <1>2. CASE Verify
    <2> DEFINE q == [Working EXCEPT !.kept = pending, !.verifying = Tail(verifying)]
               s == ReadVariable(q, Head(verifying))
    <2>1. q \in Work(started) /\ Head(verifying) \in Calls(started) /\ Apply(s)
      BY <1>2, VerifyTypes
    <2> HIDE DEF q
    <2>2. s \in Work(started)  BY <1>0, <2>1, Reads
    <2>3. UNCHANGED <<station, spent>> /\ timeouts' = timeouts /\ toClient' = toClient
          /\ started' = started
      BY <1>2 DEF Verify
    <2> HIDE DEF s
    <2> QED  BY <1>0, <2>1, <2>2, <2>3, AppliedTypes
  <1>3. CASE ProgrammingTimeout
    <2> DEFINE s == CallbackError(RestorePower(StopTimeout([Working EXCEPT !.kept = pending])),
                                  armed[1])
    <2>1. /\ s \in Work(started) /\ Apply(s) /\ armed[1] \in Calls(started)
          /\ timeouts' = [timeouts EXCEPT ![armed[1].task] = timeouts[armed[1].task] + 1]
      BY <1>3, TimeoutTypes DEF Calls1
    <2>2. UNCHANGED <<station, spent>> /\ toClient' = toClient /\ started' = started
      BY <1>3 DEF ProgrammingTimeout
    <2>3. timeouts' \in [Tasks -> Nat]
      <3>1. armed[1].task \in Tasks  BY <1>0, <2>1 DEF Calls
      <3> QED  BY <1>0, <2>1, <3>1
    <2> HIDE DEF s
    <2> QED  BY <1>0, <2>1, <2>2, <2>3, AppliedTypes
  <1>4. CASE ParseMessage
    <2>1. UNCHANGED <<station, spent>> /\ timeouts' = timeouts /\ started' = started
      BY <1>4 DEF ParseMessage
    <2>2. PICK s \in Work(started) : Apply(s) /\ toClient' \in Seq(Answer)
      BY <1>4, ParseTypes, ShownTypes
    <2> QED  BY <1>0, <2>1, <2>2, AppliedTypes
  <1>5. CASE ResendRead \/ ResendPower
    <2>1. PICK x \in Good : toStation' = toStation \o Again(x)
      <3>1. CASE ResendRead
        <4>1. PICK i \in DOMAIN pending : toStation' = toStation \o Again(ReadRequest(pending[i].task))
          BY <3>1 DEF ResendRead
        <4>2. pending[i].task \in Tasks  BY <4>1, ElementOfSeq DEF TypeInv, Calls, Call
        <4> QED  BY <4>1, <4>2, TaskTypes
      <3>2. CASE ResendPower
        <4>1. PowerOn \in [type: {"powerOn"}] /\ PowerOn.type # "write"  BY DEF PowerOn
        <4>2. PowerOn \in Good  BY <4>1 DEF Good, Request
        <4> QED  BY <3>2, <4>2 DEF ResendPower
      <3> QED  BY <1>5, <3>1, <3>2
    <2>2. toStation' \in Seq(Good)
      <3>1. Again(x) \in Seq(Good)  BY <2>1 DEF Again
      <3> QED  BY <2>1, <3>1, ConcatProperties DEF TypeInv
    <2>3. Good \subseteq Request  BY DEF Good
    <2>4. toStation' \in Seq(Request)  BY <2>2, <2>3
    <2>5. spent' \in [Budgets -> Nat]  BY <1>0, <1>5, SpendTypes DEF ResendRead, ResendPower
    <2>6. duplicated' \in BOOLEAN
      BY <1>5 DEF ResendRead, ResendPower, history, TypeInv, TypeOK
    <2>7. /\ UNCHANGED <<client, station, held, stale, timeouts, toClient, results, told, started>>
      BY <1>5 DEF ResendRead, ResendPower, history
    <2>8. TypeOK'  BY <2>4, <2>5, <2>6, <2>7 DEF TypeInv, TypeOK, client, station
    <2> QED  BY <2>2, <2>7, <2>8 DEF TypeInv, client
  <1>6. CASE StationHandle  BY <1>6, StationTypes
  <1>7. CASE LoseRequest \/ LoseAnswer
    <2>1. /\ toStation' \in Seq(Good) /\ toClient' \in Seq(Answer)
          /\ UNCHANGED <<client, station, history, results, told, started>>
      BY <1>0, <1>7, HeadTailProperties DEF LoseRequest, LoseAnswer, TypeInv
    <2>2. spent' \in [Budgets -> Nat]  BY <1>0, <1>7, SpendTypes DEF LoseRequest, LoseAnswer
    <2>3. Good \subseteq Request  BY DEF Good
    <2>4. toStation' \in Seq(Request)  BY <2>1, <2>3
    <2>5. TypeOK'  BY <2>1, <2>2, <2>4 DEF TypeInv, TypeOK, client, station, history
    <2> QED  BY <2>1, <2>5 DEF TypeInv, client
  <1>8. CASE UNCHANGED vars
    BY <1>8 DEF vars, client, station, history, TypeInv, TypeOK
  <1> QED  BY <1>1, <1>2, <1>3, <1>4, <1>5, <1>6, <1>7, <1>8 DEF Next

\* Every variable has its type, whatever is called, lost, late or wrong.
THEOREM TypeCorrect == Spec => []TypeOK
  <1>1. TypeInv => TypeOK  BY DEF TypeInv
  <1> QED  BY <1>1, TypeStarts, TypeStep, PTL DEF Spec

-----------------------------------------------------------------------------
(* How often a task is under way: calls that wait for an answer, or for the  *)
(* check of what was written.                                                *)

Indices(s, t) == {i \in DOMAIN s : s[i].task = t}
Count(s, t)   == Cardinality(Indices(s, t))
One(c, t)     == IF c.task = t THEN 1 ELSE 0

\* Calls among the first n observers.
Upto(n, t) == Cardinality({i \in 1 .. n : pending[i].task = t})

\* Every call reports once at most: what is under way may still report.
OnceInv ==
    \A t \in Tasks :
        /\ results[t] + Count(pending, t) + Count(verifying, t) <= 1 + timeouts[t]
        /\ t \notin started => results[t] + Count(pending, t) + Count(verifying, t) = 0

\* What task t has reported or may still report in state s of a handler.
Share(s, t) == s.results[t] + Count(s.kept, t) + Count(s.added, t) + Count(s.verifying, t)

LEMMA CountType ==
    ASSUME NEW S, NEW s \in Seq(S), NEW t
    PROVE  IsFiniteSet(Indices(s, t)) /\ Count(s, t) \in Nat
  <1>1. DOMAIN s = 1 .. Len(s) /\ Len(s) \in Nat  BY LenProperties
  <1>2. IsFiniteSet(1 .. Len(s))  BY <1>1, FS_Interval
  <1>3. Indices(s, t) \in SUBSET (1 .. Len(s))  BY <1>1 DEF Indices
  <1>4. IsFiniteSet(Indices(s, t))  BY <1>2, <1>3, FS_Subset
  <1> QED  BY <1>4, FS_CardinalityType DEF Count

\* A set that fits into another one is not larger.
LEMMA NotMore ==
    ASSUME NEW A, NEW B, IsFiniteSet(A), IsFiniteSet(B), NEW f \in [A -> B],
           \A x, y \in A : f[x] = f[y] => x = y
    PROVE  Cardinality(A) <= Cardinality(B)
  <1>1. Cardinality(A) \in Nat /\ Cardinality(B) \in Nat  BY FS_CardinalityType
  <1>2. ~(Cardinality(B) < Cardinality(A))  BY FS_PigeonHole
  <1> QED  BY <1>1, <1>2

LEMMA CountEmpty ==
    ASSUME NEW t
    PROVE  Count(<<>>, t) = 0
  <1>1. Indices(<<>>, t) = {}  BY DEF Indices
  <1> QED  BY <1>1, FS_EmptySet DEF Count

LEMMA CountAppend ==
    ASSUME NEW S, NEW s \in Seq(S), NEW c \in S, NEW t
    PROVE  Count(Append(s, c), t) = Count(s, t) + One(c, t)
  <1> DEFINE n == Len(s)
  <1>1. /\ n \in Nat /\ DOMAIN s = 1 .. n
        /\ DOMAIN Append(s, c) = 1 .. (n + 1)
        /\ \A i \in 1 .. n : Append(s, c)[i] = s[i]
        /\ Append(s, c)[n + 1] = c
    BY AppendProperties, LenProperties
  <1>2. IsFiniteSet(Indices(s, t)) /\ Count(s, t) \in Nat  BY CountType
  <1> HIDE DEF n
  <1>3. n + 1 \notin Indices(s, t) /\ 1 .. (n + 1) = (1 .. n) \union {n + 1}  BY <1>1 DEF Indices
  <1>4. CASE c.task = t
    <2>1. Indices(Append(s, c), t) = Indices(s, t) \union {n + 1}
      BY <1>1, <1>3, <1>4 DEF Indices
    <2>2. Cardinality(Indices(s, t) \union {n + 1}) = Cardinality(Indices(s, t)) + 1
      BY <1>2, <1>3, FS_AddElement
    <2> QED  BY <1>4, <2>1, <2>2 DEF Count, One
  <1>5. CASE c.task # t
    <2>1. Indices(Append(s, c), t) = Indices(s, t)
      BY <1>1, <1>3, <1>5 DEF Indices
    <2> QED  BY <1>2, <1>5, <2>1 DEF Count, One
  <1> QED  BY <1>4, <1>5

LEMMA CountConcat ==
    ASSUME NEW S, NEW a \in Seq(S), NEW b \in Seq(S), NEW t
    PROVE  Count(a \o b, t) <= Count(a, t) + Count(b, t)
  <1> DEFINE n == Len(a)
             m == Len(b)
             J == {i \in (n + 1) .. (n + m) : (a \o b)[i].task = t}
             f == [i \in J |-> i - n]
  <1>1. /\ n \in Nat /\ DOMAIN a = 1 .. n /\ m \in Nat /\ DOMAIN b = 1 .. m
        /\ a \o b \in Seq(S) /\ Len(a \o b) = n + m
        /\ \A i \in 1 .. (n + m) : (a \o b)[i] = IF i <= n THEN a[i] ELSE b[i - n]
    BY ConcatProperties, LenProperties
  <1>2. DOMAIN (a \o b) = 1 .. (n + m)  BY <1>1, LenProperties
  <1>3. /\ IsFiniteSet(Indices(a, t)) /\ Count(a, t) \in Nat
        /\ IsFiniteSet(Indices(b, t)) /\ Count(b, t) \in Nat
        /\ IsFiniteSet(Indices(a \o b, t)) /\ Count(a \o b, t) \in Nat
    BY <1>1, CountType
  <1> HIDE DEF n, m
  <1>4. Indices(a \o b, t) = Indices(a, t) \union J
    <2>1. 1 .. (n + m) = (1 .. n) \union ((n + 1) .. (n + m))  BY <1>1
    <2>2. \A i \in 1 .. n : (a \o b)[i] = a[i]  BY <1>1
    <2> HIDE DEF J
    <2> QED  BY <1>1, <1>2, <2>1, <2>2 DEF Indices, J
  <1>5. f \in [J -> Indices(b, t)]
    <2> SUFFICES ASSUME NEW i \in J PROVE i - n \in Indices(b, t)  OBVIOUS
    <2>1. i \in 1 .. (n + m) /\ ~(i <= n) /\ i - n \in 1 .. m  BY <1>1
    <2>2. (a \o b)[i] = b[i - n]  BY <1>1, <2>1
    <2> QED  BY <1>1, <2>1, <2>2 DEF Indices
  <1>6. \A x, y \in J : f[x] = f[y] => x = y  BY <1>1
  <1>7. IsFiniteSet(J)
    <2>1. IsFiniteSet((n + 1) .. (n + m))  BY <1>1, FS_Interval
    <2> QED  BY <2>1, FS_Subset
  <1> HIDE DEF f, J
  <1>8. Cardinality(J) <= Cardinality(Indices(b, t))  BY <1>3, <1>5, <1>6, <1>7, NotMore
  <1>9. Cardinality(Indices(a, t) \union J)
            = Cardinality(Indices(a, t)) + Cardinality(J) - Cardinality(Indices(a, t) \cap J)
    BY <1>3, <1>7, FS_Union
  <1>10. Cardinality(J) \in Nat /\ Cardinality(Indices(a, t) \cap J) \in Nat
    <2>1. IsFiniteSet(Indices(a, t) \cap J)  BY <1>7, FS_Subset
    <2> QED  BY <1>7, <2>1, FS_CardinalityType
  <1> QED  BY <1>3, <1>4, <1>8, <1>9, <1>10 DEF Count

LEMMA CountTail ==
    ASSUME NEW S, NEW s \in Seq(S), s # <<>>, NEW t
    PROVE  Count(Tail(s), t) + One(Head(s), t) <= Count(s, t)
  <1> DEFINE n == Len(s)
             f == [i \in Indices(Tail(s), t) |-> i + 1]
             R == Indices(s, t) \ {1}
  <1>1. /\ n \in Nat /\ n >= 1 /\ DOMAIN s = 1 .. n
        /\ Tail(s) \in Seq(S) /\ DOMAIN Tail(s) = 1 .. (n - 1)
        /\ \A i \in 1 .. (n - 1) : Tail(s)[i] = s[i + 1]
        /\ Head(s) = s[1]
    <2>1. Tail(s) \in Seq(S) /\ Len(Tail(s)) = n - 1 /\ Head(s) = s[1]
          /\ \A i \in 1 .. Len(Tail(s)) : Tail(s)[i] = s[i + 1]
      BY HeadTailProperties
    <2>2. DOMAIN Tail(s) = 1 .. (n - 1)  BY <2>1, LenProperties
    <2>3. n \in Nat /\ DOMAIN s = 1 .. n /\ n # 0  BY LenProperties, EmptySeq
    <2> QED  BY <2>1, <2>2, <2>3
  <1>2. /\ IsFiniteSet(Indices(s, t)) /\ Count(s, t) \in Nat
        /\ IsFiniteSet(Indices(Tail(s), t)) /\ Count(Tail(s), t) \in Nat
    BY <1>1, CountType
  <1> HIDE DEF n
  <1>3. f \in [Indices(Tail(s), t) -> R]
    <2> SUFFICES ASSUME NEW i \in Indices(Tail(s), t) PROVE i + 1 \in R  OBVIOUS
    <2>1. i \in 1 .. (n - 1) /\ Tail(s)[i].task = t  BY <1>1 DEF Indices
    <2>2. i + 1 \in 1 .. n /\ i + 1 # 1 /\ s[i + 1].task = t  BY <1>1, <2>1
    <2> QED  BY <1>1, <2>2 DEF Indices
  <1>4. \A x, y \in Indices(Tail(s), t) : f[x] = f[y] => x = y
    <2>1. \A x \in Indices(Tail(s), t) : x \in Nat  BY <1>1 DEF Indices
    <2> QED  BY <2>1
  <1>5. /\ IsFiniteSet(R)
        /\ Cardinality(R) = IF 1 \in Indices(s, t) THEN Cardinality(Indices(s, t)) - 1
                                                  ELSE Cardinality(Indices(s, t))
    BY <1>2, FS_RemoveElement
  <1> HIDE DEF f, R
  <1>6. Cardinality(Indices(Tail(s), t)) <= Cardinality(R)  BY <1>2, <1>3, <1>4, <1>5, NotMore
  <1>7. 1 \in Indices(s, t) <=> Head(s).task = t
    <2>1. 1 \in 1 .. n  BY <1>1
    <2> QED  BY <1>1, <2>1 DEF Indices
  <1> QED  BY <1>2, <1>5, <1>6, <1>7 DEF Count, One

\* Going through the observers.
LEMMA UptoNext ==
    ASSUME TypeInv, NEW t
    PROVE  /\ Upto(0, t) = 0
           /\ Upto(Len(pending), t) = Count(pending, t)
           /\ \A n \in 1 .. Len(pending) :
                  Upto(n - 1, t) \in Nat /\ Upto(n, t) = Upto(n - 1, t) + One(pending[n], t)
  <1> DEFINE I(n) == {i \in 1 .. n : pending[i].task = t}
  <1>1. DOMAIN pending = 1 .. Len(pending) /\ Len(pending) \in Nat
    BY LenProperties DEF TypeInv
  <1>2. Upto(0, t) = 0
    <2>1. I(0) = {}  OBVIOUS
    <2> QED  BY <2>1, FS_EmptySet DEF Upto
  <1>3. Upto(Len(pending), t) = Count(pending, t)  BY <1>1 DEF Upto, Count, Indices
  <1>4. ASSUME NEW n \in 1 .. Len(pending)
        PROVE  Upto(n - 1, t) \in Nat /\ Upto(n, t) = Upto(n - 1, t) + One(pending[n], t)
    <2>1. n \in Nat /\ n >= 1 /\ 1 .. n = (1 .. (n - 1)) \union {n} /\ n \notin 1 .. (n - 1)
      BY <1>1
    <2>2. IsFiniteSet(I(n - 1))
      <3>1. IsFiniteSet(1 .. (n - 1))  BY <2>1, FS_Interval
      <3> QED  BY <3>1, FS_Subset
    <2>3. Cardinality(I(n - 1)) \in Nat  BY <2>2, FS_CardinalityType
    <2>4. n \notin I(n - 1)  BY <2>1
    <2>5. Cardinality(I(n - 1) \union {n}) = Cardinality(I(n - 1)) + 1
      <3> HIDE DEF I
      <3> QED  BY <2>2, <2>4, FS_AddElement
    <2>6. I(n) = IF pending[n].task = t THEN I(n - 1) \union {n} ELSE I(n - 1)  BY <2>1
    <2>7. Upto(n, t) = Cardinality(I(n)) /\ Upto(n - 1, t) = Cardinality(I(n - 1))  BY DEF Upto
    <2> HIDE DEF I
    <2> QED  BY <2>3, <2>5, <2>6, <2>7 DEF One
  <1> QED  BY <1>2, <1>3, <1>4

\* A call that goes on, or reports, takes a share of its own.
LEMMA ShareTaken ==
    ASSUME NEW T \in SUBSET Tasks, NEW s \in Work(T), NEW r, NEW c \in Calls(T), NEW value,
           Calls1(s, r, T, c.task) \/ Reports1(s, r, T, c.task, value) \/ Keeps1(s, r, T, c)
    PROVE  \A t \in Tasks : /\ Share(s, t) \in Nat /\ Share(r, t) \in Nat
                            /\ Share(r, t) <= Share(s, t) + One(c, t)
  <1> SUFFICES ASSUME NEW t \in Tasks
               PROVE  /\ Share(s, t) \in Nat /\ Share(r, t) \in Nat
                      /\ Share(r, t) <= Share(s, t) + One(c, t)
    OBVIOUS
  <1>0. c.task \in Tasks  BY DEF Calls
  <1>1. r \in Work(T)  BY DEF Calls1, Reports1, Keeps1
  <1>2. /\ s.results[t] \in Nat /\ s.kept \in Seq(Calls(T)) /\ s.added \in Seq(Calls(T))
        /\ s.verifying \in Seq(Calls(T)) /\ s.results \in [Tasks -> Nat]
    BY DEF Work
  <1>3. /\ r.results[t] \in Nat /\ r.kept \in Seq(Calls(T)) /\ r.added \in Seq(Calls(T))
        /\ r.verifying \in Seq(Calls(T))
    BY <1>1 DEF Work
  <1> DEFINE k == Count(s.kept, t)
             a == Count(s.added, t)
             v == Count(s.verifying, t)
  <1>4. k \in Nat /\ a \in Nat /\ v \in Nat  BY <1>2, CountType
  <1>5. Count(r.kept, t) \in Nat /\ Count(r.added, t) \in Nat /\ Count(r.verifying, t) \in Nat
    BY <1>3, CountType
  <1>6. One(c, t) \in {0, 1}  BY DEF One
  <1>7. CASE Calls1(s, r, T, c.task)
    <2>1. r.kept = s.kept /\ r.results = s.results  BY <1>7 DEF Calls1
    <2>2. CASE r.added = s.added /\ r.verifying = s.verifying
      BY <1>2, <1>4, <1>6, <2>1, <2>2 DEF Share
    <2>3. CASE \E d \in Calls(T) : /\ d.task = c.task
                                   /\ r.added = s.added /\ r.verifying = Append(s.verifying, d)
      <3>1. PICK d \in Calls(T) : /\ d.task = c.task
                                  /\ r.added = s.added /\ r.verifying = Append(s.verifying, d)
        BY <2>3
      <3>2. Count(r.verifying, t) = v + One(c, t)
        <4>1. Count(Append(s.verifying, d), t) = v + One(d, t)  BY <1>2, CountAppend
        <4> QED  BY <3>1, <4>1 DEF One
      <3> HIDE DEF k, a, v
      <3>3. Count(r.kept, t) = k /\ Count(r.added, t) = a  BY <2>1, <3>1 DEF k, a
      <3>4. Share(r, t) = s.results[t] + k + a + (v + One(c, t))
        BY <2>1, <3>2, <3>3 DEF Share
      <3>5. Share(s, t) = s.results[t] + k + a + v  BY DEF Share, k, a, v
      <3> QED  BY <1>2, <1>4, <1>6, <3>4, <3>5
    <2>4. CASE \E d \in Calls(T) : /\ d.task = c.task
                                   /\ r.added = Append(s.added, d) /\ r.verifying = s.verifying
      <3>1. PICK d \in Calls(T) : /\ d.task = c.task
                                  /\ r.added = Append(s.added, d) /\ r.verifying = s.verifying
        BY <2>4
      <3>2. Count(r.added, t) = a + One(c, t)
        <4>1. Count(Append(s.added, d), t) = a + One(d, t)  BY <1>2, CountAppend
        <4> QED  BY <3>1, <4>1 DEF One
      <3> HIDE DEF k, a, v
      <3>3. Count(r.kept, t) = k /\ Count(r.verifying, t) = v  BY <2>1, <3>1 DEF k, v
      <3>4. Share(r, t) = s.results[t] + k + (a + One(c, t)) + v
        BY <2>1, <3>2, <3>3 DEF Share
      <3>5. Share(s, t) = s.results[t] + k + a + v  BY DEF Share, k, a, v
      <3> QED  BY <1>2, <1>4, <1>6, <3>4, <3>5
    <2> QED  BY <1>7, <2>2, <2>3, <2>4 DEF Calls1
  <1>8. CASE Reports1(s, r, T, c.task, value)
    <2>1. r.kept = s.kept /\ r.added = s.added /\ r.verifying = s.verifying  BY <1>8 DEF Reports1
    <2>2. r.results = [s.results EXCEPT ![c.task] = s.results[c.task] + 1]  BY <1>8 DEF Reports1
    <2>3. r.results[t] = s.results[t] + One(c, t)  BY <1>0, <1>2, <2>2 DEF One
    <2>4. Share(r, t) = s.results[t] + One(c, t) + k + a + v  BY <2>1, <2>3 DEF Share
    <2>5. Share(s, t) = s.results[t] + k + a + v  BY DEF Share
    <2> HIDE DEF k, a, v
    <2> QED  BY <1>2, <1>4, <1>6, <2>4, <2>5
  <1>9. CASE Keeps1(s, r, T, c)
    <2>1. /\ r.kept = Append(s.kept, c) /\ r.added = s.added /\ r.verifying = s.verifying
          /\ r.results = s.results
      BY <1>9 DEF Keeps1
    <2>2. Count(r.kept, t) = k + One(c, t)  BY <1>2, <2>1, CountAppend
    <2>3. Share(r, t) = s.results[t] + (k + One(c, t)) + a + v  BY <2>1, <2>2 DEF Share
    <2>4. Share(s, t) = s.results[t] + k + a + v  BY DEF Share
    <2> HIDE DEF k, a, v
    <2> QED  BY <1>2, <1>4, <1>6, <2>3, <2>4
  <1> QED  BY <1>7, <1>8, <1>9

\* What a handler leaves behind takes no more than its share.
LEMMA AppliedShare ==
    ASSUME TypeInv, NEW T \in SUBSET Tasks, NEW s \in Work(T), Apply(s), NEW t \in Tasks
    PROVE  /\ results'[t] + Count(pending', t) + Count(verifying', t) \in Nat
           /\ results'[t] + Count(pending', t) + Count(verifying', t) <= Share(s, t)
  <1>1. /\ s.results[t] \in Nat /\ s.kept \in Seq(Calls(T)) /\ s.added \in Seq(Calls(T))
        /\ s.verifying \in Seq(Calls(T))
    BY DEF Work
  <1>2. /\ Count(s.kept, t) \in Nat /\ Count(s.added, t) \in Nat /\ Count(s.verifying, t) \in Nat
        /\ Count(s.kept \o s.added, t) \in Nat
        /\ Count(s.kept \o s.added, t) <= Count(s.kept, t) + Count(s.added, t)
    BY <1>1, CountType, CountConcat, ConcatProperties
  <1>3. pending' = s.kept \o s.added /\ verifying' = s.verifying /\ results' = s.results
    BY DEF Apply
  <1>4. results'[t] + Count(pending', t) + Count(verifying', t)
            = s.results[t] + Count(s.kept \o s.added, t) + Count(s.verifying, t)
    BY <1>3
  <1> QED  BY <1>1, <1>2, <1>4 DEF Share

\* parseDatagrams(): every observer is asked once.
LEMMA ShownShare ==
    ASSUME TypeInv, NEW m \in Answer, m.type # "powerOn", NEW t \in Tasks
    PROVE  Share(ShownTo(m, pending), t)
               <= results[t] + Count(pending, t) + Count(verifying, t)
  <1> DEFINE N == Len(pending)
             Base == results[t] + Count(verifying, t)
             Fine(n) == {s \in Work(started) : Share(s, t) <= Base + Upto(n, t)}
             Holds == [n \in 0 .. N |-> Fine(n)]
  <1>1. N \in Nat /\ DOMAIN pending = 1 .. N /\ \A n \in 1 .. N : pending[n] \in Calls(started)
    BY LenProperties, ElementOfSeq DEF TypeInv
  <1>2. /\ started \in SUBSET Tasks /\ decoder \in [Variables -> Values]
        /\ results[t] \in Nat /\ verifying \in Seq(Calls(started))
    BY DEF TypeInv, TypeOK
  <1>3. Base \in Nat  BY <1>2, CountType
  <1>4. /\ Upto(0, t) = 0 /\ Upto(N, t) = Count(pending, t)
        /\ \A n \in 1 .. N : Upto(n - 1, t) \in Nat
                             /\ Upto(n, t) = Upto(n - 1, t) + One(pending[n], t)
    BY UptoNext
  <1>5. Working \in Fine(0)
    <2>1. Working \in Work(started)  BY <1>2, WorkingTypes
    <2>2. /\ Working.results = results /\ Working.kept = <<>> /\ Working.added = <<>>
          /\ Working.verifying = verifying
      BY DEF Working
    <2>3. Share(Working, t) = results[t] + 0 + 0 + Count(verifying, t)
      BY <2>2, CountEmpty DEF Share
    <2>4. Count(verifying, t) \in Nat  BY <1>2, CountType
    <2> HIDE DEF Working
    <2> QED  BY <1>2, <1>4, <2>1, <2>3, <2>4
  <1>6. ASSUME NEW n \in 1 .. N, NEW s \in Fine(n - 1)  PROVE Observe(s, pending[n], m) \in Fine(n)
    <2> DEFINE r == Observe(s, pending[n], m)
               c == pending[n]
    <2>1. s \in Work(started) /\ c \in Calls(started)  BY <1>1, <1>6
    <2>2. \/ Calls1(s, r, started, c.task) \/ Reports1(s, r, started, c.task, m.value)
          \/ Keeps1(s, r, started, c)
      BY <1>2, <2>1, Observes
    <2> HIDE DEF r, c
    <2>3. /\ Share(s, t) \in Nat /\ Share(r, t) \in Nat
          /\ Share(r, t) <= Share(s, t) + One(c, t)
      BY <1>2, <2>1, <2>2, ShareTaken
    <2>4. r \in Work(started)  BY <2>2 DEF Calls1, Reports1, Keeps1
    <2>5. Share(s, t) <= Base + Upto(n - 1, t)  BY <1>6
    <2>6. Upto(n - 1, t) \in Nat /\ Upto(n, t) = Upto(n - 1, t) + One(c, t)  BY <1>4 DEF c
    <2>7. One(c, t) \in Nat  BY DEF One
    <2> HIDE DEF Base
    <2>8. Share(r, t) <= Base + Upto(n, t)  BY <1>3, <2>3, <2>5, <2>6, <2>7
    <2> QED  BY <2>4, <2>8 DEF r
  <1> HIDE DEF Fine
  <1>7. Working \in Holds[0]  BY <1>1, <1>5
  <1>8. \A n \in 1 .. N : \A s \in Holds[n - 1] : Observe(s, pending[n], m) \in Holds[n]
    <2> SUFFICES ASSUME NEW n \in 1 .. N, NEW s \in Holds[n - 1]
                 PROVE  Observe(s, pending[n], m) \in Holds[n]
      OBVIOUS
    <2>1. n - 1 \in 0 .. N /\ n \in 0 .. N  BY <1>1
    <2> QED  BY <1>6, <2>1
  <1> HIDE DEF Holds, N
  <1>9. ShownTo(m, pending) \in Holds[N]  BY <1>1, <1>7, <1>8, ShownToAll
  <1>10. ShownTo(m, pending) \in Fine(N)  BY <1>1, <1>9 DEF Holds
  <1>11. Share(ShownTo(m, pending), t) <= Base + Count(pending, t)
    BY <1>4, <1>10 DEF Fine
  <1>12. Count(pending, t) \in Nat /\ Count(verifying, t) \in Nat
    BY <1>2, CountType DEF TypeInv
  <1>13. Base + Count(pending, t) = results[t] + Count(pending, t) + Count(verifying, t)
    BY <1>2, <1>12
  <1> QED  BY <1>11, <1>13

LEMMA OnceStarts == Init => OnceInv
  <1> SUFFICES ASSUME Init, NEW t \in Tasks
               PROVE  /\ results[t] + Count(pending, t) + Count(verifying, t) = 0
                      /\ timeouts[t] = 0
    BY DEF OnceInv
  <1>1. pending = <<>> /\ verifying = <<>> /\ results[t] = 0 /\ timeouts[t] = 0  BY DEF Init
  <1>2. Count(pending, t) = 0 /\ Count(verifying, t) = 0  BY <1>1, CountEmpty
  <1> QED  BY <1>1, <1>2

\* What of the client's calls no step of the link, of the station and of the resends touches.
LEMMA OnceUntouched ==
    ASSUME OnceInv, UNCHANGED <<pending, verifying, results, started, timeouts>>
    PROVE  OnceInv'
  BY DEF OnceInv, Count, Indices

\* The handlers: each task keeps to its share, but for a call that is new and one whose time
\* is up.
LEMMA OnceHandled ==
    ASSUME TypeInv, OnceInv, NEW T \in SUBSET Tasks, NEW s \in Work(T), Apply(s),
           NEW extra \in [Tasks -> {0, 1}],
           \A t \in Tasks : Share(s, t) <= results[t] + Count(pending, t) + Count(verifying, t)
                                               + extra[t],
           \A t \in Tasks : extra[t] = 1 =>
               /\ t \in started'
               /\ t \notin started \/ timeouts'[t] = timeouts[t] + 1,
           \A t \in Tasks : timeouts'[t] \in Nat /\ timeouts'[t] >= timeouts[t],
           started \subseteq started'
    PROVE  OnceInv'
  <1> SUFFICES ASSUME NEW t \in Tasks
               PROVE  /\ results'[t] + Count(pending', t) + Count(verifying', t)
                             <= 1 + timeouts'[t]
                      /\ t \notin started'
                            => results'[t] + Count(pending', t) + Count(verifying', t) = 0
    BY DEF OnceInv, Count, Indices
  <1> DEFINE now   == results[t] + Count(pending, t) + Count(verifying, t)
             after == results'[t] + Count(pending', t) + Count(verifying', t)
  <1>1. now \in Nat /\ timeouts[t] \in Nat
    <2>1. results[t] \in Nat /\ timeouts[t] \in Nat  BY DEF TypeInv, TypeOK
    <2>2. Count(pending, t) \in Nat /\ Count(verifying, t) \in Nat  BY CountType DEF TypeInv
    <2> QED  BY <2>1, <2>2
  <1>2. after \in Nat /\ after <= Share(s, t)  BY AppliedShare
  <1>3. Share(s, t) <= now + extra[t] /\ extra[t] \in {0, 1}  OBVIOUS
  <1>4. Share(s, t) \in Nat
    <2>1. /\ s.results[t] \in Nat /\ s.kept \in Seq(Calls(T)) /\ s.added \in Seq(Calls(T))
          /\ s.verifying \in Seq(Calls(T))
      BY DEF Work
    <2>2. Count(s.kept, t) \in Nat /\ Count(s.added, t) \in Nat /\ Count(s.verifying, t) \in Nat
      BY <2>1, CountType
    <2> QED  BY <2>1, <2>2 DEF Share
  <1>5. now <= 1 + timeouts[t] /\ (t \notin started => now = 0)  BY DEF OnceInv
  <1>6. timeouts'[t] \in Nat /\ timeouts'[t] >= timeouts[t]  OBVIOUS
  <1> HIDE DEF now, after
  <1>7. after <= now + extra[t]  BY <1>1, <1>2, <1>3, <1>4
  <1>8. CASE extra[t] = 0
    <2>1. after <= now  BY <1>1, <1>2, <1>7, <1>8
    <2> QED  BY <1>1, <1>2, <1>5, <1>6, <2>1 DEF after
  <1>9. CASE extra[t] = 1
    <2>1. t \in started' /\ (t \notin started \/ timeouts'[t] = timeouts[t] + 1)  BY <1>9
    <2>2. after <= now + 1  BY <1>7, <1>9
    <2>3. after <= 1 + timeouts'[t]  BY <1>1, <1>2, <1>5, <1>6, <2>1, <2>2
    <2> QED  BY <2>1, <2>3 DEF after
  <1> QED  BY <1>3, <1>8, <1>9

LEMMA OnceStep == TypeInv /\ OnceInv /\ [Next]_vars => OnceInv'
  <1> SUFFICES ASSUME TypeInv, OnceInv, [Next]_vars PROVE OnceInv'  OBVIOUS
  <1> DEFINE none == [u \in Tasks |-> 0]
             one(c) == [u \in Tasks |-> One(c, u)]
  <1>0. /\ started \in SUBSET Tasks /\ timeouts \in [Tasks -> Nat] /\ results \in [Tasks -> Nat]
        /\ decoder \in [Variables -> Values]
        /\ pending \in Seq(Calls(started)) /\ verifying \in Seq(Calls(started))
    BY DEF TypeInv, TypeOK
  <1>a. \A t \in Tasks : Count(pending, t) \in Nat /\ Count(verifying, t) \in Nat
    BY <1>0, CountType
  <1>b. none \in [Tasks -> {0, 1}] /\ \A c : one(c) \in [Tasks -> {0, 1}]  BY DEF One
  <1>1. ASSUME NEW t \in Tasks, Start(t)  PROVE OnceInv'
    <2> DEFINE c == [task |-> t, retries |-> 0]
               s == [Working EXCEPT !.kept = pending]
               r == Perform(s, c)
    <2>1. /\ started' = started \union {t} /\ started' \in SUBSET Tasks
          /\ s \in Work(started') /\ c \in Calls(started') /\ c.task = t
          /\ Calls1(s, r, started', t) /\ Apply(r)
      BY <1>1, StartTypes
    <2>2. timeouts' = timeouts /\ t \notin started  BY <1>1 DEF Start
    <2>3. /\ s.kept = pending /\ s.added = <<>> /\ s.verifying = verifying /\ s.results = results
      BY DEF Working
    <2> HIDE DEF c, s, r
    <2>4. \A u \in Tasks : Share(r, u) <= Share(s, u) + One(c, u)
      BY <2>1, ShareTaken
    <2>5. r \in Work(started')  BY <2>1 DEF Calls1
    <2>6. \A u \in Tasks : Share(s, u) = results[u] + Count(pending, u) + Count(verifying, u)
      BY <1>0, <1>a, <2>3, CountEmpty DEF Share
    <2>7. \A u \in Tasks : one(c)[u] = 1 => u = t  BY <2>1 DEF One
    <2>8. \A u \in Tasks : Share(r, u) <= results[u] + Count(pending, u) + Count(verifying, u)
                                              + one(c)[u]
      BY <2>4, <2>6
    <2> DEFINE extra == one(c)
    <2>9. extra \in [Tasks -> {0, 1}]  BY <1>b
    <2> HIDE DEF one
    <2>10. \A u \in Tasks : extra[u] = 1 =>
               /\ u \in started'
               /\ u \notin started \/ timeouts'[u] = timeouts[u] + 1
      BY <2>1, <2>2, <2>7
    <2>11. \A u \in Tasks : timeouts'[u] \in Nat /\ timeouts'[u] >= timeouts[u]  BY <1>0, <2>2
    <2>12. started \subseteq started'  BY <2>1
    <2> HIDE DEF extra
    <2>13. \A u \in Tasks : Share(r, u) <= results[u] + Count(pending, u) + Count(verifying, u)
                                              + extra[u]
      BY <2>8 DEF extra
    <2> QED  BY <2>1, <2>5, <2>9, <2>10, <2>11, <2>12, <2>13, OnceHandled
  <1>2. CASE Verify
    <2> DEFINE c == Head(verifying)
               s == [Working EXCEPT !.kept = pending, !.verifying = Tail(verifying)]
               r == ReadVariable(s, c)
    <2>1. /\ s \in Work(started) /\ c \in Calls(started)
          /\ s.kept = pending /\ s.added = <<>> /\ s.verifying = Tail(verifying)
          /\ s.results = results /\ Apply(r)
      BY <1>2, VerifyTypes
    <2>2. verifying # <<>> /\ timeouts' = timeouts /\ started' = started  BY <1>2 DEF Verify
    <2> HIDE DEF s, c
    <2>3. /\ r \in Work(started)
          /\ r.kept = s.kept /\ r.results = s.results
          /\ r.added = Append(s.added, c) /\ r.verifying = s.verifying
      <3>1. s \in Work(started) /\ c \in Calls(started)  BY <2>1
      <3>2. started \in SUBSET Tasks /\ decoder \in [Variables -> Values]  BY <1>0
      <3> QED  BY <3>1, <3>2, Reads
    <2> HIDE DEF r
    <2>4. ASSUME NEW u \in Tasks
          PROVE  Share(r, u) <= results[u] + Count(pending, u) + Count(verifying, u) + none[u]
      <3>1. Count(r.added, u) = One(c, u)
        <4>1. <<>> \in Seq(Calls(started))  OBVIOUS
        <4>2. Count(Append(<<>>, c), u) = Count(<<>>, u) + One(c, u)  BY <2>1, <4>1, CountAppend
        <4>3. Count(<<>>, u) = 0  BY CountEmpty
        <4>4. One(c, u) \in Nat  BY DEF One
        <4> QED  BY <2>1, <2>3, <4>2, <4>3, <4>4
      <3>2. Count(Tail(verifying), u) + One(c, u) <= Count(verifying, u)
        BY <1>0, <2>2, CountTail DEF c
      <3>3. Share(r, u) = results[u] + Count(pending, u) + One(c, u) + Count(Tail(verifying), u)
        BY <2>1, <2>3, <3>1 DEF Share
      <3>4. Count(Tail(verifying), u) \in Nat
        <4>1. Tail(verifying) \in Seq(Calls(started))  BY <1>0, <2>2, HeadTailProperties
        <4> QED  BY <4>1, CountType
      <3>5. One(c, u) \in Nat /\ results[u] \in Nat  BY <1>0 DEF One
      <3> QED  BY <1>a, <3>2, <3>3, <3>4, <3>5
    <2>5. \A u \in Tasks : none[u] # 1  OBVIOUS
    <2>6. \A u \in Tasks : timeouts'[u] \in Nat /\ timeouts'[u] >= timeouts[u]  BY <1>0, <2>2
    <2> HIDE DEF none
    <2> QED  BY <1>0, <1>b, <2>1, <2>2, <2>3, <2>4, <2>5, <2>6, OnceHandled
  <1>3. CASE ProgrammingTimeout
    <2> DEFINE c == armed[1]
               q == RestorePower(StopTimeout([Working EXCEPT !.kept = pending]))
               r == CallbackError(q, c)
    <2>1. /\ c \in Calls(started) /\ q \in Work(started)
          /\ q.kept = pending /\ q.added = <<>> /\ q.verifying = verifying
          /\ q.results = results
          /\ Calls1(q, r, started, c.task) /\ Apply(r)
          /\ timeouts' = [timeouts EXCEPT ![c.task] = timeouts[c.task] + 1]
      BY <1>3, TimeoutTypes
    <2>2. started' = started  BY <1>3 DEF ProgrammingTimeout
    <2> HIDE DEF c, q, r
    <2>3. \A u \in Tasks : Share(r, u) <= Share(q, u) + One(c, u)
      BY <1>0, <2>1, ShareTaken
    <2>4. r \in Work(started)  BY <2>1 DEF Calls1
    <2>5. \A u \in Tasks : Share(q, u) = results[u] + Count(pending, u) + Count(verifying, u)
      BY <1>0, <1>a, <2>1, CountEmpty DEF Share
    <2>6. \A u \in Tasks : one(c)[u] = 1 => u = c.task  BY DEF One
    <2>7. \A u \in Tasks : Share(r, u) <= results[u] + Count(pending, u) + Count(verifying, u)
                                              + one(c)[u]
      BY <2>3, <2>5
    <2>8. c.task \in started /\ c.task \in Tasks  BY <1>0, <2>1 DEF Calls
    <2>9. \A u \in Tasks : timeouts'[u] \in Nat /\ timeouts'[u] >= timeouts[u]
      BY <1>0, <2>1, <2>8
    <2>10. timeouts'[c.task] = timeouts[c.task] + 1  BY <1>0, <2>1, <2>8
    <2> DEFINE extra == one(c)
    <2>11. extra \in [Tasks -> {0, 1}]  BY <1>b
    <2> HIDE DEF one
    <2>12. \A u \in Tasks : extra[u] = 1 =>
               /\ u \in started'
               /\ u \notin started \/ timeouts'[u] = timeouts[u] + 1
      BY <2>2, <2>6, <2>8, <2>10
    <2> HIDE DEF extra
    <2>13. \A u \in Tasks : Share(r, u) <= results[u] + Count(pending, u) + Count(verifying, u)
                                              + extra[u]
      BY <2>7 DEF extra
    <2>14. started \subseteq started'  BY <2>2
    <2> QED  BY <1>0, <2>1, <2>4, <2>9, <2>11, <2>12, <2>13, <2>14, OnceHandled
  <1>4. CASE ParseMessage
    <2> DEFINE m == Head(toClient)
    <2>1. timeouts' = timeouts /\ started' = started  BY <1>4 DEF ParseMessage
    <2>2. PICK r \in Work(started) :
              /\ Apply(r)
              /\ \A u \in Tasks : Share(r, u) <= results[u] + Count(pending, u) + Count(verifying, u)
      <3> DEFINE s == [[Working EXCEPT !.kept = pending] EXCEPT !.powering = FALSE]
      <3>1. /\ m \in Answer
            /\ \/ m.type = "powerOn" /\ s \in Work(started) /\ Apply(s)
               \/ m.type # "powerOn" /\ Apply(ShownTo(m, pending))
        BY <1>4, ParseTypes
      <3>2. CASE m.type = "powerOn" /\ s \in Work(started) /\ Apply(s)
        <4>1. /\ s.kept = pending /\ s.added = <<>> /\ s.verifying = verifying
              /\ s.results = results
          BY DEF Working
        <4> HIDE DEF s
        <4>2. \A u \in Tasks : Share(s, u) <= results[u] + Count(pending, u) + Count(verifying, u)
          BY <1>0, <1>a, <4>1, CountEmpty DEF Share
        <4> QED  BY <3>2, <4>2
      <3>3. CASE m.type # "powerOn" /\ Apply(ShownTo(m, pending))
        <4>1. \A u \in Tasks : Share(ShownTo(m, pending), u)
                                   <= results[u] + Count(pending, u) + Count(verifying, u)
          BY <3>1, <3>3, ShownShare
        <4>2. ShownTo(m, pending) \in Work(started)  BY <3>1, <3>3, ShownTypes
        <4> QED  BY <3>3, <4>1, <4>2
      <3> QED  BY <3>1, <3>2, <3>3
    <2>3. \A u \in Tasks : Share(r, u) <= results[u] + Count(pending, u) + Count(verifying, u)
                                              + none[u]
      BY <1>0, <1>a, <2>2
    <2>4. \A u \in Tasks : none[u] # 1  OBVIOUS
    <2>5. \A u \in Tasks : timeouts'[u] \in Nat /\ timeouts'[u] >= timeouts[u]  BY <1>0, <2>1
    <2> HIDE DEF none
    <2> QED  BY <1>0, <1>b, <2>1, <2>2, <2>3, <2>4, <2>5, OnceHandled
  <1>5. CASE ResendRead  BY <1>5, OnceUntouched DEF ResendRead, client
  <1>6. CASE ResendPower  BY <1>6, OnceUntouched DEF ResendPower, client, history
  <1>7. CASE StationHandle  BY <1>7, OnceUntouched DEF StationHandle, client
  <1>8. CASE LoseRequest \/ LoseAnswer
    BY <1>8, OnceUntouched DEF LoseRequest, LoseAnswer, client, history
  <1>9. CASE UNCHANGED vars  BY <1>9, OnceUntouched DEF vars, client, history
  <1> QED  BY <1>1, <1>2, <1>3, <1>4, <1>5, <1>6, <1>7, <1>8, <1>9 DEF Next

\* A callback reports a value once, and once more at most for each timeout of its reads:
\* however often it is retried, and whatever was lost or asked for again.
THEOREM ReportsOnce == Spec => []ReportedOnce
  <1>1. TypeInv /\ OnceInv => ReportedOnce
    <2> SUFFICES ASSUME TypeInv, OnceInv, NEW t \in Tasks PROVE results[t] <= 1 + timeouts[t]
      BY DEF ReportedOnce
    <2>1. Count(pending, t) \in Nat /\ Count(verifying, t) \in Nat  BY CountType DEF TypeInv
    <2>2. results[t] \in Nat /\ timeouts[t] \in Nat  BY DEF TypeInv, TypeOK
    <2>3. results[t] + Count(pending, t) + Count(verifying, t) <= 1 + timeouts[t]  BY DEF OnceInv
    <2> QED  BY <2>1, <2>2, <2>3
  <1> QED  BY <1>1, TypeStarts, TypeStep, OnceStarts, OnceStep, PTL DEF Spec

-----------------------------------------------------------------------------
(* Freshness: what is under way to those who wait has been in the decoder    *)
(* since they asked.                                                         *)

\* Whatever answer is under way or to come, task t may take it.
Knows(t) ==
    /\ decoder[Variable[t]] \in held[t]
    /\ \A j \in DOMAIN toClient :
           toClient[j].type = "result" /\ toClient[j].variable = Variable[t]
           => toClient[j].value \in held[t]

FreshInv ==
    ~duplicated => ~stale /\ \A i \in DOMAIN pending : Knows(pending[i].task)

\* In state s of a handler, task t has just asked.
Renewed(s, t) == s.held[t] = {decoder[Variable[t]]} /\ Asks(s, Variable[t])

FreshWork(s) ==
    /\ s.stale => stale
    /\ \A i \in DOMAIN s.kept : \E j \in DOMAIN pending : s.kept[i] = pending[j]
    /\ \A t \in Tasks : s.held[t] = held[t] \/ Renewed(s, t)
    /\ \A i \in DOMAIN s.added : Renewed(s, s.added[i].task)

\* What is appended is the last element, the others stay.
LEMMA AppendKeeps ==
    ASSUME NEW S, NEW s \in Seq(S), NEW c \in S, NEW i \in DOMAIN Append(s, c)
    PROVE  (i \in DOMAIN s /\ Append(s, c)[i] = s[i]) \/ Append(s, c)[i] = c
  <1> DEFINE n == Len(s)
  <1>1. /\ n \in Nat /\ DOMAIN s = 1 .. n
        /\ DOMAIN Append(s, c) = 1 .. (n + 1)
        /\ \A k \in 1 .. n : Append(s, c)[k] = s[k]
        /\ Append(s, c)[n + 1] = c
    BY AppendProperties, LenProperties
  <1> HIDE DEF n
  <1>2. i \in 1 .. n \/ i = n + 1  BY <1>1
  <1> QED  BY <1>1, <1>2

LEMMA AsksOn ==
    ASSUME NEW s, NEW r, Sends(s, r), NEW v, Asks(s, v)
    PROVE  Asks(r, v)
  BY DEF Sends, Asks

LEMMA FreshCalled ==
    ASSUME NEW T \in SUBSET Tasks, NEW s \in Work(T), FreshWork(s), NEW r, NEW t \in Tasks,
           Calls1(s, r, T, t)
    PROVE  FreshWork(r)
  <1>1. r.kept = s.kept /\ r.stale = s.stale /\ Sends(s, r)  BY DEF Calls1
  <1>2. \A u \in Tasks : r.held[u] = s.held[u] /\ Renewed(s, u) => Renewed(r, u)
    BY <1>1, AsksOn DEF Renewed
  <1>3. CASE r.added = s.added /\ r.held = s.held
    <2>1. \A u \in Tasks : r.held[u] = held[u] \/ Renewed(r, u)  BY <1>2, <1>3 DEF FreshWork
    <2>2. ASSUME NEW i \in DOMAIN r.added  PROVE Renewed(r, r.added[i].task)
      <3>1. Renewed(s, s.added[i].task)  BY <1>3 DEF FreshWork
      <3>2. s.added[i].task \in Tasks
        <4>1. s.added \in Seq(Calls(T))  BY DEF Work
        <4> QED  BY <1>3, <4>1, ElementOfSeq DEF Calls
      <3> QED  BY <1>2, <1>3, <3>1, <3>2
    <2> QED  BY <1>1, <2>1, <2>2 DEF FreshWork
  <1>4. CASE \E c \in Calls(T) :
                 /\ c.task = t /\ r.added = Append(s.added, c)
                 /\ r.held = [s.held EXCEPT ![t] = {decoder[Variable[t]]}]
                 /\ Asks(r, Variable[t])
    <2>1. PICK c \in Calls(T) :
                 /\ c.task = t /\ r.added = Append(s.added, c)
                 /\ r.held = [s.held EXCEPT ![t] = {decoder[Variable[t]]}]
                 /\ Asks(r, Variable[t])
      BY <1>4
    <2>2. s.held \in [Tasks -> SUBSET Values] /\ s.added \in Seq(Calls(T))  BY DEF Work
    <2>3. r.held[t] = {decoder[Variable[t]]} /\ \A u \in Tasks \ {t} : r.held[u] = s.held[u]
      BY <2>1, <2>2
    <2>4. Renewed(r, t)  BY <2>1, <2>3 DEF Renewed
    <2>5. \A u \in Tasks : Renewed(s, u) => Renewed(r, u)  BY <1>2, <2>3, <2>4
    <2>6. \A u \in Tasks : r.held[u] = held[u] \/ Renewed(r, u)
      BY <2>3, <2>4, <2>5 DEF FreshWork
    <2>7. ASSUME NEW i \in DOMAIN r.added  PROVE Renewed(r, r.added[i].task)
      <3>1. (i \in DOMAIN s.added /\ r.added[i] = s.added[i]) \/ r.added[i] = c
        BY <2>1, <2>2, AppendKeeps
      <3>2. CASE i \in DOMAIN s.added /\ r.added[i] = s.added[i]
        <4>1. Renewed(s, s.added[i].task)  BY <3>2 DEF FreshWork
        <4>2. s.added[i].task \in Tasks  BY <2>2, <3>2, ElementOfSeq DEF Calls
        <4> QED  BY <2>5, <3>2, <4>1, <4>2
      <3> QED  BY <2>1, <2>4, <3>1, <3>2
    <2> QED  BY <1>1, <2>6, <2>7 DEF FreshWork
  <1> QED  BY <1>3, <1>4 DEF Calls1

LEMMA FreshShown ==
    ASSUME TypeInv, FreshInv, ~duplicated, NEW m \in Answer, m.type # "powerOn",
           toClient # <<>>, m = Head(toClient)
    PROVE  FreshWork(ShownTo(m, pending))
  <1> DEFINE N == Len(pending)
             Fine == {s \in Work(started) :
                          FreshWork(s) /\ (m.type = "result" => s.held = held /\ s.added = <<>>)}
             Holds == [n \in 0 .. N |-> Fine]
  <1>1. N \in Nat /\ DOMAIN pending = 1 .. N /\ \A n \in 1 .. N : pending[n] \in Calls(started)
    BY LenProperties, ElementOfSeq DEF TypeInv
  <1>2. started \in SUBSET Tasks /\ decoder \in [Variables -> Values]  BY DEF TypeInv, TypeOK
  <1>3. \A n \in 1 .. N : m.type = "result" /\ m.variable = Variable[pending[n].task]
                             => m.value \in held[pending[n].task]
    <2>1. 1 \in DOMAIN toClient /\ m = toClient[1]
      <3>1. toClient \in Seq(Answer) /\ Len(toClient) \in Nat /\ Len(toClient) # 0
        BY LenProperties, EmptySeq DEF TypeInv, TypeOK
      <3> QED  BY <3>1, LenProperties, HeadTailProperties
    <2> QED  BY <1>1, <2>1 DEF FreshInv, Knows
  <1>4. Working \in Fine
    <2>1. Working \in Work(started)  BY <1>2, WorkingTypes
    <2>2. Working.kept = <<>> /\ Working.added = <<>> /\ Working.held = held /\ Working.stale = stale
      BY DEF Working
    <2> HIDE DEF Working
    <2>3. FreshWork(Working)  BY <2>2 DEF FreshWork
    <2> QED  BY <2>1, <2>2, <2>3
  <1>5. ASSUME NEW n \in 1 .. N, NEW s \in Fine  PROVE Observe(s, pending[n], m) \in Fine
    <2> DEFINE r == Observe(s, pending[n], m)
               c == pending[n]
    <2>1. s \in Work(started) /\ c \in Calls(started) /\ c.task \in Tasks /\ FreshWork(s)
      BY <1>1, <1>2, <1>5 DEF Calls
    <2>2. m.type = "result" => s.held = held /\ s.added = <<>>  BY <1>5
    <2>3. \/ m.type = "error" /\ Calls1(s, r, started, c.task)
          \/ /\ m.type = "result" /\ Written[c.task] # NoValue
             /\ Calls1(s, r, started, c.task)
          \/ /\ m.type = "result" /\ m.variable = Variable[c.task]
             /\ Reports1(s, r, started, c.task, m.value)
          \/ m.type = "result" /\ Keeps1(s, r, started, c)
      BY <1>2, <2>1, Observes
    <2> HIDE DEF r
    <2>4. CASE m.type = "error" /\ Calls1(s, r, started, c.task)
      <3>1. FreshWork(r) /\ r \in Work(started)  BY <1>2, <2>1, <2>4, FreshCalled DEF Calls1
      <3> QED  BY <2>4, <3>1 DEF r
    <2>5. CASE m.type = "result" /\ Written[c.task] # NoValue /\ Calls1(s, r, started, c.task)
      <3>1. FreshWork(r) /\ r \in Work(started)  BY <1>2, <2>1, <2>5, FreshCalled DEF Calls1
      <3>2. r.held = s.held /\ r.added = s.added  BY <2>5 DEF Calls1
      <3> QED  BY <2>2, <2>5, <3>1, <3>2 DEF r
    <2>6. CASE /\ m.type = "result" /\ m.variable = Variable[c.task]
               /\ Reports1(s, r, started, c.task, m.value)
      <3>1. m.value \in s.held[c.task]  BY <1>3, <2>2, <2>6
      <3>2. /\ r \in Work(started) /\ Sends(s, r)
            /\ r.kept = s.kept /\ r.added = s.added /\ r.held = s.held
            /\ r.stale => s.stale
        BY <2>6, <3>1 DEF Reports1
      <3>3. FreshWork(r)  BY <2>1, <2>2, <2>6, <3>2 DEF FreshWork
      <3> QED  BY <2>2, <2>6, <3>2, <3>3 DEF r
    <2>7. CASE m.type = "result" /\ Keeps1(s, r, started, c)
      <3>1. /\ r \in Work(started) /\ r.kept = Append(s.kept, c) /\ r.added = s.added
            /\ r.held = s.held /\ r.stale = s.stale
        BY <2>7 DEF Keeps1
      <3>2. s.kept \in Seq(Calls(started))  BY <2>1 DEF Work
      <3>3. ASSUME NEW i \in DOMAIN r.kept  PROVE \E j \in DOMAIN pending : r.kept[i] = pending[j]
        <4>1. (i \in DOMAIN s.kept /\ r.kept[i] = s.kept[i]) \/ r.kept[i] = c
          BY <2>1, <3>1, <3>2, AppendKeeps
        <4>2. CASE r.kept[i] = c  BY <1>1, <4>2
        <4> QED  BY <2>1, <4>1, <4>2 DEF FreshWork
      <3>4. FreshWork(r)  BY <2>1, <2>2, <2>7, <3>1, <3>3 DEF FreshWork
      <3> QED  BY <2>2, <2>7, <3>1, <3>4 DEF r
    <2> QED  BY <2>3, <2>4, <2>5, <2>6, <2>7
  <1> HIDE DEF Fine
  <1>6. Working \in Holds[0]  BY <1>1, <1>4
  <1>7. \A n \in 1 .. N : \A s \in Holds[n - 1] : Observe(s, pending[n], m) \in Holds[n]
    <2> SUFFICES ASSUME NEW n \in 1 .. N, NEW s \in Holds[n - 1]
                 PROVE  Observe(s, pending[n], m) \in Holds[n]
      OBVIOUS
    <2>1. n - 1 \in 0 .. N /\ n \in 0 .. N  BY <1>1
    <2> QED  BY <1>5, <2>1
  <1> HIDE DEF Holds, N
  <1>8. ShownTo(m, pending) \in Holds[N]  BY <1>1, <1>6, <1>7, ShownToAll
  <1>9. ShownTo(m, pending) \in Fine  BY <1>1, <1>8 DEF Holds
  <1> QED  BY <1>9 DEF Fine

\* Unless something was asked for twice, a handler leaves the invariant behind.
LEMMA FreshApplied ==
    ASSUME TypeInv, FreshInv, NEW T \in SUBSET Tasks, NEW s \in Work(T),
           ~duplicated => FreshWork(s), Apply(s), decoder' = decoder,
           \A j \in DOMAIN toClient' : \E k \in DOMAIN toClient : toClient'[j] = toClient[k]
    PROVE  FreshInv'
  <1> DEFINE KnowsNext(t) ==
                 /\ decoder'[Variable[t]] \in held'[t]
                 /\ \A j \in DOMAIN toClient' :
                        toClient'[j].type = "result" /\ toClient'[j].variable = Variable[t]
                        => toClient'[j].value \in held'[t]
  <1> SUFFICES ASSUME ~duplicated'
               PROVE  ~stale' /\ \A i \in DOMAIN pending' : KnowsNext(pending'[i].task)
    BY DEF FreshInv, Knows
  <1>1. ~duplicated /\ \A i \in DOMAIN s.sent : s.sent[i].type = "read" => ~Due(s.sent[i].variable)
    BY DEF Apply
  <1>2. \A v : Asks(s, v) => ~Due(v)  BY <1>1 DEF Asks
  <1>3. FreshWork(s) /\ ~stale /\ \A i \in DOMAIN pending : Knows(pending[i].task)
    BY <1>1 DEF FreshInv
  <1>4. ~stale'  BY <1>3 DEF Apply, FreshWork
  <1>5. ASSUME NEW t \in Tasks, Renewed(s, t)  PROVE KnowsNext(t)
    <2>1. held'[t] = {decoder[Variable[t]]}  BY <1>5 DEF Apply, Renewed
    <2>2. \A k \in DOMAIN toClient :
              ~(toClient[k].type = "result" /\ toClient[k].variable = Variable[t])
      BY <1>2, <1>5 DEF Renewed, Due
    <2> QED  BY <2>1, <2>2
  <1>6. ASSUME NEW t \in Tasks, Knows(t), s.held[t] = held[t]  PROVE KnowsNext(t)
    <2>1. held'[t] = held[t]  BY <1>6 DEF Apply
    <2> QED  BY <1>6, <2>1 DEF Knows
  <1> HIDE DEF KnowsNext
  <1>7. ASSUME NEW i \in DOMAIN pending'  PROVE KnowsNext(pending'[i].task)
    <2>1. s.kept \in Seq(Calls(T)) /\ s.added \in Seq(Calls(T))  BY DEF Work
    <2> DEFINE k == Len(s.kept)
               a == Len(s.added)
    <2>2. /\ k \in Nat /\ DOMAIN s.kept = 1 .. k /\ a \in Nat /\ DOMAIN s.added = 1 .. a
          /\ DOMAIN (s.kept \o s.added) = 1 .. (k + a)
          /\ \A j \in 1 .. (k + a) :
                 (s.kept \o s.added)[j] = IF j <= k THEN s.kept[j] ELSE s.added[j - k]
      <3> DEFINE K == s.kept
                 A == s.added
      <3>1. K \in Seq(Calls(T)) /\ A \in Seq(Calls(T))  BY <2>1
      <3> HIDE DEF K, A
      <3>2. /\ Len(K) \in Nat /\ DOMAIN K = 1 .. Len(K) /\ Len(A) \in Nat /\ DOMAIN A = 1 .. Len(A)
            /\ K \o A \in Seq(Calls(T)) /\ Len(K \o A) = Len(K) + Len(A)
            /\ \A j \in 1 .. (Len(K) + Len(A)) :
                   (K \o A)[j] = IF j <= Len(K) THEN K[j] ELSE A[j - Len(K)]
        BY <3>1, ConcatProperties, LenProperties
      <3>3. DOMAIN (K \o A) = 1 .. (Len(K) + Len(A))  BY <3>2, LenProperties
      <3> QED  BY <3>2, <3>3 DEF K, A
    <2>3. pending' = s.kept \o s.added  BY DEF Apply
    <2>4. PICK c \in Calls(T) :
              /\ pending'[i] = c
              /\ \/ \E j \in DOMAIN s.kept : c = s.kept[j]
                 \/ \E j \in DOMAIN s.added : c = s.added[j]
      <3>1. i \in 1 .. (k + a)  BY <2>2, <2>3
      <3> HIDE DEF k, a
      <3>2. CASE i <= k
        <4>1. i \in DOMAIN s.kept /\ pending'[i] = s.kept[i]  BY <2>2, <2>3, <3>1, <3>2
        <4> QED  BY <2>1, <4>1, ElementOfSeq
      <3>3. CASE ~(i <= k)
        <4>1. i - k \in DOMAIN s.added /\ pending'[i] = s.added[i - k]
          BY <2>2, <2>3, <3>1, <3>3
        <4> QED  BY <2>1, <4>1, ElementOfSeq
      <3> QED  BY <3>2, <3>3
    <2>5. c.task \in Tasks  BY <2>4 DEF Calls
    <2>6. CASE \E j \in DOMAIN s.kept : c = s.kept[j]
      <3>1. Knows(c.task)  BY <1>3, <2>6 DEF FreshWork
      <3>2. s.held[c.task] = held[c.task] \/ Renewed(s, c.task)  BY <1>3, <2>5 DEF FreshWork
      <3>3. KnowsNext(c.task)  BY <1>5, <1>6, <2>5, <3>1, <3>2
      <3> QED  BY <2>4, <3>3
    <2>7. CASE \E j \in DOMAIN s.added : c = s.added[j]
      <3>1. Renewed(s, c.task)  BY <1>3, <2>7 DEF FreshWork
      <3>2. KnowsNext(c.task)  BY <1>5, <2>5, <3>1
      <3> QED  BY <2>4, <3>2
    <2> QED  BY <2>4, <2>6, <2>7
  <1> QED  BY <1>4, <1>7

LEMMA FreshStarts == Init => FreshInv
  BY DEF Init, FreshInv

\* The station answers with what the decoder has; what it writes is remembered.
LEMMA FreshAnswered ==
    ASSUME TypeInv, FreshInv, StationHandle
    PROVE  FreshInv'
  <1> DEFINE r == Head(toStation)
             KnowsNext(t) ==
                 /\ decoder'[Variable[t]] \in held'[t]
                 /\ \A j \in DOMAIN toClient' :
                        toClient'[j].type = "result" /\ toClient'[j].variable = Variable[t]
                        => toClient'[j].value \in held'[t]
  <1>1. UNCHANGED <<pending, stale, duplicated>>  BY DEF StationHandle, client
  <1> SUFFICES ASSUME ~duplicated, NEW t \in Tasks, Knows(t)
               PROVE  KnowsNext(t)
    <2>1. \A i \in DOMAIN pending : pending[i].task \in Tasks
      BY ElementOfSeq DEF TypeInv, Calls, Call
    <2> HIDE DEF KnowsNext
    <2>2. ~duplicated => \A i \in DOMAIN pending : KnowsNext(pending[i].task)
      BY <2>1 DEF FreshInv
    <2>3. ~duplicated => ~stale  BY DEF FreshInv
    <2> QED  BY <1>1, <2>2, <2>3 DEF FreshInv, Knows, KnowsNext
  <1>2. /\ Variable[t] \in Variables /\ decoder \in [Variables -> Values]
        /\ held \in [Tasks -> SUBSET Values] /\ toClient \in Seq(Answer)
    BY DEF Variables, TypeInv, TypeOK
  <1>3. CASE /\ toClient' = Append(toClient, [type |-> "result", variable |-> r.variable,
                                             value |-> decoder[r.variable]])
             /\ UNCHANGED <<decoder, held>> /\ r.type = "read"
    <2> DEFINE x == [type |-> "result", variable |-> r.variable, value |-> decoder[r.variable]]
    <2>1. r.variable \in Variables
      <3>1. r \in Good  BY HeadTailProperties DEF StationHandle, TypeInv
      <3> QED  BY <1>3, <3>1 DEF Good, Request
    <2>2. x \in Answer  BY <1>2, <2>1 DEF Answer
    <2>3. x.variable = Variable[t] => x.value \in held[t]  BY DEF Knows
    <2>4. toClient' = Append(toClient, x)  BY <1>3
    <2> HIDE DEF x
    <2>5. ASSUME NEW j \in DOMAIN toClient',
                 toClient'[j].type = "result", toClient'[j].variable = Variable[t]
          PROVE  toClient'[j].value \in held[t]
      <3>1. (j \in DOMAIN toClient /\ toClient'[j] = toClient[j]) \/ toClient'[j] = x
        BY <1>2, <2>2, <2>4, <2>5, AppendKeeps
      <3> QED  BY <2>3, <2>5, <3>1 DEF Knows
    <2> QED  BY <1>3, <2>5 DEF Knows
  <1>4. CASE /\ \/ toClient' = Append(toClient, [type |-> "error"])
                \/ toClient' = Append(toClient, PowerOn)
             /\ UNCHANGED <<decoder, held>>
    <2>1. PICK x \in Answer : toClient' = Append(toClient, x) /\ x.type # "result"
      <3>1. [type |-> "error"] \in Answer /\ PowerOn \in Answer /\ PowerOn.type # "result"
        BY DEF Answer, PowerOn
      <3> QED  BY <1>4, <3>1
    <2>2. ASSUME NEW j \in DOMAIN toClient',
                 toClient'[j].type = "result", toClient'[j].variable = Variable[t]
          PROVE  toClient'[j].value \in held[t]
      <3>1. (j \in DOMAIN toClient /\ toClient'[j] = toClient[j]) \/ toClient'[j] = x
        BY <1>2, <2>1, <2>2, AppendKeeps
      <3> QED  BY <2>1, <2>2, <3>1 DEF Knows
    <2> QED  BY <1>4, <2>2 DEF Knows
  <1>5. CASE /\ decoder' = [decoder EXCEPT ![r.variable] = r.value]
             /\ held' = [u \in Tasks |-> IF Variable[u] = r.variable
                                         THEN held[u] \union {r.value} ELSE held[u]]
             /\ toClient' = toClient
    <2>1. held[t] \subseteq held'[t] /\ (Variable[t] = r.variable => r.value \in held'[t])
      BY <1>2, <1>5
    <2>2. decoder'[Variable[t]] = IF Variable[t] = r.variable THEN r.value ELSE decoder[Variable[t]]
      BY <1>2, <1>5
    <2> QED  BY <1>5, <2>1, <2>2 DEF Knows
  <1>6. CASE UNCHANGED <<decoder, held, toClient>>  BY <1>6 DEF Knows
  <1> HIDE DEF KnowsNext
  <1> QED  BY <1>3, <1>4, <1>5, <1>6 DEF StationHandle

LEMMA FreshStep == TypeInv /\ FreshInv /\ [Next]_vars => FreshInv'
  <1> SUFFICES ASSUME TypeInv, FreshInv, [Next]_vars PROVE FreshInv'  OBVIOUS
  <1>0. /\ started \in SUBSET Tasks /\ decoder \in [Variables -> Values] /\ toClient \in Seq(Answer)
        /\ pending \in Seq(Calls(started))
    BY DEF TypeInv, TypeOK
  \* Where a handler begins.
  <1>a. ASSUME NEW s, s.kept = pending, s.added = <<>>, s.held = held, s.stale = stale
        PROVE  FreshWork(s)
    BY <1>a DEF FreshWork
  <1>b. toClient' = toClient =>
            \A j \in DOMAIN toClient' : \E k \in DOMAIN toClient : toClient'[j] = toClient[k]
    OBVIOUS
  <1>c. toClient # <<>> /\ toClient' = Tail(toClient) =>
            \A j \in DOMAIN toClient' : \E k \in DOMAIN toClient : toClient'[j] = toClient[k]
    <2> SUFFICES ASSUME toClient # <<>>, NEW j \in DOMAIN Tail(toClient)
                 PROVE  \E k \in DOMAIN toClient : Tail(toClient)[j] = toClient[k]
      OBVIOUS
    <2> DEFINE n == Len(toClient)
    <2>1. /\ n \in Nat /\ n # 0 /\ DOMAIN toClient = 1 .. n /\ Tail(toClient) \in Seq(Answer)
          /\ Len(Tail(toClient)) = n - 1
          /\ \A k \in 1 .. Len(Tail(toClient)) : Tail(toClient)[k] = toClient[k + 1]
      BY <1>0, HeadTailProperties, LenProperties, EmptySeq
    <2>2. DOMAIN Tail(toClient) = 1 .. (n - 1)  BY <2>1, LenProperties
    <2> HIDE DEF n
    <2>3. j + 1 \in DOMAIN toClient /\ Tail(toClient)[j] = toClient[j + 1]  BY <2>1, <2>2
    <2> QED  BY <2>3
  <1>1. ASSUME NEW t \in Tasks, Start(t)  PROVE FreshInv'
    <2> DEFINE c == [task |-> t, retries |-> 0]
               s == [Working EXCEPT !.kept = pending]
               r == Perform(s, c)
    <2>1. /\ started' \in SUBSET Tasks /\ s \in Work(started')
          /\ Calls1(s, r, started', t) /\ Apply(r)
      BY <1>1, StartTypes
    <2>2. toClient' = toClient /\ decoder' = decoder  BY <1>1 DEF Start, station
    <2>3. s.kept = pending /\ s.added = <<>> /\ s.held = held /\ s.stale = stale  BY DEF Working
    <2> HIDE DEF c, s, r
    <2>4. FreshWork(s)  BY <1>a, <2>3
    <2>5. FreshWork(r) /\ r \in Work(started')  BY <2>1, <2>4, FreshCalled DEF Calls1
    <2> QED  BY <1>b, <2>1, <2>2, <2>5, FreshApplied
  <1>2. CASE Verify
    <2> DEFINE c == Head(verifying)
               s == [Working EXCEPT !.kept = pending, !.verifying = Tail(verifying)]
               r == ReadVariable(s, c)
    <2>1. /\ s \in Work(started) /\ c \in Calls(started)
          /\ s.kept = pending /\ s.added = <<>> /\ s.held = held /\ s.stale = stale
          /\ Apply(r)
      BY <1>2, VerifyTypes
    <2>2. toClient' = toClient /\ decoder' = decoder  BY <1>2 DEF Verify, station
    <2> HIDE DEF s, c
    <2>3. /\ r \in Work(started) /\ Asks(r, Variable[c.task])
          /\ r.kept = s.kept /\ r.stale = s.stale /\ r.added = Append(s.added, c)
          /\ r.held = [s.held EXCEPT ![c.task] = {decoder[Variable[c.task]]}]
      <3>1. s \in Work(started) /\ c \in Calls(started)  BY <2>1
      <3>2. started \in SUBSET Tasks /\ decoder \in [Variables -> Values]  BY <1>0
      <3> QED  BY <3>1, <3>2, Reads
    <2> HIDE DEF r
    <2>4. FreshWork(r)
      <3>1. held \in [Tasks -> SUBSET Values] /\ c.task \in Tasks
        BY <1>0, <2>1 DEF TypeInv, TypeOK, Calls
      <3>2. r.held[c.task] = {decoder[Variable[c.task]]}
            /\ \A u \in Tasks \ {c.task} : r.held[u] = held[u]
        BY <2>1, <2>3, <3>1
      <3>3. Renewed(r, c.task)  BY <2>3, <3>2 DEF Renewed
      <3>4. r.added = <<c>>  BY <2>1, <2>3
      <3>5. \A i \in DOMAIN r.added : r.added[i] = c  BY <3>4
      <3> QED  BY <2>1, <2>3, <3>2, <3>3, <3>5 DEF FreshWork
    <2> QED  BY <1>0, <1>b, <2>1, <2>2, <2>3, <2>4, FreshApplied
  <1>3. CASE ProgrammingTimeout
    <2> DEFINE c == armed[1]
               q == RestorePower(StopTimeout([Working EXCEPT !.kept = pending]))
               r == CallbackError(q, c)
    <2>1. /\ c \in Calls(started) /\ q \in Work(started)
          /\ q.kept = pending /\ q.added = <<>> /\ q.held = held /\ q.stale = stale
          /\ Calls1(q, r, started, c.task) /\ Apply(r)
      BY <1>3, TimeoutTypes
    <2>2. toClient' = toClient /\ decoder' = decoder  BY <1>3 DEF ProgrammingTimeout, station
    <2> HIDE DEF c, q, r
    <2>3. FreshWork(q) /\ c.task \in Tasks  BY <1>0, <1>a, <2>1 DEF Calls
    <2>4. FreshWork(r) /\ r \in Work(started)  BY <1>0, <2>1, <2>3, FreshCalled DEF Calls1
    <2> QED  BY <1>0, <1>b, <2>1, <2>2, <2>4, FreshApplied
  <1>4. CASE ParseMessage
    <2> DEFINE m == Head(toClient)
               s == [[Working EXCEPT !.kept = pending] EXCEPT !.powering = FALSE]
    <2>1. /\ m \in Answer /\ toClient' = Tail(toClient) /\ toClient # <<>>
          /\ \/ m.type = "powerOn" /\ s \in Work(started) /\ Apply(s)
             \/ m.type # "powerOn" /\ Apply(ShownTo(m, pending))
      BY <1>4, ParseTypes
    <2>2. decoder' = decoder  BY <1>4 DEF ParseMessage, station
    <2>3. s.kept = pending /\ s.added = <<>> /\ s.held = held /\ s.stale = stale  BY DEF Working
    <2> HIDE DEF s
    <2>4. CASE m.type = "powerOn" /\ s \in Work(started) /\ Apply(s)
      <3>1. FreshWork(s)  BY <1>a, <2>3
      <3> QED  BY <1>0, <1>c, <2>1, <2>2, <2>4, <3>1, FreshApplied
    <2>5. CASE m.type # "powerOn" /\ Apply(ShownTo(m, pending))
      <3>1. ShownTo(m, pending) \in Work(started)  BY <2>1, <2>5, ShownTypes
      <3>2. ~duplicated => FreshWork(ShownTo(m, pending))  BY <2>1, <2>5, FreshShown
      <3> QED  BY <1>0, <1>c, <2>1, <2>2, <2>5, <3>1, <3>2, FreshApplied
    <2> QED  BY <2>1, <2>4, <2>5
  <1>5. CASE ResendRead
    <2>1. UNCHANGED <<pending, stale, held, decoder, toClient>> /\ (duplicated => duplicated')
      BY <1>5 DEF ResendRead, client, station
    <2> QED  BY <2>1 DEF FreshInv, Knows
  <1>6. CASE ResendPower
    <2>1. UNCHANGED <<pending, stale, held, decoder, toClient, duplicated>>
      BY <1>6 DEF ResendPower, client, station, history
    <2> QED  BY <2>1 DEF FreshInv, Knows
  <1>7. CASE StationHandle  BY <1>7, FreshAnswered
  <1>8. CASE LoseRequest \/ LoseAnswer
    <2>1. UNCHANGED <<pending, stale, held, decoder, duplicated>>
      BY <1>8 DEF LoseRequest, LoseAnswer, client, station, history
    <2>2. \A j \in DOMAIN toClient' : \E k \in DOMAIN toClient : toClient'[j] = toClient[k]
      <3>1. toClient' = toClient \/ (toClient # <<>> /\ toClient' = Tail(toClient))
        BY <1>8 DEF LoseRequest, LoseAnswer
      <3> QED  BY <1>b, <1>c, <3>1
    <2> QED  BY <2>1, <2>2 DEF FreshInv, Knows
  <1>9. CASE UNCHANGED vars
    <2>1. UNCHANGED <<pending, stale, held, decoder, toClient, duplicated>>
      BY <1>9 DEF vars, client, station, history
    <2> QED  BY <2>1 DEF FreshInv, Knows
  <1> QED  BY <1>1, <1>2, <1>3, <1>4, <1>5, <1>6, <1>7, <1>8, <1>9 DEF Next

\* A value a callback gets is one the decoder had after the variable was requested, and a
\* write that is reported as done was in the decoder when it was checked: whatever calls
\* overlap, and whatever is lost, late or wrong, unless a variable was requested again while
\* an answer was due.
THEOREM ReportedValuesAreFresh == Spec => []ValuesAreFresh
  <1>1. TypeInv /\ FreshInv => ValuesAreFresh  BY DEF FreshInv, ValuesAreFresh
  <1> QED  BY <1>1, TypeStarts, TypeStep, FreshStarts, FreshStep, PTL DEF Spec
=============================================================================
