-------------------------- MODULE Mx1DeviceProofs --------------------------
(* Theorems about Mx1Device, for any chunks and any number of events.        *)
EXTENDS Mx1Device, SequenceTheorems, FiniteSetTheorems, WellFoundedInduction, TLAPS

-----------------------------------------------------------------------------
(* Induction.  The theorems of the library speak of operators; these speak   *)
(* of sets instead.                                                          *)

\* Every set of natural numbers has a least one: initial segments are well-founded.
LEMMA LeastNatural ==
    ASSUME NEW T \in SUBSET Nat, T # {}
    PROVE  \E m \in T : \A n \in T : m <= n
  <1> DEFINE Below(n) == 0 .. (n - 1)
  <1> DEFINE Belows == {Below(n) : n \in T}
  <1>1. Belows \subseteq FiniteSubsetsOf(Nat) /\ Belows # {}
    <2>1. \A n \in Nat : IsFiniteSet(Below(n))  BY FS_Interval
    <2>2. \A n \in Nat : Below(n) \in SUBSET Nat  OBVIOUS
    <2>3. \A n \in Nat : Below(n) \in FiniteSubsetsOf(Nat)
      <3> HIDE DEF Below
      <3> QED  BY <2>1, <2>2 DEF FiniteSubsetsOf
    <2> HIDE DEF Below
    <2> QED  BY <2>3
  <1>2. IsWellFoundedOn(StrictSubsetOrdering(Nat), FiniteSubsetsOf(Nat))
    BY FS_StrictSubsetOrderingWellFounded
  <1> HIDE DEF Belows
  <1>3. \E b \in Belows : \A c \in Belows : <<c, b>> \notin StrictSubsetOrdering(Nat)
    BY <1>1, <1>2, WFMin
  <1>4. PICK m \in T : \A c \in Belows : <<c, Below(m)>> \notin StrictSubsetOrdering(Nat)
    BY <1>3 DEF Belows
  <1>5. ASSUME NEW n \in T  PROVE m <= n
    <2>1. <<Below(n), Below(m)>> \notin StrictSubsetOrdering(Nat)  BY <1>4 DEF Belows
    <2> QED  BY <2>1 DEF StrictSubsetOrdering
  <1> QED  BY <1>5

LEMMA Induction ==
    ASSUME NEW S, 0 \in S, \A n \in Nat : n \in S => n + 1 \in S
    PROVE  Nat \subseteq S
  <1> SUFFICES ASSUME Nat \ S # {} PROVE FALSE  OBVIOUS
  <1>1. PICK m \in Nat \ S : \A n \in Nat \ S : m <= n  BY LeastNatural
  <1>2. m # 0 /\ m - 1 \in Nat  BY <1>1
  <1>3. m - 1 \in S  BY <1>1, <1>2
  <1> QED  BY <1>1, <1>2, <1>3

\* Numbers: both terms grow by one, and one is taken off.
LEMMA BothGrow ==
    ASSUME NEW x \in Nat, NEW n \in Nat
    PROVE  (x + 1) - (n + 1) = x - n
  OBVIOUS

LEMMA OneOff ==
    ASSUME NEW x \in Nat, NEW m \in Nat, NEW y \in Nat, NEW n \in Nat, x - m = y - n
    PROVE  x - 1 - m = y - 1 - n
  OBVIOUS

-----------------------------------------------------------------------------
(* The invariant, of a host h, what comes to it from the line (to) and later *)
(* (l), and the power p and the speed s of the station.                      *)

\* Requests and responses, however large their numbers are.
Fits(kind, arg) ==
    (kind = "power" => arg \in Power) /\ (kind = "vehicle" => arg \in Speed)
Requests  == {r \in [id: Nat \ {0}, kind: Kind, arg: Power \union Speed \union {Unset}] :
              Fits(r.kind, r.arg)}
Responses == [primary: BOOLEAN, id: Nat \ {0}, kind: Kind,
              status: {"succeeded", "failed", "data"}, value: Power \union {Unset}]

Hosts == [known: BOOLEAN, timer: BOOLEAN, slots: Nat, queue: Seq(Requests),
          observers: SUBSET Requests, buffer: Seq(Responses), power: Power,
          speed: Speed \union {Unset}, next: Nat \ {0}, line: Seq(Requests),
          sent: Seq(Nat), told: Seq(Nat)]

\* The numbers in the queue are the last ones that were given; what was sent is
\* all that is answered, and the head.
NumberInv(h) ==
    /\ Len(h.queue) < h.next
    /\ \A i \in DOMAIN h.queue : h.queue[i].id = h.next - Len(h.queue) + i - 1
    /\ Len(h.sent) = h.next - Len(h.queue) - (IF h.queue = <<>> THEN 1 ELSE 0)
    /\ \A i \in DOMAIN h.sent : h.sent[i] = i

\* Observers belong to what was sent, and are called with a result once.
ObserverInv(h) ==
    /\ \A r \in h.observers : r.id <= Len(h.sent) /\ r.kind # "vehicle"
    /\ \A r \in h.observers, other \in h.observers : r.id = other.id => r = other
    /\ h.queue # <<>> /\ h.queue[1].kind \in {"query", "power"} => h.queue[1] \in h.observers
    /\ \A i \in DOMAIN h.told : /\ h.told[i] \in 1 .. Len(h.sent)
                                /\ \A r \in h.observers : r.id # h.told[i]
    /\ IsInjective(h.told)

Silent(seq) == \A i \in DOMAIN seq : ~seq[i].primary
AtMostOne(seq) == \A i \in DOMAIN seq, j \in DOMAIN seq :
                      seq[i].primary /\ seq[j].primary => i = j

Coming(h, to) == Range(h.buffer) \union Range(to)
Answered(h, to) == ~Silent(h.buffer) \/ ~Silent(to)

\* A primary response is to the head, and comes alone; secondary ones are to what
\* was sent before.
ResponseInv(h, r) ==
    /\ r.id <= Len(h.sent)
    /\ r.primary  => /\ h.queue # <<>>
                     /\ r.id = h.queue[1].id /\ r.kind = h.queue[1].kind
    /\ ~r.primary => r.kind \in {"equipment", "variable"}

LineInv(h, to, l) ==
    /\ \/ h.line = <<>>
       \/ /\ h.queue # <<>> /\ h.line = <<h.queue[1]>>
          /\ ~Answered(h, to)
    /\ AtMostOne(h.buffer) /\ AtMostOne(to) /\ (Silent(h.buffer) \/ Silent(to))
    /\ \A r \in Coming(h, to) \union l : ResponseInv(h, r)
    /\ \A r \in l : ~r.primary

\* The station told its power, or what it was set to, and it is that still.
PowerComing(h, to, p) ==
    \A r \in Coming(h, to) : r.primary =>
        /\ r.kind = "query" => r.value = p
        /\ r.kind = "power" /\ r.status = "succeeded" => h.queue[1].arg = p

\* The power that is shown is the station's, unless it is going to be asked, or is
\* settled by the response to the head; or that one was lost.
PowerShown(h, to, p) ==
    \/ ~h.known
    \/ \E i \in DOMAIN h.queue : h.queue[i].kind = "query"
    \/ /\ h.queue # <<>> /\ h.queue[1].kind = "power" /\ h.line = <<>>
       /\ \A r \in Coming(h, to) : r.primary => r.status = "succeeded"
    \/ h.power = p

\* The speed that was set last is that of the last such request; once the
\* station has answered it, it is the station's.
SpeedInv(h, to, s) ==
    /\ \A i \in DOMAIN h.queue :
        \/ h.queue[i].kind # "vehicle"
        \/ \E j \in DOMAIN h.queue : i < j /\ h.queue[j].kind = "vehicle"
        \/ h.queue[i].arg = h.speed
    /\ \/ \E i \in DOMAIN h.queue :
           h.queue[i].kind = "vehicle" /\ ~(i = 1 /\ Answered(h, to))
       \/ h.speed \in {s, Unset}

-----------------------------------------------------------------------------
(* What the functions of the device do to its fields.                        *)

Number(h, kind, arg) == [id |-> h.next, kind |-> kind, arg |-> arg]

\* What of the host is not about its requests.
SameRest(h, g) ==
    /\ g.known = h.known /\ g.timer = h.timer /\ g.slots = h.slots
    /\ g.power = h.power /\ g.speed = h.speed

\* The request r goes to the line.
Transmitted(h, g, r) ==
    /\ g.line = Append(h.line, r) /\ g.sent = Append(h.sent, r.id)
    /\ g.observers = IF r.kind = "vehicle" THEN h.observers ELSE h.observers \union {r}

NothingTransmitted(h, g) ==
    g.line = h.line /\ g.sent = h.sent /\ g.observers = h.observers

Pushed(h, g, r) ==
    /\ SameRest(h, g) /\ g.buffer = h.buffer /\ g.told = h.told
    /\ g.queue = Append(h.queue, r) /\ g.next = h.next + 1
    /\ IF h.queue = <<>> THEN Transmitted(h, g, r) ELSE NothingTransmitted(h, g)

LEMMA FlushTypes ==
    ASSUME NEW h \in Hosts
    PROVE  LET g == FlushQueue(h)
           IN  /\ g \in Hosts /\ SameRest(h, g) /\ g.buffer = h.buffer /\ g.told = h.told
               /\ g.queue = h.queue /\ g.next = h.next
               /\ IF h.queue = <<>> THEN NothingTransmitted(h, g)
                  ELSE Transmitted(h, g, h.queue[1])
  <1> DEFINE g == FlushQueue(h)
  <1>1. CASE h.queue = <<>>
    <2>1. g = h  BY <1>1 DEF FlushQueue
    <2> QED  BY <1>1, <2>1 DEF SameRest, NothingTransmitted
  <1>2. CASE h.queue # <<>>
    <2> DEFINE r == h.queue[1]
               o == IF r.kind = "vehicle" THEN h.observers ELSE h.observers \union {r}
    <2>1. h.queue \in Seq(Requests) /\ h.line \in Seq(Requests) /\ h.sent \in Seq(Nat)
          /\ h.observers \in SUBSET Requests
      BY DEF Hosts
    <2>2. r \in Requests /\ r.id \in Nat /\ Head(h.queue) = r
      <3>1. Len(h.queue) \in Nat \ {0}  BY <1>2, <2>1, EmptySeq, LenProperties
      <3>2. r \in Requests /\ Head(h.queue) = r  BY <2>1, <3>1
      <3> QED  BY <3>2 DEF Requests
    <2>3. /\ Append(h.line, r) \in Seq(Requests) /\ Append(h.sent, r.id) \in Seq(Nat)
          /\ o \in SUBSET Requests
      BY <2>1, <2>2
    <2> HIDE DEF r
    <2>4. g = [h EXCEPT !.line = Append(h.line, r), !.sent = Append(h.sent, r.id),
                        !.observers = o]
      BY <1>2, <2>2 DEF FlushQueue
    <2> HIDE DEF g, o
    <2>5. g \in Hosts  BY <2>3, <2>4, Zenon DEF Hosts
    <2>6. /\ SameRest(h, g) /\ g.buffer = h.buffer /\ g.told = h.told
          /\ g.queue = h.queue /\ g.next = h.next
          /\ g.line = Append(h.line, r) /\ g.sent = Append(h.sent, r.id) /\ g.observers = o
      BY <2>4 DEF SameRest, Hosts
    <2> QED  BY <1>2, <2>5, <2>6 DEF Transmitted, g, o, r
  <1> QED  BY <1>1, <1>2

LEMMA Pushes ==
    ASSUME NEW h \in Hosts, NEW kind \in Kind, NEW arg \in Power \union Speed \union {Unset},
           Fits(kind, arg)
    PROVE  LET r == Number(h, kind, arg)
               g == QueueRequest(h, kind, arg)
           IN  r \in Requests /\ g \in Hosts /\ Pushed(h, g, r)
  <1> DEFINE r == Number(h, kind, arg)
             g == QueueRequest(h, kind, arg)
             f == [h EXCEPT !.queue = Append(h.queue, r), !.next = h.next + 1]
  <1>1. h.queue \in Seq(Requests) /\ h.next \in Nat \ {0}  BY DEF Hosts
  <1>2. r \in Requests  BY <1>1 DEF Number, Requests
  <1> HIDE DEF r
  <1>3. Append(h.queue, r) \in Seq(Requests) /\ h.next + 1 \in Nat \ {0}  BY <1>1, <1>2
  <1>4. f \in Hosts  BY <1>3, Zenon DEF Hosts
  <1>5. /\ SameRest(h, f) /\ f.buffer = h.buffer /\ f.told = h.told /\ NothingTransmitted(h, f)
        /\ f.queue = Append(h.queue, r) /\ f.next = h.next + 1
    BY DEF SameRest, NothingTransmitted, Hosts
  <1>6. g = IF Len(f.queue) = 1 THEN FlushQueue(f) ELSE f  BY DEF QueueRequest, Number, r
  <1> HIDE DEF f, g
  <1>7. Len(f.queue) = Len(h.queue) + 1 /\ Len(h.queue) \in Nat  BY <1>1, <1>2, <1>5
  <1>8. CASE h.queue = <<>>
    <2>1. Len(f.queue) = 1 /\ f.queue[1] = r /\ f.queue # <<>>  BY <1>1, <1>5, <1>7, <1>8
    <2>2. g = FlushQueue(f)  BY <1>6, <2>1
    <2>3. /\ g \in Hosts /\ SameRest(f, g) /\ g.buffer = f.buffer /\ g.told = f.told
          /\ g.queue = f.queue /\ g.next = f.next /\ Transmitted(f, g, r)
      BY <1>4, <2>1, <2>2, FlushTypes
    <2> QED  BY <1>2, <1>5, <1>8, <2>3 DEF Pushed, SameRest, Transmitted, NothingTransmitted, r, g
  <1>9. CASE h.queue # <<>>
    <2>1. Len(f.queue) # 1  BY <1>1, <1>7, <1>9, EmptySeq
    <2>2. g = f  BY <1>6, <2>1
    <2> QED  BY <1>2, <1>4, <1>5, <1>9, <2>2 DEF Pushed, r, g
  <1> QED  BY <1>8, <1>9

\* The head leaves the queue, and the next request is sent.
Popped(h, g) ==
    /\ SameRest(h, g) /\ g.buffer = h.buffer /\ g.told = h.told /\ g.next = h.next
    /\ g.queue = Tail(h.queue)
    /\ IF Tail(h.queue) = <<>> THEN NothingTransmitted(h, g)
       ELSE Transmitted(h, g, h.queue[2])

LEMMA TakeTypes ==
    ASSUME NEW h \in Hosts, NEW response
    PROVE  LET g == TakePrimary(h, response)
           IN  /\ g \in Hosts
               /\ IF response.primary /\ h.queue # <<>> THEN Popped(h, g) ELSE g = h
  <1> DEFINE g == TakePrimary(h, response)
  <1>1. CASE ~(response.primary /\ h.queue # <<>>)
    <2>1. g = h  BY <1>1 DEF TakePrimary
    <2> QED  BY <1>1, <2>1
  <1>2. CASE response.primary /\ h.queue # <<>>
    <2> DEFINE f == [h EXCEPT !.queue = Tail(h.queue)]
    <2>1. g = FlushQueue(f)  BY <1>2 DEF TakePrimary
    <2>2. h.queue \in Seq(Requests) /\ Len(h.queue) \in Nat \ {0}
      BY <1>2, EmptySeq, LenProperties DEF Hosts
    <2>3. Tail(h.queue) \in Seq(Requests)  BY <1>2, <2>2
    <2>4. f \in Hosts  BY <2>3, Zenon DEF Hosts
    <2>5. /\ SameRest(h, f) /\ f.buffer = h.buffer /\ f.told = h.told /\ f.next = h.next
          /\ f.queue = Tail(h.queue) /\ NothingTransmitted(h, f)
      BY DEF SameRest, NothingTransmitted, Hosts
    <2> HIDE DEF f, g
    <2>6. /\ g \in Hosts /\ SameRest(f, g) /\ g.buffer = f.buffer /\ g.told = f.told
          /\ g.queue = f.queue /\ g.next = f.next
          /\ IF f.queue = <<>> THEN NothingTransmitted(f, g) ELSE Transmitted(f, g, f.queue[1])
      BY <2>1, <2>4, FlushTypes
    <2>7. Tail(h.queue) # <<>> => Tail(h.queue)[1] = h.queue[2]
      <3>1. Len(Tail(h.queue)) = Len(h.queue) - 1  BY <1>2, <2>2
      <3> SUFFICES ASSUME Tail(h.queue) # <<>> PROVE Tail(h.queue)[1] = h.queue[2]  OBVIOUS
      <3>2. Len(Tail(h.queue)) >= 1  BY <2>3, EmptySeq, LenProperties
      <3> QED  BY <1>2, <2>2, <3>1, <3>2
    <2>8. SameRest(h, g) /\ g.buffer = h.buffer /\ g.told = h.told /\ g.next = h.next
          /\ g.queue = Tail(h.queue)
      BY <2>5, <2>6 DEF SameRest
    <2>9. IF Tail(h.queue) = <<>> THEN NothingTransmitted(h, g)
          ELSE Transmitted(h, g, h.queue[2])
      <3>1. CASE Tail(h.queue) = <<>>
        BY <2>5, <2>6, <3>1 DEF NothingTransmitted
      <3>2. CASE Tail(h.queue) # <<>>
        <4>1. Transmitted(f, g, h.queue[2])  BY <2>5, <2>6, <2>7, <3>2
        <4> QED  BY <2>5, <3>2, <4>1 DEF NothingTransmitted, Transmitted
      <3> QED  BY <3>1, <3>2
    <2>10. g \in Hosts /\ Popped(h, g)  BY <2>6, <2>8, <2>9 DEF Popped
    <2> QED  BY <1>2, <2>10 DEF g
  <1> QED  BY <1>1, <1>2

-----------------------------------------------------------------------------
(* A request is queued.                                                      *)

\* Adding one to a sequence.
LEMMA OneMore ==
    ASSUME NEW S, NEW seq \in Seq(S), NEW x \in S
    PROVE  /\ Append(seq, x) \in Seq(S) /\ Len(seq) \in Nat /\ Len(Append(seq, x)) = Len(seq) + 1
           /\ DOMAIN seq = 1 .. Len(seq) /\ DOMAIN Append(seq, x) = 1 .. (Len(seq) + 1)
           /\ \A i \in 1 .. Len(seq) : Append(seq, x)[i] = seq[i]
           /\ Append(seq, x)[Len(seq) + 1] = x /\ Append(seq, x) # <<>>
           /\ (seq = <<>> <=> Len(seq) = 0)
  OBVIOUS

\* Leaving one out.
LEMMA OneLess ==
    ASSUME NEW S, NEW seq \in Seq(S), seq # <<>>
    PROVE  /\ Tail(seq) \in Seq(S) /\ Len(seq) \in Nat \ {0} /\ Len(Tail(seq)) = Len(seq) - 1
           /\ DOMAIN seq = 1 .. Len(seq) /\ DOMAIN Tail(seq) = 1 .. (Len(seq) - 1)
           /\ \A i \in 1 .. (Len(seq) - 1) : Tail(seq)[i] = seq[i + 1]
           /\ Head(seq) = seq[1] /\ Head(seq) \in S
           /\ (Tail(seq) = <<>> <=> Len(seq) = 1)
  <1>1. Len(seq) \in Nat \ {0}  BY EmptySeq, LenProperties
  <1>2. Tail(seq) \in Seq(S) /\ Len(Tail(seq)) = Len(seq) - 1  BY <1>1
  <1>3. Tail(seq) = <<>> <=> Len(Tail(seq)) = 0  BY <1>2, EmptySeq
  <1> QED  BY <1>1, <1>2, <1>3

LEMMA PushNumbers ==
    ASSUME NEW h \in Hosts, NEW g \in Hosts, NEW r \in Requests, r.id = h.next,
           Pushed(h, g, r), NumberInv(h)
    PROVE  NumberInv(g)
  <1> DEFINE n == Len(h.queue)
             k == Len(h.sent)
  <1>1. /\ h.queue \in Seq(Requests) /\ h.sent \in Seq(Nat) /\ h.next \in Nat \ {0}
    BY DEF Hosts
  <1>2. /\ n \in Nat /\ Len(g.queue) = n + 1 /\ DOMAIN g.queue = 1 .. (n + 1)
        /\ \A i \in 1 .. n : g.queue[i] = h.queue[i]
        /\ g.queue[n + 1] = r /\ g.queue # <<>> /\ DOMAIN h.queue = 1 .. n
        /\ (h.queue = <<>> <=> n = 0)
    BY <1>1, OneMore DEF Pushed
  <1>3. k \in Nat /\ DOMAIN h.sent = 1 .. k  BY <1>1
  <1>4. g.next = h.next + 1  BY DEF Pushed
  <1> HIDE DEF n, k
  <1>5. n < h.next /\ \A i \in 1 .. n : h.queue[i].id = h.next - n + i - 1
    BY <1>2 DEF NumberInv, n
  <1>6. k = h.next - n - (IF n = 0 THEN 1 ELSE 0) /\ \A i \in 1 .. k : h.sent[i] = i
    BY <1>2, <1>3 DEF NumberInv, n, k
  <1>7. Len(g.queue) < g.next  BY <1>1, <1>2, <1>4, <1>5
  <1>8. \A i \in DOMAIN g.queue : g.queue[i].id = g.next - Len(g.queue) + i - 1
    <2> SUFFICES ASSUME NEW i \in DOMAIN g.queue
                 PROVE  g.queue[i].id = g.next - Len(g.queue) + i - 1
      OBVIOUS
    <2>1. g.next - Len(g.queue) + i - 1 = h.next - n + i - 1
      <3>1. (h.next + 1) - (n + 1) = h.next - n  BY <1>1, <1>2, BothGrow
      <3>2. g.next - Len(g.queue) = h.next - n  BY <1>2, <1>4, <3>1
      <3> QED  BY <3>2
    <2>2. CASE i \in 1 .. n
      <3>1. h.queue[i].id = h.next - n + i - 1 /\ g.queue[i] = h.queue[i]  BY <1>2, <1>5, <2>2
      <3> QED  BY <2>1, <3>1
    <2>3. CASE i = n + 1
      <3>1. h.next - n + i - 1 = h.next  BY <1>1, <1>2, <2>3
      <3>2. g.queue[i].id = h.next  BY <1>2, <2>3
      <3> QED  BY <2>1, <3>1, <3>2
    <2> QED  BY <1>2, <2>2, <2>3
  <1>9. CASE h.queue = <<>>
    <2>1. g.sent = Append(h.sent, h.next)  BY <1>9 DEF Pushed, Transmitted
    <2>2. n = 0 /\ k = h.next - 1  BY <1>1, <1>2, <1>6, <1>9
    <2>3. /\ Len(g.sent) = k + 1 /\ DOMAIN g.sent = 1 .. (k + 1) /\ g.sent[k + 1] = h.next
          /\ \A i \in 1 .. k : g.sent[i] = h.sent[i]
      BY <1>1, <2>1, OneMore DEF k
    <2>4. Len(g.sent) = g.next - Len(g.queue) - 0  BY <1>1, <1>2, <1>4, <2>2, <2>3
    <2>5. \A i \in DOMAIN g.sent : g.sent[i] = i
      <3> SUFFICES ASSUME NEW i \in 1 .. (k + 1) PROVE g.sent[i] = i  BY <2>3
      <3>1. CASE i \in 1 .. k  BY <1>6, <2>3, <3>1
      <3>2. CASE i = k + 1
        <4>1. i = h.next  BY <1>1, <2>2, <3>2
        <4> QED  BY <2>3, <3>2, <4>1
      <3> QED  BY <1>3, <3>1, <3>2
    <2> QED  BY <1>2, <1>7, <1>8, <2>4, <2>5 DEF NumberInv
  <1>10. CASE h.queue # <<>>
    <2>1. g.sent = h.sent  BY <1>10 DEF Pushed, NothingTransmitted
    <2>2. Len(g.sent) = g.next - Len(g.queue) - 0
      BY <1>1, <1>2, <1>3, <1>4, <1>6, <1>10, <2>1 DEF k
    <2>3. \A i \in DOMAIN g.sent : g.sent[i] = i  BY <1>3, <1>6, <2>1
    <2> QED  BY <1>2, <1>7, <1>8, <2>2, <2>3 DEF NumberInv
  <1> QED  BY <1>9, <1>10

\* What the other parts of the invariant need to know.
LEMMA PushFacts ==
    ASSUME NEW h \in Hosts, NEW g \in Hosts, NEW r \in Requests, r.id = h.next,
           Pushed(h, g, r), NumberInv(h)
    PROVE  /\ Len(h.queue) \in Nat /\ DOMAIN h.queue = 1 .. Len(h.queue)
           /\ DOMAIN g.queue = 1 .. (Len(h.queue) + 1) /\ g.queue # <<>>
           /\ \A i \in 1 .. Len(h.queue) : g.queue[i] = h.queue[i]
           /\ g.queue[Len(h.queue) + 1] = r
           /\ h.queue = <<>> <=> Len(h.queue) = 0
           /\ g.queue[1] = IF h.queue = <<>> THEN r ELSE h.queue[1]
           /\ Len(h.sent) \in Nat /\ Len(g.sent) \in Nat /\ r.id \in Nat
           /\ h.queue = <<>> => Len(g.sent) = r.id /\ Len(g.sent) = Len(h.sent) + 1
           /\ h.queue # <<>> => Len(g.sent) = Len(h.sent) /\ h.queue[1].id = Len(h.sent)
           /\ Len(h.sent) < r.id
  <1>1. /\ h.queue \in Seq(Requests) /\ h.sent \in Seq(Nat) /\ h.next \in Nat \ {0}
    BY DEF Hosts
  <1> DEFINE n == Len(h.queue)
  <1>2. /\ n \in Nat /\ DOMAIN g.queue = 1 .. (n + 1) /\ DOMAIN h.queue = 1 .. n
        /\ \A i \in 1 .. n : g.queue[i] = h.queue[i]
        /\ g.queue[n + 1] = r /\ g.queue # <<>> /\ (h.queue = <<>> <=> n = 0)
    <2>1. g.queue = Append(h.queue, r)  BY DEF Pushed
    <2> QED  BY <1>1, <2>1, OneMore
  <1>3. Len(h.sent) \in Nat /\ r.id \in Nat  BY <1>1
  <1> HIDE DEF n
  <1>4. n < h.next /\ Len(h.sent) = h.next - n - (IF n = 0 THEN 1 ELSE 0)
        /\ \A i \in 1 .. n : h.queue[i].id = h.next - n + i - 1
    BY <1>2 DEF NumberInv, n
  <1>5. CASE h.queue = <<>>
    <2>1. g.sent = Append(h.sent, r.id)  BY <1>5 DEF Pushed, Transmitted
    <2>2. Len(g.sent) = Len(h.sent) + 1  BY <1>1, <1>3, <2>1
    <2>3. n = 0 /\ Len(h.sent) = h.next - 1  BY <1>1, <1>2, <1>4, <1>5
    <2>4. g.queue[1] = r  BY <1>2, <2>3
    <2> QED  BY <1>1, <1>2, <1>3, <1>5, <2>2, <2>3, <2>4 DEF n
  <1>6. CASE h.queue # <<>>
    <2>1. g.sent = h.sent  BY <1>6 DEF Pushed, NothingTransmitted
    <2>2. n \in Nat \ {0} /\ 1 \in 1 .. n  BY <1>2, <1>6
    <2>3. Len(h.sent) = h.next - n  BY <1>1, <1>4, <2>2
    <2>4. h.queue[1].id = h.next - n /\ g.queue[1] = h.queue[1]
      <3>1. h.queue[1].id = h.next - n + 1 - 1  BY <1>4, <2>2
      <3> QED  BY <1>1, <1>2, <2>2, <3>1
    <2>5. Len(h.sent) < r.id  BY <1>1, <2>2, <2>3
    <2> QED  BY <1>2, <1>3, <1>6, <2>1, <2>2, <2>3, <2>4, <2>5 DEF n
  <1> QED  BY <1>5, <1>6

LEMMA PushObservers ==
    ASSUME NEW h \in Hosts, NEW g \in Hosts, NEW r \in Requests, r.id = h.next,
           Pushed(h, g, r), NumberInv(h), ObserverInv(h)
    PROVE  ObserverInv(g)
  <1> USE PushFacts
  <1> DEFINE k == Len(h.sent)
             k2 == Len(g.sent)
  <1>1. /\ k \in Nat /\ k2 \in Nat /\ k <= k2 /\ k < r.id /\ r.id \in Nat
        /\ (h.queue = <<>> => k2 = r.id)
    OBVIOUS
  <1>2. g.told = h.told /\ h.told \in Seq(Nat) /\ h.observers \in SUBSET Requests
    BY DEF Pushed, Hosts
  <1>3. g.observers = (IF h.queue = <<>> /\ r.kind # "vehicle" THEN h.observers \union {r}
                       ELSE h.observers)
    BY DEF Pushed, Transmitted, NothingTransmitted
  <1>4. \A o \in h.observers : o.id \in Nat  BY <1>2 DEF Requests
  <1> HIDE DEF k, k2
  <1>5. \A o \in h.observers : o.id <= k /\ o.kind # "vehicle"  BY DEF ObserverInv, k
  <1>6. \A o \in h.observers, other \in h.observers : o.id = other.id => o = other
    BY DEF ObserverInv
  <1>7. \A i \in DOMAIN h.told : h.told[i] \in 1 .. k /\ \A o \in h.observers : o.id # h.told[i]
    BY DEF ObserverInv, k
  <1>8. \A o \in g.observers : o.id <= k2 /\ o.kind # "vehicle"
    BY <1>1, <1>3, <1>4, <1>5
  <1>9. \A o \in g.observers, other \in g.observers : o.id = other.id => o = other
    <2>1. \A o \in h.observers : o.id # r.id  BY <1>1, <1>4, <1>5
    <2> QED  BY <1>3, <1>6, <2>1
  <1>10. g.queue[1].kind \in {"query", "power"} => g.queue[1] \in g.observers
    <2>1. CASE h.queue = <<>>
      <3>1. g.queue[1] = r  BY <2>1
      <3>2. r.kind # "vehicle" => r \in g.observers  BY <1>3, <2>1
      <3> QED  BY <3>1, <3>2
    <2>2. CASE h.queue # <<>>
      <3>1. g.queue[1] = h.queue[1]  BY <2>2
      <3> QED  BY <1>3, <2>2, <3>1 DEF ObserverInv
    <2> QED  BY <2>1, <2>2
  <1>11. \A i \in DOMAIN g.told : g.told[i] \in 1 .. k2 /\ \A o \in g.observers : o.id # g.told[i]
    <2> SUFFICES ASSUME NEW i \in DOMAIN h.told
                 PROVE  h.told[i] \in 1 .. k2 /\ \A o \in g.observers : o.id # h.told[i]
      BY <1>2
    <2>1. h.told[i] \in 1 .. k /\ \A o \in h.observers : o.id # h.told[i]  BY <1>7
    <2>2. h.told[i] \in Nat /\ h.told[i] <= k  BY <1>1, <2>1
    <2> QED  BY <1>1, <1>3, <2>1, <2>2
  <1>12. IsInjective(g.told)  BY <1>2 DEF ObserverInv
  <1> QED  BY <1>8, <1>9, <1>10, <1>11, <1>12 DEF ObserverInv, k2

LEMMA PushLine ==
    ASSUME NEW h \in Hosts, NEW g \in Hosts, NEW r \in Requests, r.id = h.next,
           Pushed(h, g, r), NumberInv(h),
           NEW to \in Seq(Responses), NEW l \in SUBSET Responses, LineInv(h, to, l)
    PROVE  LineInv(g, to, l)
  <1> USE PushFacts
  <1>1. g.buffer = h.buffer /\ h.buffer \in Seq(Responses)  BY DEF Pushed, Hosts
  <1>2. /\ \A i \in DOMAIN h.buffer : h.buffer[i] \in Coming(h, to)
        /\ \A i \in DOMAIN to : to[i] \in Coming(h, to)
    BY <1>1 DEF Coming, Range
  <1>3. /\ Coming(g, to) = Coming(h, to) /\ Answered(g, to) = Answered(h, to)
        /\ Coming(h, to) \union l \in SUBSET Responses
    BY <1>1 DEF Coming, Answered, Range
  <1>4. /\ AtMostOne(g.buffer) /\ AtMostOne(to) /\ (Silent(g.buffer) \/ Silent(to))
        /\ \A x \in l : ~x.primary
    BY <1>1 DEF LineInv
  <1>5. \A x \in Coming(h, to) \union l : ResponseInv(h, x)  BY DEF LineInv
  <1>6. \A x \in Coming(g, to) \union l : ResponseInv(g, x)
    <2> SUFFICES ASSUME NEW x \in Responses, ResponseInv(h, x) PROVE ResponseInv(g, x)
      BY <1>3, <1>5
    <2>1. x.id \in Nat  BY DEF Responses
    <2>2. x.id <= Len(h.sent)  BY DEF ResponseInv
    <2>3. Len(h.sent) <= Len(g.sent) /\ Len(h.sent) \in Nat /\ Len(g.sent) \in Nat  OBVIOUS
    <2>4. x.id <= Len(g.sent)  BY <2>1, <2>2, <2>3
    <2>5. h.queue # <<>> => g.queue # <<>> /\ g.queue[1] = h.queue[1]  OBVIOUS
    <2> QED  BY <2>4, <2>5 DEF ResponseInv
  <1>7. CASE h.queue = <<>>
    <2>1. ~Answered(h, to)  BY <1>2, <1>5, <1>7 DEF Answered, Silent, ResponseInv
    <2>2. h.line = <<>>  BY <1>7 DEF LineInv
    <2>3. g.line = <<g.queue[1]>> /\ g.queue # <<>>
      <3>1. g.line = Append(h.line, r)  BY <1>7 DEF Pushed, Transmitted
      <3>2. g.queue[1] = r /\ g.queue # <<>>  BY <1>7
      <3> QED  BY <2>2, <3>1, <3>2
    <2> QED  BY <1>3, <1>4, <1>6, <2>1, <2>3 DEF LineInv
  <1>8. CASE h.queue # <<>>
    <2>1. g.line = h.line /\ g.queue[1] = h.queue[1] /\ g.queue # <<>>
      BY <1>8 DEF Pushed, NothingTransmitted
    <2>2. h.line = <<>> \/ (h.line = <<h.queue[1]>> /\ ~Answered(h, to))  BY DEF LineInv
    <2> QED  BY <1>3, <1>4, <1>6, <2>1, <2>2 DEF LineInv
  <1> QED  BY <1>7, <1>8

LEMMA PushPower ==
    ASSUME NEW h \in Hosts, NEW g \in Hosts, NEW r \in Requests, r.id = h.next,
           Pushed(h, g, r), NumberInv(h),
           NEW to \in Seq(Responses), NEW l \in SUBSET Responses, LineInv(h, to, l),
           NEW p, PowerComing(h, to, p), r.kind = "query" \/ PowerShown(h, to, p)
    PROVE  PowerComing(g, to, p) /\ PowerShown(g, to, p)
  <1> USE PushFacts
  <1>1. g.buffer = h.buffer /\ g.known = h.known /\ g.power = h.power
    BY DEF Pushed, SameRest
  <1>2. Coming(g, to) = Coming(h, to)  BY <1>1 DEF Coming
  <1>3. \A x \in Coming(h, to) : x.primary => h.queue # <<>>  BY DEF LineInv, ResponseInv
  <1>4. PowerComing(g, to, p)
    <2> SUFFICES ASSUME NEW x \in Coming(h, to), x.primary
                 PROVE  /\ x.kind = "query" => x.value = p
                        /\ x.kind = "power" /\ x.status = "succeeded" => g.queue[1].arg = p
      BY <1>2 DEF PowerComing
    <2>1. g.queue[1] = h.queue[1]  BY <1>3
    <2> QED  BY <2>1 DEF PowerComing
  <1>5. CASE r.kind = "query"
    <2>1. Len(h.queue) + 1 \in DOMAIN g.queue /\ g.queue[Len(h.queue) + 1].kind = "query"
      BY <1>5
    <2> QED  BY <1>4, <2>1 DEF PowerShown
  <1>6. ASSUME PowerShown(h, to, p)  PROVE PowerShown(g, to, p)
    <2>1. CASE ~h.known  BY <1>1, <2>1 DEF PowerShown
    <2>2. CASE \E i \in DOMAIN h.queue : h.queue[i].kind = "query"
      <3>1. PICK i \in DOMAIN h.queue : h.queue[i].kind = "query"  BY <2>2
      <3>2. Len(h.queue) \in Nat /\ i \in 1 .. Len(h.queue)  OBVIOUS
      <3>3. i \in 1 .. (Len(h.queue) + 1) /\ g.queue[i] = h.queue[i]
        <4>1. i \in 1 .. (Len(h.queue) + 1)  BY <3>2
        <4> QED  BY <3>2, <4>1
      <3> QED  BY <3>1, <3>3 DEF PowerShown
    <2>3. CASE /\ h.queue # <<>> /\ h.queue[1].kind = "power" /\ h.line = <<>>
               /\ \A x \in Coming(h, to) : x.primary => x.status = "succeeded"
      <3>1. g.queue # <<>> /\ g.queue[1] = h.queue[1]  BY <2>3
      <3>2. g.line = h.line  BY <2>3 DEF Pushed, NothingTransmitted
      <3> QED  BY <1>2, <2>3, <3>1, <3>2 DEF PowerShown
    <2>4. CASE h.power = p  BY <1>1, <2>4 DEF PowerShown
    <2> QED  BY <1>6, <2>1, <2>2, <2>3, <2>4 DEF PowerShown
  <1> QED  BY <1>4, <1>5, <1>6

LEMMA PushSpeed ==
    ASSUME NEW h \in Hosts, NEW g \in Hosts, NEW r \in Requests, r.id = h.next,
           Pushed(h, g, r), NumberInv(h),
           NEW to \in Seq(Responses), NEW l \in SUBSET Responses, LineInv(h, to, l), NEW s,
           \/ r.kind = "vehicle" /\ r.arg = h.speed
           \/ r.kind # "vehicle" /\ SpeedInv(h, to, s)
    PROVE  SpeedInv(g, to, s)
  <1> USE PushFacts
  <1> DEFINE n == Len(h.queue)
  <1>1. /\ n \in Nat /\ DOMAIN g.queue = 1 .. (n + 1) /\ DOMAIN h.queue = 1 .. n
        /\ \A i \in 1 .. n : g.queue[i] = h.queue[i]
        /\ g.queue[n + 1] = r /\ (h.queue = <<>> <=> n = 0)
    OBVIOUS
  <1>2. g.buffer = h.buffer /\ g.speed = h.speed  BY DEF Pushed, SameRest
  <1>3. Answered(g, to) = Answered(h, to)  BY <1>2 DEF Answered
  <1> HIDE DEF n
  <1>4. CASE r.kind = "vehicle" /\ r.arg = h.speed
    <2>1. \A i \in DOMAIN g.queue :
            \/ g.queue[i].kind # "vehicle"
            \/ \E j \in DOMAIN g.queue : i < j /\ g.queue[j].kind = "vehicle"
            \/ g.queue[i].arg = g.speed
      <3> SUFFICES ASSUME NEW i \in 1 .. (n + 1)
                   PROVE  \/ \E j \in DOMAIN g.queue : i < j /\ g.queue[j].kind = "vehicle"
                          \/ g.queue[i].arg = g.speed
        BY <1>1
      <3>1. CASE i = n + 1  BY <1>1, <1>2, <1>4, <3>1
      <3>2. CASE i < n + 1
        <4>1. n + 1 \in DOMAIN g.queue /\ g.queue[n + 1].kind = "vehicle"  BY <1>1, <1>4
        <4> QED  BY <3>2, <4>1
      <3> QED  BY <1>1, <3>1, <3>2
    <2>2. n + 1 \in DOMAIN g.queue /\ g.queue[n + 1].kind = "vehicle"  BY <1>1, <1>4
    <2>3. n + 1 = 1 => ~Answered(g, to)
      <3> SUFFICES ASSUME h.queue = <<>> PROVE ~Answered(h, to)  BY <1>1, <1>3
      <3>1. \A x \in Coming(h, to) : ~x.primary  BY DEF LineInv, ResponseInv
      <3>2. /\ \A i \in DOMAIN h.buffer : h.buffer[i] \in Coming(h, to)
            /\ \A i \in DOMAIN to : to[i] \in Coming(h, to)
        BY DEF Coming, Range
      <3> QED  BY <3>1, <3>2 DEF Answered, Silent
    <2> QED  BY <2>1, <2>2, <2>3 DEF SpeedInv
  <1>5. CASE r.kind # "vehicle" /\ SpeedInv(h, to, s)
    <2>1. \A i \in DOMAIN h.queue : i \in DOMAIN g.queue /\ g.queue[i] = h.queue[i]  BY <1>1
    <2>2. \A i \in DOMAIN g.queue : g.queue[i].kind = "vehicle" => i \in DOMAIN h.queue
      BY <1>1, <1>5
    <2>3. \A i \in DOMAIN h.queue :
            \/ h.queue[i].kind # "vehicle"
            \/ \E j \in DOMAIN h.queue : i < j /\ h.queue[j].kind = "vehicle"
            \/ h.queue[i].arg = h.speed
      BY <1>5 DEF SpeedInv
    <2>4. \A i \in DOMAIN g.queue :
            \/ g.queue[i].kind # "vehicle"
            \/ \E j \in DOMAIN g.queue : i < j /\ g.queue[j].kind = "vehicle"
            \/ g.queue[i].arg = g.speed
      <3> SUFFICES ASSUME NEW i \in DOMAIN g.queue, g.queue[i].kind = "vehicle"
                   PROVE  \/ \E j \in DOMAIN g.queue : i < j /\ g.queue[j].kind = "vehicle"
                          \/ g.queue[i].arg = g.speed
        OBVIOUS
      <3>1. i \in DOMAIN h.queue  BY <2>2
      <3>2. h.queue[i] = g.queue[i]  BY <2>1, <3>1
      <3>3. CASE h.queue[i].arg = h.speed  BY <1>2, <3>2, <3>3
      <3>4. CASE \E j \in DOMAIN h.queue : i < j /\ h.queue[j].kind = "vehicle"
        <4> PICK j \in DOMAIN h.queue : i < j /\ h.queue[j].kind = "vehicle"  BY <3>4
        <4>1. j \in DOMAIN g.queue /\ g.queue[j] = h.queue[j]  BY <2>1
        <4> QED  BY <4>1
      <3> QED  BY <2>3, <3>1, <3>2, <3>3, <3>4
    <2>5. \/ \E i \in DOMAIN g.queue : g.queue[i].kind = "vehicle" /\ ~(i = 1 /\ Answered(g, to))
          \/ g.speed \in {s, Unset}
      BY <1>2, <1>3, <1>5, <2>1 DEF SpeedInv
    <2> QED  BY <2>4, <2>5 DEF SpeedInv
  <1> QED  BY <1>4, <1>5

-----------------------------------------------------------------------------
(* A response is read.                                                       *)

\* The frame before the observer is called.
Frame(h) == [h EXCEPT !.buffer = Tail(@)]
Completes(h) == h.buffer[1].primary /\ h.queue # <<>>

Taken(h, g) ==
    /\ SameRest(h, g) /\ g.told = h.told /\ g.next = h.next /\ g.buffer = Tail(h.buffer)
    /\ g.queue = IF Completes(h) THEN Tail(h.queue) ELSE h.queue
    /\ IF Completes(h) /\ Tail(h.queue) # <<>> THEN Transmitted(h, g, h.queue[2])
       ELSE NothingTransmitted(h, g)

LEMMA Takes ==
    ASSUME NEW h \in Hosts, h.buffer # <<>>
    PROVE  LET g == TakePrimary(Frame(h), Head(h.buffer))
           IN  /\ g \in Hosts /\ Taken(h, g) /\ Head(h.buffer) = h.buffer[1]
               /\ h.buffer[1] \in Responses
  <1> DEFINE f == Frame(h)
             g == TakePrimary(f, Head(h.buffer))
  <1>1. h.buffer \in Seq(Responses)  BY DEF Hosts
  <1>2. Tail(h.buffer) \in Seq(Responses) /\ Head(h.buffer) = h.buffer[1]
        /\ h.buffer[1] \in Responses
    BY <1>1, OneLess
  <1>3. f = [h EXCEPT !.buffer = Tail(h.buffer)]  BY DEF Frame
  <1> HIDE DEF f
  <1>4. f \in Hosts  BY <1>2, <1>3, Zenon DEF Hosts
  <1>5. /\ SameRest(h, f) /\ f.buffer = Tail(h.buffer) /\ f.told = h.told /\ f.next = h.next
        /\ f.queue = h.queue /\ NothingTransmitted(h, f)
    BY <1>3 DEF SameRest, NothingTransmitted, Hosts
  <1>6. /\ g \in Hosts
        /\ IF h.buffer[1].primary /\ f.queue # <<>> THEN Popped(f, g) ELSE g = f
    BY <1>2, <1>4, TakeTypes
  <1> HIDE DEF g
  <1>7. CASE Completes(h)
    <2>1. Popped(f, g)  BY <1>5, <1>6, <1>7 DEF Completes
    <2>2. Taken(h, g)
      BY <1>5, <1>7, <2>1 DEF Popped, Taken, SameRest, NothingTransmitted, Transmitted
    <2> QED  BY <1>2, <1>6, <2>2 DEF g, f
  <1>8. CASE ~Completes(h)
    <2>1. g = f  BY <1>5, <1>6, <1>8 DEF Completes
    <2>2. Taken(h, g)  BY <1>5, <1>8, <2>1 DEF Taken
    <2> QED  BY <1>2, <1>6, <2>2 DEF g, f
  <1> QED  BY <1>7, <1>8

\* A secondary response leaves the queue alone.
LEMMA SecondaryTaken ==
    ASSUME NEW h \in Hosts, NEW g \in Hosts, h.buffer # <<>>, Taken(h, g),
           ~h.buffer[1].primary,
           NEW to \in Seq(Responses), NEW l \in SUBSET Responses, NEW p, NEW s,
           NumberInv(h), ObserverInv(h), LineInv(h, to, l),
           PowerComing(h, to, p), PowerShown(h, to, p), SpeedInv(h, to, s)
    PROVE  /\ NumberInv(g) /\ ObserverInv(g) /\ LineInv(g, to, l)
           /\ PowerComing(g, to, p) /\ PowerShown(g, to, p) /\ SpeedInv(g, to, s)
           /\ Silent(h.buffer) => Silent(g.buffer)
  <1>1. /\ SameRest(h, g) /\ g.told = h.told /\ g.next = h.next /\ g.buffer = Tail(h.buffer)
        /\ g.queue = h.queue /\ NothingTransmitted(h, g)
    BY DEF Taken, Completes
  <1>2. h.buffer \in Seq(Responses)  BY DEF Hosts
  <1>3. /\ \A i \in DOMAIN g.buffer : i + 1 \in DOMAIN h.buffer /\ g.buffer[i] = h.buffer[i + 1]
        /\ DOMAIN g.buffer \subseteq Nat
    BY <1>1, <1>2, OneLess
  <1>4. \A i \in DOMAIN h.buffer :
          i # 1 => i - 1 \in DOMAIN g.buffer /\ h.buffer[i] = g.buffer[i - 1]
    <2> DEFINE n == Len(h.buffer)
    <2>1. /\ n \in Nat \ {0} /\ DOMAIN h.buffer = 1 .. n /\ DOMAIN g.buffer = 1 .. (n - 1)
          /\ \A i \in 1 .. (n - 1) : g.buffer[i] = h.buffer[i + 1]
      BY <1>1, <1>2, OneLess
    <2> HIDE DEF n
    <2> SUFFICES ASSUME NEW i \in 1 .. n, i # 1
                 PROVE  i - 1 \in DOMAIN g.buffer /\ h.buffer[i] = g.buffer[i - 1]
      BY <2>1
    <2>2. i - 1 \in 1 .. (n - 1) /\ (i - 1) + 1 = i  BY <2>1
    <2> QED  BY <2>1, <2>2
  <1>5. Silent(h.buffer) <=> Silent(g.buffer)  BY <1>3, <1>4 DEF Silent
  <1>6. Answered(g, to) <=> Answered(h, to)  BY <1>5 DEF Answered
  <1>7. Coming(g, to) \subseteq Coming(h, to)  BY <1>3 DEF Coming, Range
  <1>8. \A x \in Coming(h, to) : x.primary => x \in Coming(g, to)
    <2> SUFFICES ASSUME NEW i \in DOMAIN h.buffer, h.buffer[i].primary
                 PROVE  h.buffer[i] \in Range(g.buffer)
      BY DEF Coming, Range
    <2>1. i # 1  OBVIOUS
    <2> QED  BY <1>4, <2>1 DEF Range
  <1>9. NumberInv(g)  BY <1>1 DEF NumberInv, NothingTransmitted
  <1>10. ObserverInv(g)  BY <1>1 DEF ObserverInv, NothingTransmitted
  <1>11. LineInv(g, to, l)
    <2>1. AtMostOne(g.buffer)
      <3> SUFFICES ASSUME NEW i \in DOMAIN g.buffer, NEW j \in DOMAIN g.buffer,
                          g.buffer[i].primary, g.buffer[j].primary
                   PROVE  i = j
        BY DEF AtMostOne
      <3>1. i + 1 = j + 1  BY <1>3 DEF LineInv, AtMostOne
      <3> QED  BY <1>3, <3>1
    <2>2. \A x \in Coming(g, to) \union l : ResponseInv(g, x)
      BY <1>1, <1>7 DEF LineInv, ResponseInv, NothingTransmitted
    <2> QED  BY <1>1, <1>5, <1>6, <2>1, <2>2 DEF LineInv, NothingTransmitted
  <1>12. PowerComing(g, to, p)  BY <1>1, <1>7 DEF PowerComing
  <1>13. PowerShown(g, to, p)
    BY <1>1, <1>7 DEF PowerShown, SameRest, NothingTransmitted
  <1>14. SpeedInv(g, to, s)
    <2>1. Answered(g, to) = Answered(h, to)  BY <1>6 DEF Answered, Silent
    <2> QED  BY <1>1, <2>1 DEF SpeedInv, SameRest
  <1> QED  BY <1>5, <1>9, <1>10, <1>11, <1>12, <1>13, <1>14

\* A primary one is that to the head, and the only one.
LEMMA PrimaryFacts ==
    ASSUME NEW h \in Hosts, NEW g \in Hosts, h.buffer # <<>>, Taken(h, g),
           h.buffer[1].primary,
           NEW to \in Seq(Responses), NEW l \in SUBSET Responses,
           NumberInv(h), LineInv(h, to, l)
    PROVE  /\ h.queue # <<>> /\ h.line = <<>> /\ h.queue[1] \in Requests
           /\ h.buffer[1].id = h.queue[1].id /\ h.buffer[1].kind = h.queue[1].kind
           /\ h.queue[1].id = Len(h.sent) /\ Len(h.sent) \in Nat \ {0}
           /\ h.buffer[1] \in Coming(h, to)
           /\ Silent(g.buffer) /\ Silent(to) /\ Coming(g, to) \subseteq Coming(h, to)
           /\ Len(h.queue) \in Nat \ {0} /\ DOMAIN h.queue = 1 .. Len(h.queue)
           /\ DOMAIN g.queue = 1 .. (Len(h.queue) - 1) /\ Len(g.queue) = Len(h.queue) - 1
           /\ \A i \in 1 .. (Len(h.queue) - 1) : g.queue[i] = h.queue[i + 1]
           /\ g.queue = <<>> <=> Len(h.queue) = 1
           /\ g.queue = Tail(h.queue)
           /\ IF g.queue = <<>> THEN NothingTransmitted(h, g) ELSE Transmitted(h, g, h.queue[2])
           /\ g.queue # <<>> => /\ g.queue[1] = h.queue[2] /\ h.queue[2] \in Requests
                                /\ h.queue[2].id = Len(h.sent) + 1
                                /\ Len(g.sent) = Len(h.sent) + 1
           /\ g.queue = <<>> => Len(g.sent) = Len(h.sent)
  <1>1. /\ h.queue \in Seq(Requests) /\ h.buffer \in Seq(Responses) /\ h.next \in Nat \ {0}
        /\ h.sent \in Seq(Nat)
    BY DEF Hosts
  <1>2. h.buffer[1] \in Coming(h, to) /\ 1 \in DOMAIN h.buffer
    <2>1. 1 \in DOMAIN h.buffer  BY <1>1, OneLess
    <2> QED  BY <2>1 DEF Coming, Range
  <1>3. ResponseInv(h, h.buffer[1])  BY <1>2 DEF LineInv
  <1>4. /\ h.queue # <<>> /\ h.buffer[1].id = h.queue[1].id
        /\ h.buffer[1].kind = h.queue[1].kind
    BY <1>3 DEF ResponseInv
  <1>5. h.line = <<>> /\ Silent(to)
    <2>1. ~Silent(h.buffer)  BY <1>2 DEF Silent
    <2> QED  BY <2>1 DEF LineInv, Answered
  <1>6. /\ g.queue = Tail(h.queue) /\ g.buffer = Tail(h.buffer)
        /\ IF g.queue = <<>> THEN NothingTransmitted(h, g) ELSE Transmitted(h, g, h.queue[2])
    BY <1>4 DEF Taken, Completes
  <1>7. /\ Len(h.queue) \in Nat \ {0} /\ DOMAIN h.queue = 1 .. Len(h.queue)
        /\ DOMAIN g.queue = 1 .. (Len(h.queue) - 1) /\ Len(g.queue) = Len(h.queue) - 1
        /\ \A i \in 1 .. (Len(h.queue) - 1) : g.queue[i] = h.queue[i + 1]
        /\ (g.queue = <<>> <=> Len(h.queue) = 1)
    <2>1. g.queue = Tail(h.queue)  BY <1>6
    <2> QED  BY <1>1, <1>4, <2>1, OneLess
  <1>8. \A i \in DOMAIN g.buffer : /\ i + 1 \in DOMAIN h.buffer /\ g.buffer[i] = h.buffer[i + 1]
                                   /\ i \in Nat \ {0}
    BY <1>1, <1>6, OneLess
  <1>9. Silent(g.buffer) /\ Coming(g, to) \subseteq Coming(h, to)
    <2>1. \A i \in DOMAIN g.buffer : i + 1 # 1  BY <1>8
    <2>2. AtMostOne(h.buffer)  BY DEF LineInv
    <2>3. Silent(g.buffer)  BY <1>2, <1>8, <2>1, <2>2 DEF AtMostOne, Silent
    <2>4. Range(g.buffer) \subseteq Range(h.buffer)  BY <1>8 DEF Range
    <2> QED  BY <2>3, <2>4 DEF Coming
  <1>10. \A i \in DOMAIN h.queue : h.queue[i].id = h.next - Len(h.queue) + i - 1
    BY DEF NumberInv
  <1>11. Len(h.sent) = h.next - Len(h.queue) - 0 /\ Len(h.queue) < h.next  BY <1>4 DEF NumberInv
  <1>12. h.queue[1].id = Len(h.sent) /\ Len(h.sent) \in Nat \ {0} /\ h.queue[1] \in Requests
    <2> DEFINE n == Len(h.queue)
               k == Len(h.sent)
    <2>1. n \in Nat \ {0} /\ 1 \in DOMAIN h.queue /\ k = h.next - n - 0 /\ n < h.next
      BY <1>7, <1>11
    <2>2. h.queue[1].id = h.next - n + 1 - 1  BY <1>10, <2>1
    <2>3. h.queue[1] \in Requests  BY <1>1, <2>1
    <2> HIDE DEF n, k
    <2>4. h.queue[1].id = k /\ k \in Nat \ {0}  BY <1>1, <2>1, <2>2
    <2> QED  BY <2>3, <2>4 DEF k
  <1>13. ASSUME g.queue # <<>>
         PROVE  /\ g.queue[1] = h.queue[2] /\ h.queue[2] \in Requests
                /\ h.queue[2].id = Len(h.sent) + 1 /\ Len(g.sent) = Len(h.sent) + 1
    <2> DEFINE n == Len(h.queue)
               k == Len(h.sent)
    <2>1. n \in Nat \ {0} /\ n # 1  BY <1>7, <1>13
    <2>2. 2 \in DOMAIN h.queue /\ 1 \in 1 .. (n - 1)  BY <1>7, <2>1
    <2>3. g.queue[1] = h.queue[1 + 1] /\ h.queue[2] \in Requests  BY <1>1, <1>7, <2>2
    <2>4. h.queue[2].id = h.next - n + 2 - 1  BY <1>10, <2>2
    <2>5. k = h.next - n - 0  BY <1>11
    <2>6. g.sent = Append(h.sent, h.queue[2].id)  BY <1>6, <1>13 DEF Transmitted
    <2>7. h.queue[2].id \in Nat  BY <2>3 DEF Requests
    <2>8. Len(g.sent) = k + 1  BY <1>1, <2>6, <2>7, OneMore
    <2> HIDE DEF n, k
    <2>9. h.queue[2].id = k + 1  BY <1>1, <2>1, <2>4, <2>5
    <2> QED  BY <2>3, <2>8, <2>9 DEF k
  <1>14. ASSUME g.queue = <<>> PROVE Len(g.sent) = Len(h.sent)
    BY <1>6, <1>14 DEF NothingTransmitted
  <1> QED  BY <1>2, <1>4, <1>5, <1>6, <1>7, <1>9, <1>12, <1>13, <1>14

LEMMA PrimaryNumbers ==
    ASSUME NEW h \in Hosts, NEW g \in Hosts, h.buffer # <<>>, Taken(h, g),
           h.buffer[1].primary,
           NEW to \in Seq(Responses), NEW l \in SUBSET Responses,
           NumberInv(h), LineInv(h, to, l)
    PROVE  NumberInv(g)
  <1> DEFINE n == Len(h.queue)
             k == Len(h.sent)
  <1>1. /\ n \in Nat \ {0} /\ DOMAIN g.queue = 1 .. (n - 1) /\ Len(g.queue) = n - 1
        /\ \A i \in 1 .. (n - 1) : g.queue[i] = h.queue[i + 1]
        /\ DOMAIN h.queue = 1 .. n /\ (g.queue = <<>> <=> n = 1)
        /\ k \in Nat \ {0} /\ h.queue # <<>>
    BY PrimaryFacts
  <1>2. g.next = h.next /\ h.next \in Nat \ {0} /\ h.sent \in Seq(Nat)  BY DEF Taken, Hosts
  <1> HIDE DEF n, k
  <1>3. /\ n < h.next /\ k = h.next - n - 0
        /\ \A i \in 1 .. n : h.queue[i].id = h.next - n + i - 1
        /\ \A i \in DOMAIN h.sent : h.sent[i] = i
    BY <1>1 DEF NumberInv, n, k
  <1>4. Len(g.queue) < g.next  BY <1>1, <1>2, <1>3
  <1>5. \A i \in DOMAIN g.queue : g.queue[i].id = g.next - Len(g.queue) + i - 1
    <2> SUFFICES ASSUME NEW i \in DOMAIN g.queue
                 PROVE  g.queue[i].id = g.next - Len(g.queue) + i - 1
      OBVIOUS
    <2>1. i \in 1 .. (n - 1) /\ i + 1 \in 1 .. n  BY <1>1
    <2>2. g.queue[i].id = h.next - n + (i + 1) - 1  BY <1>1, <1>3, <2>1
    <2>3. g.next - Len(g.queue) + i - 1 = h.next - n + (i + 1) - 1  BY <1>1, <1>2, <2>1
    <2> QED  BY <2>2, <2>3
  <1>6. CASE g.queue = <<>>
    <2>1. g.sent = h.sent  BY <1>6, PrimaryFacts DEF NothingTransmitted
    <2>2. Len(g.sent) = k /\ n = 1 /\ Len(g.queue) = 0  BY <1>1, <1>6, <2>1 DEF k
    <2>3. Len(g.sent) = g.next - Len(g.queue) - 1  BY <1>1, <1>2, <1>3, <2>2
    <2> QED  BY <1>3, <1>4, <1>5, <1>6, <2>1, <2>3 DEF NumberInv
  <1>7. CASE g.queue # <<>>
    <2>1. /\ g.sent = Append(h.sent, h.queue[2].id) /\ h.queue[2].id = k + 1
      BY <1>7, PrimaryFacts DEF Transmitted, k
    <2>2. /\ Len(g.sent) = k + 1 /\ DOMAIN g.sent = 1 .. (k + 1) /\ g.sent[k + 1] = k + 1
          /\ \A i \in 1 .. k : g.sent[i] = h.sent[i] /\ DOMAIN h.sent = 1 .. k
      BY <1>1, <1>2, <2>1, OneMore DEF k
    <2>3. \A i \in DOMAIN g.sent : g.sent[i] = i
      <3> SUFFICES ASSUME NEW i \in 1 .. (k + 1) PROVE g.sent[i] = i  BY <2>2
      <3>1. CASE i \in 1 .. k  BY <1>3, <2>2, <3>1
      <3>2. CASE i = k + 1  BY <2>2, <3>2
      <3> QED  BY <1>1, <3>1, <3>2
    <2>4. Len(g.sent) = g.next - Len(g.queue) - 0  BY <1>1, <1>2, <1>3, <2>2
    <2> QED  BY <1>4, <1>5, <1>7, <2>3, <2>4 DEF NumberInv
  <1> QED  BY <1>6, <1>7

LEMMA PrimaryObservers ==
    ASSUME NEW h \in Hosts, NEW g \in Hosts, h.buffer # <<>>, Taken(h, g),
           h.buffer[1].primary,
           NEW to \in Seq(Responses), NEW l \in SUBSET Responses,
           NumberInv(h), LineInv(h, to, l), ObserverInv(h)
    PROVE  /\ ObserverInv(g)
           /\ h.queue[1].kind \in {"query", "power"} => h.queue[1] \in g.observers
  <1> USE PrimaryFacts
  <1> DEFINE k == Len(h.sent)
             k2 == Len(g.sent)
             r == h.queue[2]
  <1>1. /\ k \in Nat /\ k2 \in Nat /\ k <= k2
        /\ (g.queue # <<>> => k2 = k + 1 /\ r.id = k + 1 /\ r \in Requests /\ g.queue[1] = r)
    OBVIOUS
  <1>2. g.told = h.told /\ h.told \in Seq(Nat) /\ h.observers \in SUBSET Requests
    BY DEF Taken, Hosts
  <1>3. g.observers = (IF g.queue # <<>> /\ r.kind # "vehicle" THEN h.observers \union {r}
                       ELSE h.observers)
    BY DEF Transmitted, NothingTransmitted
  <1>4. \A o \in h.observers : o.id \in Nat  BY <1>2 DEF Requests
  <1>5. h.queue[1].kind \in {"query", "power"} => h.queue[1] \in h.observers
    BY DEF ObserverInv
  <1> HIDE DEF k, k2, r
  <1>6. \A o \in h.observers : o.id <= k /\ o.kind # "vehicle"  BY DEF ObserverInv, k
  <1>7. \A o \in h.observers, other \in h.observers : o.id = other.id => o = other
    BY DEF ObserverInv
  <1>8. \A i \in DOMAIN h.told : h.told[i] \in 1 .. k /\ \A o \in h.observers : o.id # h.told[i]
    BY DEF ObserverInv, k
  <1>9. \A o \in g.observers : o.id <= k2 /\ o.kind # "vehicle"
    BY <1>1, <1>3, <1>4, <1>6
  <1>10. \A o \in g.observers, other \in g.observers : o.id = other.id => o = other
    <2>1. g.queue # <<>> => \A o \in h.observers : o.id # r.id  BY <1>1, <1>4, <1>6
    <2> QED  BY <1>3, <1>7, <2>1
  <1>11. g.queue # <<>> /\ g.queue[1].kind \in {"query", "power"} => g.queue[1] \in g.observers
    <2> SUFFICES ASSUME g.queue # <<>>, r.kind \in {"query", "power"} PROVE r \in g.observers
      BY <1>1
    <2> QED  BY <1>3
  <1>12. \A i \in DOMAIN g.told : g.told[i] \in 1 .. k2 /\ \A o \in g.observers : o.id # g.told[i]
    <2> SUFFICES ASSUME NEW i \in DOMAIN h.told
                 PROVE  h.told[i] \in 1 .. k2 /\ \A o \in g.observers : o.id # h.told[i]
      BY <1>2
    <2>1. h.told[i] \in 1 .. k /\ \A o \in h.observers : o.id # h.told[i]  BY <1>8
    <2>2. h.told[i] \in Nat /\ h.told[i] <= k  BY <1>1, <2>1
    <2> QED  BY <1>1, <1>3, <2>1, <2>2
  <1>13. IsInjective(g.told)  BY <1>2 DEF ObserverInv
  <1>14. ObserverInv(g)  BY <1>9, <1>10, <1>11, <1>12, <1>13 DEF ObserverInv, k2
  <1> QED  BY <1>3, <1>5, <1>14

LEMMA PrimaryLine ==
    ASSUME NEW h \in Hosts, NEW g \in Hosts, h.buffer # <<>>, Taken(h, g),
           h.buffer[1].primary,
           NEW to \in Seq(Responses), NEW l \in SUBSET Responses,
           NumberInv(h), LineInv(h, to, l)
    PROVE  LineInv(g, to, l) /\ ~Answered(g, to)
  <1> USE PrimaryFacts
  <1>1. ~Answered(g, to)  BY DEF Answered
  <1>2. AtMostOne(g.buffer) /\ AtMostOne(to)  BY DEF AtMostOne, Silent
  <1>3. (\A x \in l : ~x.primary) /\ (\A x \in Coming(g, to) : ~x.primary)
    <2>1. \A x \in Coming(g, to) : ~x.primary  BY DEF Coming, Silent, Range
    <2> QED  BY <2>1 DEF LineInv
  <1>4. Coming(g, to) \in SUBSET Responses
    <2>1. g.buffer \in Seq(Responses)  BY DEF Hosts
    <2> QED  BY <2>1 DEF Coming, Range
  <1>5. \A x \in Coming(g, to) \union l : ResponseInv(g, x)
    <2> SUFFICES ASSUME NEW x \in Coming(g, to) \union l PROVE ResponseInv(g, x)  OBVIOUS
    <2>1. ResponseInv(h, x) /\ ~x.primary /\ x \in Responses  BY <1>3, <1>4 DEF LineInv
    <2>2. x.id <= Len(h.sent) /\ x.id \in Nat  BY <2>1 DEF ResponseInv, Responses
    <2>3. Len(h.sent) \in Nat /\ (Len(g.sent) = Len(h.sent) \/ Len(g.sent) = Len(h.sent) + 1)
      OBVIOUS
    <2>4. x.id <= Len(g.sent)  BY <2>2, <2>3
    <2> QED  BY <2>1, <2>4 DEF ResponseInv
  <1>6. g.line = <<>> \/ (g.queue # <<>> /\ g.line = <<g.queue[1]>>)
    <2>1. CASE g.queue = <<>>
      <3>1. g.line = <<>>  BY <2>1 DEF NothingTransmitted
      <3> QED  BY <3>1
    <2>2. CASE g.queue # <<>>
      <3>1. g.line = Append(h.line, h.queue[2]) /\ h.line = <<>> /\ g.queue[1] = h.queue[2]
        BY <2>2 DEF Transmitted
      <3> QED  BY <2>2, <3>1
    <2> QED  BY <2>1, <2>2
  <1> QED  BY <1>1, <1>2, <1>3, <1>5, <1>6 DEF LineInv

\* The power that is shown has to be settled by the callback only if the power was
\* asked or switched.
LEMMA PrimaryPower ==
    ASSUME NEW h \in Hosts, NEW g \in Hosts, h.buffer # <<>>, Taken(h, g),
           h.buffer[1].primary,
           NEW to \in Seq(Responses), NEW l \in SUBSET Responses,
           NumberInv(h), LineInv(h, to, l), NEW p, PowerComing(h, to, p), PowerShown(h, to, p)
    PROVE  /\ PowerComing(g, to, p)
           /\ \/ PowerShown(g, to, p)
              \/ h.queue[1].kind = "query" /\ h.buffer[1].value = p
              \/ /\ h.queue[1].kind = "power" /\ h.buffer[1].status = "succeeded"
                 /\ h.queue[1].arg = p
  <1> USE PrimaryFacts
  <1>1. \A x \in Coming(g, to) : ~x.primary  BY DEF Coming, Silent, Range
  <1>2. PowerComing(g, to, p)  BY <1>1 DEF PowerComing
  <1>3. h.queue[1].kind = "query" => h.buffer[1].value = p  BY DEF PowerComing
  <1>4. h.queue[1].kind = "power" /\ h.buffer[1].status = "succeeded" => h.queue[1].arg = p
    BY DEF PowerComing
  <1>5. ASSUME h.queue[1].kind # "query",
               ~(h.queue[1].kind = "power" /\ h.buffer[1].status = "succeeded")
        PROVE  PowerShown(g, to, p)
    <2>1. g.known = h.known /\ g.power = h.power  BY DEF Taken, SameRest
    <2>2. CASE ~h.known  BY <2>1, <2>2 DEF PowerShown
    <2>3. CASE \E i \in DOMAIN h.queue : h.queue[i].kind = "query"
      <3>1. PICK i \in DOMAIN h.queue : h.queue[i].kind = "query"  BY <2>3
      <3>2. i # 1 /\ i \in 1 .. Len(h.queue) /\ Len(h.queue) \in Nat  BY <1>5, <3>1
      <3>3. i - 1 \in 1 .. (Len(h.queue) - 1) /\ (i - 1) + 1 = i  BY <3>2
      <3>4. i - 1 \in DOMAIN g.queue /\ g.queue[i - 1] = h.queue[i]
        <4>1. ASSUME NEW m \in 1 .. (Len(h.queue) - 1)
              PROVE  m \in DOMAIN g.queue /\ g.queue[m] = h.queue[m + 1]
          OBVIOUS
        <4> QED  BY <3>3, <4>1
      <3> QED  BY <3>1, <3>4 DEF PowerShown
    <2>4. CASE /\ h.queue # <<>> /\ h.queue[1].kind = "power" /\ h.line = <<>>
               /\ \A x \in Coming(h, to) : x.primary => x.status = "succeeded"
      BY <1>5, <2>4
    <2>5. CASE h.power = p  BY <2>1, <2>5 DEF PowerShown
    <2> QED  BY <2>2, <2>3, <2>4, <2>5 DEF PowerShown
  <1> QED  BY <1>2, <1>3, <1>4, <1>5

LEMMA PrimarySpeed ==
    ASSUME NEW h \in Hosts, NEW g \in Hosts, h.buffer # <<>>, Taken(h, g),
           h.buffer[1].primary,
           NEW to \in Seq(Responses), NEW l \in SUBSET Responses,
           NumberInv(h), LineInv(h, to, l), NEW s, SpeedInv(h, to, s)
    PROVE  SpeedInv(g, to, s)
  <1> DEFINE n == Len(h.queue)
  <1>1. /\ n \in Nat \ {0} /\ DOMAIN g.queue = 1 .. (n - 1) /\ DOMAIN h.queue = 1 .. n
        /\ \A i \in 1 .. (n - 1) : g.queue[i] = h.queue[i + 1]
    BY PrimaryFacts
  <1>2. g.speed = h.speed  BY DEF Taken, SameRest
  <1>3. ~Answered(g, to)  BY PrimaryLine
  <1> HIDE DEF n
  <1>4. \A i \in DOMAIN g.queue : i + 1 \in DOMAIN h.queue /\ g.queue[i] = h.queue[i + 1]
    BY <1>1
  <1>5. \A i \in DOMAIN h.queue : i = 1 \/ (i - 1 \in DOMAIN g.queue /\ h.queue[i] = g.queue[i - 1])
    <2> SUFFICES ASSUME NEW i \in 1 .. n, i # 1
                 PROVE  i - 1 \in 1 .. (n - 1) /\ h.queue[i] = g.queue[i - 1]
      BY <1>1
    <2>1. i - 1 \in 1 .. (n - 1) /\ (i - 1) + 1 = i  BY <1>1
    <2> QED  BY <1>1, <2>1
  <1>6. \A i \in DOMAIN g.queue :
          \/ g.queue[i].kind # "vehicle"
          \/ \E j \in DOMAIN g.queue : i < j /\ g.queue[j].kind = "vehicle"
          \/ g.queue[i].arg = g.speed
    <2> SUFFICES ASSUME NEW i \in DOMAIN g.queue, g.queue[i].kind = "vehicle",
                        g.queue[i].arg # g.speed
                 PROVE  \E j \in DOMAIN g.queue : i < j /\ g.queue[j].kind = "vehicle"
      OBVIOUS
    <2>1. i \in Nat \ {0} /\ i + 1 \in DOMAIN h.queue /\ h.queue[i + 1] = g.queue[i]
      BY <1>1, <1>4
    <2>2. PICK j \in DOMAIN h.queue : i + 1 < j /\ h.queue[j].kind = "vehicle"
      BY <1>2, <2>1 DEF SpeedInv
    <2>3. j \in Nat /\ j # 1 /\ i < j - 1  BY <1>1, <2>1, <2>2
    <2> QED  BY <1>5, <2>2, <2>3
  <1>7. \/ \E i \in DOMAIN g.queue : g.queue[i].kind = "vehicle" /\ ~(i = 1 /\ Answered(g, to))
        \/ g.speed \in {s, Unset}
    <2> SUFFICES ASSUME g.speed \notin {s, Unset}
                 PROVE  \E i \in DOMAIN g.queue : g.queue[i].kind = "vehicle"
      BY <1>3
    <2>1. PICK i \in DOMAIN h.queue : h.queue[i].kind = "vehicle" /\ ~(i = 1 /\ Answered(h, to))
      BY <1>2 DEF SpeedInv
    <2>2. Answered(h, to)
      <3>1. 1 \in DOMAIN h.buffer
        <4>1. h.buffer \in Seq(Responses)  BY DEF Hosts
        <4> QED  BY <4>1, OneLess
      <3> QED  BY <3>1 DEF Answered, Silent
    <2> QED  BY <1>5, <2>1, <2>2
  <1> QED  BY <1>6, <1>7 DEF SpeedInv

-----------------------------------------------------------------------------
(* The parts together, and what queueing does to them.                       *)

\* All but what the power control shows.
LinesInv(h, to, l, p, s) ==
    /\ h \in Hosts /\ NumberInv(h) /\ ObserverInv(h) /\ LineInv(h, to, l)
    /\ PowerComing(h, to, p) /\ SpeedInv(h, to, s)

HostInv(h, to, l, p, s) == LinesInv(h, to, l, p, s) /\ PowerShown(h, to, p)

\* Requests were queued between h and g.
Further(h, g) ==
    /\ g.slots = h.slots /\ g.buffer = h.buffer
    /\ g.next >= h.next /\ g.next - Len(g.queue) = h.next - Len(h.queue)
    /\ g.queue = <<>> => h.queue = <<>>
    /\ g.sent = IF h.queue = <<>> /\ g.queue # <<>> THEN Append(h.sent, Len(h.sent) + 1)
                ELSE h.sent

More(h, g) == Further(h, g) /\ g.told = h.told

LEMMA MoreTwice ==
    ASSUME NEW h \in Hosts, NEW g \in Hosts, NEW f \in Hosts, More(h, g), More(g, f)
    PROVE  More(h, f)
  <1>1. h.next \in Nat /\ g.next \in Nat /\ f.next \in Nat  BY DEF Hosts
  <1>2. f.next >= h.next  BY <1>1 DEF More, Further
  <1> QED  BY <1>2 DEF More, Further

LEMMA QueueKeeps ==
    ASSUME NEW h, NEW kind \in Kind, NEW arg \in Power \union Speed \union {Unset},
           NEW to \in Seq(Responses), NEW l \in SUBSET Responses, NEW p, NEW s,
           LinesInv(h, to, l, p, s), kind = "query" \/ PowerShown(h, to, p),
           kind # "vehicle", Fits(kind, arg)
    PROVE  /\ HostInv(QueueRequest(h, kind, arg), to, l, p, s)
           /\ More(h, QueueRequest(h, kind, arg))
           /\ QueueRequest(h, kind, arg).queue # <<>>
  <1> DEFINE g == QueueRequest(h, kind, arg)
             r == Number(h, kind, arg)
  <1>1. h \in Hosts /\ NumberInv(h) /\ ObserverInv(h) /\ LineInv(h, to, l)
        /\ PowerComing(h, to, p) /\ SpeedInv(h, to, s)
    BY DEF LinesInv
  <1>2. r \in Requests /\ g \in Hosts /\ Pushed(h, g, r)  BY <1>1, Pushes
  <1>3. r.id = h.next /\ r.kind = kind  BY DEF Number
  <1> HIDE DEF g, r
  <1>4. NumberInv(g)  BY <1>1, <1>2, <1>3, PushNumbers
  <1>5. ObserverInv(g)  BY <1>1, <1>2, <1>3, PushObservers
  <1>6. LineInv(g, to, l)  BY <1>1, <1>2, <1>3, PushLine
  <1>7. PowerComing(g, to, p) /\ PowerShown(g, to, p)  BY <1>1, <1>2, <1>3, PushPower
  <1>8. SpeedInv(g, to, s)  BY <1>1, <1>2, <1>3, PushSpeed
  <1>9. More(h, g) /\ g.queue # <<>>
    <2>1. /\ g.queue # <<>> /\ h.queue \in Seq(Requests) /\ h.next \in Nat
          /\ (h.queue = <<>> => Len(h.sent) + 1 = r.id) /\ Len(h.queue) \in Nat
      <3>1. h.queue \in Seq(Requests) /\ h.next \in Nat  BY <1>1 DEF Hosts
      <3>2. /\ g.queue # <<>> /\ Len(h.queue) \in Nat
            /\ h.queue = <<>> => Len(g.sent) = r.id /\ Len(g.sent) = Len(h.sent) + 1
        BY <1>1, <1>2, <1>3, PushFacts
      <3> QED  BY <3>1, <3>2
    <2>2. g.next - Len(g.queue) = h.next - Len(h.queue)
      <3>1. g.next = h.next + 1 /\ g.queue = Append(h.queue, r)  BY <1>2 DEF Pushed
      <3> DEFINE n == Len(h.queue)
      <3>2. Len(g.queue) = n + 1 /\ n \in Nat  BY <1>2, <2>1, <3>1, OneMore
      <3> HIDE DEF n
      <3>3. h.next \in Nat /\ g.next = h.next + 1  BY <2>1, <3>1
      <3>4. g.next - Len(g.queue) = h.next - n  BY <3>2, <3>3
      <3> QED  BY <3>4 DEF n
    <2>3. g.next >= h.next  BY <1>2, <2>1 DEF Pushed
    <2>4. g.sent = IF h.queue = <<>> THEN Append(h.sent, Len(h.sent) + 1) ELSE h.sent
      BY <1>2, <2>1 DEF Pushed, Transmitted, NothingTransmitted
    <2> QED  BY <1>2, <2>1, <2>2, <2>3, <2>4 DEF More, Further, Pushed, SameRest
  <1> QED  BY <1>2, <1>4, <1>5, <1>6, <1>7, <1>8, <1>9 DEF HostInv, LinesInv, g

\* The three requests of a device that was asked for its info.
LEMMA InfoKeeps ==
    ASSUME NEW h, NEW to \in Seq(Responses), NEW l \in SUBSET Responses, NEW p, NEW s,
           LinesInv(h, to, l, p, s)
    PROVE  /\ HostInv(UpdateDeviceInfo(h), to, l, p, s) /\ More(h, UpdateDeviceInfo(h))
           /\ UpdateDeviceInfo(h).queue # <<>>
  <1> DEFINE a == QueueRequest(h, "query", Unset)
             b == QueueRequest(a, "equipment", Unset)
             c == QueueRequest(b, "status", Unset)
  <1>1. {"query", "equipment", "status"} \subseteq Kind
        /\ Unset \in Power \union Speed \union {Unset}
        /\ \A kind \in {"query", "equipment", "status"} : Fits(kind, Unset)
    BY DEF Kind, Fits
  <1>2. HostInv(a, to, l, p, s) /\ More(h, a)
    <2>1. "query" \in Kind  BY <1>1
    <2> QED  BY <1>1, <2>1, QueueKeeps
  <1> HIDE DEF a
  <1>3. HostInv(b, to, l, p, s) /\ More(a, b)
    <2>1. "equipment" \in Kind /\ "equipment" # "vehicle"  BY <1>1
    <2> QED  BY <1>1, <1>2, <2>1, QueueKeeps DEF HostInv
  <1> HIDE DEF b
  <1>4. HostInv(c, to, l, p, s) /\ More(b, c) /\ c.queue # <<>>
    <2>1. "status" \in Kind /\ "status" # "vehicle"  BY <1>1
    <2> QED  BY <1>1, <1>3, <2>1, QueueKeeps DEF HostInv
  <1> HIDE DEF c
  <1>5. h \in Hosts /\ a \in Hosts /\ b \in Hosts /\ c \in Hosts
    BY <1>2, <1>3, <1>4 DEF HostInv, LinesInv
  <1>6. More(h, b)  BY <1>2, <1>3, <1>5, MoreTwice
  <1>7. More(h, c)  BY <1>4, <1>5, <1>6, MoreTwice
  <1>8. UpdateDeviceInfo(h) = c  BY DEF UpdateDeviceInfo, a, b, c
  <1> QED  BY <1>4, <1>7, <1>8

-----------------------------------------------------------------------------
(* The observer is called.                                                   *)

SameLine(g, f) ==
    /\ f.queue = g.queue /\ f.buffer = g.buffer /\ f.next = g.next /\ f.line = g.line
    /\ f.sent = g.sent /\ f.speed = g.speed /\ f.slots = g.slots

LEMMA EditKeeps ==
    ASSUME NEW g \in Hosts, NEW f \in Hosts, SameLine(g, f),
           NEW to \in Seq(Responses), NEW l \in SUBSET Responses, NEW p, NEW s,
           LinesInv(g, to, l, p, s)
    PROVE  /\ NumberInv(f) /\ LineInv(f, to, l) /\ PowerComing(f, to, p) /\ SpeedInv(f, to, s)
           /\ f.known = g.known /\ f.power = g.power /\ PowerShown(g, to, p)
                => PowerShown(f, to, p)
           /\ f.power = p => PowerShown(f, to, p)
           /\ f.observers = g.observers /\ f.told = g.told => ObserverInv(f)
  <1>1. NumberInv(g) /\ ObserverInv(g) /\ LineInv(g, to, l)
        /\ PowerComing(g, to, p) /\ SpeedInv(g, to, s)
    BY DEF LinesInv
  <1>2. Coming(f, to) = Coming(g, to) /\ Answered(f, to) = Answered(g, to)
    BY DEF SameLine, Coming, Answered
  <1>3. NumberInv(f)  BY <1>1 DEF SameLine, NumberInv
  <1>4. LineInv(f, to, l)  BY <1>1, <1>2 DEF SameLine, LineInv, ResponseInv
  <1>5. PowerComing(f, to, p)  BY <1>1, <1>2 DEF SameLine, PowerComing
  <1>6. SpeedInv(f, to, s)  BY <1>1, <1>2 DEF SameLine, SpeedInv
  <1>7. f.known = g.known /\ f.power = g.power /\ PowerShown(g, to, p) => PowerShown(f, to, p)
    BY <1>2 DEF SameLine, PowerShown
  <1>8. f.power = p => PowerShown(f, to, p)  BY DEF PowerShown
  <1>9. f.observers = g.observers /\ f.told = g.told => ObserverInv(f)
    BY <1>1 DEF SameLine, ObserverInv
  <1> QED  BY <1>3, <1>4, <1>5, <1>6, <1>7, <1>8, <1>9

\* An observer goes, that of the head excepted.
LEMMA ForgetKeeps ==
    ASSUME NEW g, NEW o,
           NEW to \in Seq(Responses), NEW l \in SUBSET Responses, NEW p, NEW s,
           HostInv(g, to, l, p, s),
           o.kind \notin {"query", "power"} \/ g.queue = <<>> \/ g.queue[1].id # o.id
    PROVE  LET f == Forget(g, o)
           IN  HostInv(f, to, l, p, s) /\ SameLine(g, f) /\ f.told = g.told
  <1> DEFINE f == Forget(g, o)
  <1>1. g \in Hosts /\ LinesInv(g, to, l, p, s) /\ ObserverInv(g) /\ PowerShown(g, to, p)
    BY DEF HostInv, LinesInv
  <1>2. g.observers \in SUBSET Requests  BY <1>1 DEF Hosts
  <1>3. f = [g EXCEPT !.observers = g.observers \ {o}]  BY DEF Forget
  <1>4. g.observers \ {o} \in SUBSET Requests  BY <1>2
  <1> HIDE DEF f
  <1>5. f \in Hosts  BY <1>1, <1>3, <1>4, Zenon DEF Hosts
  <1>6. /\ SameLine(g, f) /\ f.told = g.told /\ f.known = g.known /\ f.power = g.power
        /\ f.observers = g.observers \ {o}
    BY <1>1, <1>3 DEF SameLine, Hosts
  <1>7. ObserverInv(f)
    <2>1. f.queue # <<>> /\ f.queue[1].kind \in {"query", "power"} => f.queue[1] \in f.observers
      <3> SUFFICES ASSUME g.queue # <<>>, g.queue[1].kind \in {"query", "power"}
                   PROVE  g.queue[1] # o
        BY <1>1, <1>6 DEF SameLine, ObserverInv
      <3> QED  OBVIOUS
    <2> QED  BY <1>1, <1>6, <2>1 DEF ObserverInv, SameLine
  <1>8. NumberInv(f) /\ LineInv(f, to, l) /\ PowerComing(f, to, p) /\ SpeedInv(f, to, s)
        /\ PowerShown(f, to, p)
    BY <1>1, <1>5, <1>6, EditKeeps
  <1> QED  BY <1>5, <1>6, <1>7, <1>8 DEF HostInv, LinesInv, f

\* Its caller gets a result.
LEMMA TellKeeps ==
    ASSUME NEW g, NEW o,
           NEW to \in Seq(Responses), NEW l \in SUBSET Responses, NEW p, NEW s,
           HostInv(g, to, l, p, s), o \in g.observers,
           o.kind \notin {"query", "power"} \/ g.queue = <<>> \/ g.queue[1].id # o.id
    PROVE  LET f == Tell(g, o)
           IN  HostInv(f, to, l, p, s) /\ SameLine(g, f) /\ f.told = Append(g.told, o.id)
  <1> DEFINE e == Forget(g, o)
             f == Tell(g, o)
  <1>1. HostInv(e, to, l, p, s) /\ SameLine(g, e) /\ e.told = g.told  BY ForgetKeeps
  <1>2. g \in Hosts /\ ObserverInv(g)  BY DEF HostInv, LinesInv
  <1>3. e.observers = g.observers \ {o} /\ e = [g EXCEPT !.observers = g.observers \ {o}]
    BY <1>2 DEF Forget, Hosts
  <1>4. g.observers \in SUBSET Requests /\ g.told \in Seq(Nat) /\ g.sent \in Seq(Nat)
    BY <1>2 DEF Hosts
  <1>5. o.id \in Nat \ {0}  BY <1>4 DEF Requests
  <1>6. f = [e EXCEPT !.told = Append(e.told, o.id)]  BY DEF Tell
  <1> HIDE DEF e, f
  <1>7. e \in Hosts /\ LinesInv(e, to, l, p, s) /\ ObserverInv(e) /\ PowerShown(e, to, p)
    BY <1>1 DEF HostInv, LinesInv
  <1>8. Append(e.told, o.id) \in Seq(Nat)  BY <1>1, <1>4, <1>5
  <1>9. f \in Hosts  BY <1>6, <1>7, <1>8, Zenon DEF Hosts
  <1>10. /\ SameLine(e, f) /\ f.told = Append(e.told, o.id) /\ f.known = e.known
         /\ f.power = e.power /\ f.observers = e.observers
    BY <1>6, <1>7 DEF SameLine, Hosts
  <1>11. /\ NumberInv(f) /\ LineInv(f, to, l) /\ PowerComing(f, to, p) /\ SpeedInv(f, to, s)
         /\ PowerShown(f, to, p)
    BY <1>7, <1>9, <1>10, EditKeeps
  <1>12. ObserverInv(f)
    <2> DEFINE n == Len(g.told)
    <2>1. /\ n \in Nat /\ DOMAIN g.told = 1 .. n /\ DOMAIN f.told = 1 .. (n + 1)
          /\ \A i \in 1 .. n : f.told[i] = g.told[i]
          /\ f.told[n + 1] = o.id
      BY <1>1, <1>4, <1>5, <1>10, OneMore
    <2> HIDE DEF n
    <2>2. o.id \in 1 .. Len(g.sent)
      <3>1. o.id <= Len(g.sent)  BY <1>2 DEF ObserverInv
      <3> QED  BY <1>4, <1>5, <3>1
    <2>3. f.observers = g.observers \ {o} /\ f.sent = g.sent
      BY <1>1, <1>3, <1>10 DEF SameLine
    <2>4. \A i \in DOMAIN f.told : /\ f.told[i] \in 1 .. Len(f.sent)
                                   /\ \A x \in f.observers : x.id # f.told[i]
      <3> SUFFICES ASSUME NEW i \in 1 .. (n + 1)
                   PROVE  /\ f.told[i] \in 1 .. Len(g.sent)
                          /\ \A x \in g.observers \ {o} : x.id # f.told[i]
        BY <2>1, <2>3
      <3>1. CASE i \in 1 .. n  BY <1>2, <2>1, <3>1 DEF ObserverInv
      <3>2. CASE i = n + 1  BY <1>2, <2>1, <2>2, <3>2 DEF ObserverInv
      <3> QED  BY <2>1, <3>1, <3>2
    <2>5. IsInjective(f.told)
      <3>1. IsInjective(g.told) /\ \A i \in 1 .. n : g.told[i] # o.id
        BY <1>2, <2>1 DEF ObserverInv
      <3> SUFFICES ASSUME NEW i \in 1 .. (n + 1), NEW j \in 1 .. (n + 1), f.told[i] = f.told[j]
                   PROVE  i = j
        BY <2>1 DEF IsInjective
      <3>2. CASE i \in 1 .. n /\ j \in 1 .. n  BY <2>1, <3>1, <3>2 DEF IsInjective
      <3>3. CASE i = n + 1 /\ j \in 1 .. n  BY <2>1, <3>1, <3>3
      <3>4. CASE i \in 1 .. n /\ j = n + 1  BY <2>1, <3>1, <3>4
      <3>5. CASE i = n + 1 /\ j = n + 1  BY <3>5
      <3> QED  BY <2>1, <3>2, <3>3, <3>4, <3>5
    <2>6. /\ \A x \in f.observers : x.id <= Len(f.sent) /\ x.kind # "vehicle"
          /\ \A x \in f.observers, other \in f.observers : x.id = other.id => x = other
      BY <1>2, <2>3 DEF ObserverInv
    <2>7. f.queue # <<>> /\ f.queue[1].kind \in {"query", "power"} => f.queue[1] \in f.observers
      BY <1>7, <1>10 DEF ObserverInv, SameLine
    <2> QED  BY <2>4, <2>5, <2>6, <2>7 DEF ObserverInv
  <1>13. SameLine(g, f) /\ f.told = Append(g.told, o.id)  BY <1>1, <1>10 DEF SameLine
  <1> QED  BY <1>9, <1>11, <1>12, <1>13 DEF HostInv, LinesInv, f

\* What taking a response leaves to its observer.
LEMMA Taking ==
    ASSUME NEW h, NEW to \in Seq(Responses), NEW l \in SUBSET Responses,
           NEW p \in Power, NEW s, HostInv(h, to, l, p, s), h.buffer # <<>>
    PROVE  LET g == TakePrimary(Frame(h), Head(h.buffer))
               response == h.buffer[1]
           IN  /\ h \in Hosts /\ LinesInv(g, to, l, p, s) /\ Taken(h, g)
               /\ Head(h.buffer) = response /\ response \in Responses
               /\ \/ PowerShown(g, to, p)
                  \/ response.kind = "query" /\ response.value = p
                  \/ /\ response.kind = "power" /\ response.status = "succeeded"
                     /\ \A o \in g.observers : o.id = response.id => o.arg = p
               /\ IF response.primary
                  THEN /\ ~Silent(h.buffer) /\ Silent(g.buffer)
                       /\ g.queue = <<>> \/ g.queue[1].id # response.id
                  ELSE /\ response.kind \in {"equipment", "variable"}
                       /\ Silent(h.buffer) => Silent(g.buffer)
  <1> DEFINE g == TakePrimary(Frame(h), Head(h.buffer))
             response == h.buffer[1]
  <1>1. h \in Hosts /\ NumberInv(h) /\ ObserverInv(h) /\ LineInv(h, to, l)
        /\ PowerComing(h, to, p) /\ PowerShown(h, to, p) /\ SpeedInv(h, to, s)
    BY DEF HostInv, LinesInv
  <1>2. g \in Hosts /\ Taken(h, g) /\ Head(h.buffer) = response /\ response \in Responses
    BY <1>1, Takes
  <1>3. 1 \in DOMAIN h.buffer /\ response \in Coming(h, to)
    <2>1. h.buffer \in Seq(Responses)  BY <1>1 DEF Hosts
    <2>2. 1 \in DOMAIN h.buffer  BY <2>1, OneLess
    <2> QED  BY <2>2 DEF Coming, Range
  <1> HIDE DEF g
  <1>4. CASE response.primary
    <2>1. NumberInv(g)  BY <1>1, <1>2, <1>4, PrimaryNumbers
    <2>2. ObserverInv(g) /\ (h.queue[1].kind \in {"query", "power"} => h.queue[1] \in g.observers)
      BY <1>1, <1>2, <1>4, PrimaryObservers
    <2>3. LineInv(g, to, l)  BY <1>1, <1>2, <1>4, PrimaryLine
    <2>4. PowerComing(g, to, p)
          /\ \/ PowerShown(g, to, p)
             \/ h.queue[1].kind = "query" /\ response.value = p
             \/ /\ h.queue[1].kind = "power" /\ response.status = "succeeded"
                /\ h.queue[1].arg = p
      BY <1>1, <1>2, <1>4, PrimaryPower
    <2>5. SpeedInv(g, to, s)  BY <1>1, <1>2, <1>4, PrimarySpeed
    <2>6. LinesInv(g, to, l, p, s)  BY <1>2, <2>1, <2>2, <2>3, <2>4, <2>5 DEF LinesInv
    <2>7. /\ response.id = h.queue[1].id /\ response.kind = h.queue[1].kind
          /\ h.queue[1].id = Len(h.sent) /\ Len(h.sent) \in Nat \ {0} /\ Silent(g.buffer)
          /\ g.queue # <<>> => g.queue[1] = h.queue[2] /\ h.queue[2].id = Len(h.sent) + 1
      BY <1>1, <1>2, <1>4, PrimaryFacts
    <2>8. g.queue = <<>> \/ g.queue[1].id # response.id  BY <2>7
    <2>9. h.queue[1].kind = "power" /\ h.queue[1].arg = p
            => \A o \in g.observers : o.id = response.id => o.arg = p
      BY <2>2, <2>7 DEF ObserverInv
    <2>10. ~Silent(h.buffer)  BY <1>3, <1>4 DEF Silent
    <2> QED  BY <1>1, <1>2, <1>4, <2>4, <2>6, <2>7, <2>8, <2>9, <2>10 DEF g
  <1>5. CASE ~response.primary
    <2>1. /\ NumberInv(g) /\ ObserverInv(g) /\ LineInv(g, to, l)
          /\ PowerComing(g, to, p) /\ PowerShown(g, to, p) /\ SpeedInv(g, to, s)
          /\ Silent(h.buffer) => Silent(g.buffer)
      BY <1>1, <1>2, <1>5, SecondaryTaken
    <2>2. LinesInv(g, to, l, p, s)  BY <1>2, <2>1 DEF LinesInv
    <2>3. response.kind \in {"equipment", "variable"}
      BY <1>1, <1>3, <1>5 DEF LineInv, ResponseInv
    <2> QED  BY <1>1, <1>2, <1>5, <2>1, <2>2, <2>3 DEF g
  <1> QED  BY <1>4, <1>5

\* Nothing is queued between g and f.
Quiet(g, f) == f.queue = g.queue /\ f.next = g.next /\ f.sent = g.sent
               /\ f.buffer = g.buffer /\ f.slots = g.slots

LEMMA QuietIsFurther ==
    ASSUME NEW g \in Hosts, NEW f, Quiet(g, f)
    PROVE  Further(g, f)
  <1>1. g.next \in Nat  BY DEF Hosts
  <1>2. f.next >= g.next  BY <1>1 DEF Quiet
  <1> QED  BY <1>2 DEF Further, Quiet

\* The session is established, and the device asked for its info.
LEMMA Started ==
    ASSUME NEW g, NEW to \in Seq(Responses), NEW l \in SUBSET Responses, NEW p, NEW s,
           LinesInv(g, to, l, p, s)
    PROVE  LET e == [g EXCEPT !.timer = FALSE, !.known = TRUE]
           IN  HostInv(UpdateDeviceInfo(e), to, l, p, s) /\ More(g, UpdateDeviceInfo(e))
  <1> DEFINE e == [g EXCEPT !.timer = FALSE, !.known = TRUE]
  <1>1. g \in Hosts /\ ObserverInv(g)  BY DEF LinesInv
  <1>2. e \in Hosts  BY <1>1, Zenon DEF Hosts
  <1>3. /\ SameLine(g, e) /\ e.told = g.told /\ e.observers = g.observers
    BY <1>1 DEF SameLine, Hosts
  <1> HIDE DEF e
  <1>4. LinesInv(e, to, l, p, s)  BY <1>1, <1>2, <1>3, EditKeeps DEF LinesInv
  <1>5. HostInv(UpdateDeviceInfo(e), to, l, p, s) /\ More(e, UpdateDeviceInfo(e))
    BY <1>4, InfoKeeps
  <1>6. More(g, UpdateDeviceInfo(e))  BY <1>3, <1>5 DEF More, Further, SameLine
  <1> QED  BY <1>5, <1>6 DEF e

\* The power is set to that of the station.
LEMMA PowerIsShown ==
    ASSUME NEW g, NEW to \in Seq(Responses), NEW l \in SUBSET Responses,
           NEW p \in Power, NEW s, LinesInv(g, to, l, p, s)
    PROVE  LET e == [g EXCEPT !.power = p]
           IN  HostInv(e, to, l, p, s) /\ SameLine(g, e) /\ e.told = g.told
               /\ e.observers = g.observers
  <1> DEFINE e == [g EXCEPT !.power = p]
  <1>1. g \in Hosts /\ ObserverInv(g)  BY DEF LinesInv
  <1>2. e \in Hosts  BY <1>1, Zenon DEF Hosts
  <1>3. /\ SameLine(g, e) /\ e.told = g.told /\ e.observers = g.observers /\ e.power = p
    BY <1>1 DEF SameLine, Hosts
  <1> HIDE DEF e
  <1>4. LinesInv(e, to, l, p, s) /\ PowerShown(e, to, p)
    BY <1>1, <1>2, <1>3, EditKeeps DEF LinesInv
  <1> QED  BY <1>3, <1>4 DEF HostInv, e

\* Calling an observer keeps the invariant.
LEMMA Observes ==
    ASSUME NEW h, NEW to \in Seq(Responses), NEW l \in SUBSET Responses,
           NEW p \in Power, NEW s, HostInv(h, to, l, p, s), h.buffer # <<>>,
           NEW o, o \in TakePrimary(Frame(h), Head(h.buffer)).observers,
           o.id = h.buffer[1].id, o.kind = h.buffer[1].kind
    PROVE  LET g == TakePrimary(Frame(h), Head(h.buffer))
               f == Observe(g, o, h.buffer[1])
           IN  /\ HostInv(f, to, l, p, s)
               /\ Further(g, f) /\ (h.buffer[1].primary \/ Quiet(g, f))
               /\ f.told = g.told \/ f.told = Append(g.told, o.id)
  <1> DEFINE g == TakePrimary(Frame(h), Head(h.buffer))
             response == h.buffer[1]
             f == Observe(g, o, response)
  <1>1. /\ LinesInv(g, to, l, p, s) /\ response \in Responses
        /\ \/ PowerShown(g, to, p)
           \/ response.kind = "query" /\ response.value = p
           \/ /\ response.kind = "power" /\ response.status = "succeeded"
              /\ \A x \in g.observers : x.id = response.id => x.arg = p
        /\ IF response.primary THEN g.queue = <<>> \/ g.queue[1].id # response.id
           ELSE response.kind \in {"equipment", "variable"}
    BY Taking
  <1>2. o \in g.observers  OBVIOUS
  <1> HIDE DEF g, f, response
  <1>3. o.id = response.id /\ o.kind = response.kind  BY DEF response
  <1>4. g \in Hosts /\ ObserverInv(g)  BY <1>1 DEF LinesInv
  <1>5. o.kind \in Kind \ {"vehicle"}
    <2>1. o \in Requests  BY <1>2, <1>4 DEF Hosts
    <2> QED  BY <1>2, <1>4, <2>1 DEF ObserverInv, Requests
  <1>6. \/ o.kind \notin {"query", "power"} \/ g.queue = <<>> \/ g.queue[1].id # o.id
    BY <1>1, <1>3
  <1>7. ASSUME NEW e, SameLine(g, e)  PROVE Quiet(g, e)  BY <1>7 DEF SameLine, Quiet
  <1>8. ASSUME Quiet(g, f)  PROVE Further(g, f)  BY <1>4, <1>8, QuietIsFurther
  <1>9. CASE o.kind = "reset"
    <2> DEFINE e == QueueRequest(g, "start", Unset)
    <2>1. HostInv(e, to, l, p, s) /\ More(g, e)
      <3>1. "start" \in Kind /\ "start" # "vehicle" /\ Unset \in Power \union Speed \union {Unset}
            /\ Fits("start", Unset)
        BY DEF Kind, Fits
      <3> QED  BY <1>1, <1>3, <1>9, <3>1, QueueKeeps
    <2>2. f = Forget(e, o)  BY <1>9 DEF Observe, f
    <2> HIDE DEF e
    <2>3. HostInv(f, to, l, p, s) /\ SameLine(e, f) /\ f.told = e.told
      BY <1>9, <2>1, <2>2, ForgetKeeps
    <2>4. Further(g, f) /\ f.told = g.told  BY <2>1, <2>3 DEF More, Further, SameLine
    <2>5. response.primary  BY <1>1, <1>3, <1>9
    <2> QED  BY <2>3, <2>4, <2>5 DEF f, g, response
  <1>10. CASE o.kind = "start"
    <2> DEFINE e == UpdateDeviceInfo([g EXCEPT !.timer = FALSE, !.known = TRUE])
    <2>1. HostInv(e, to, l, p, s) /\ More(g, e)  BY <1>1, Started
    <2>2. f = Forget(e, o)  BY <1>10 DEF Observe, f
    <2> HIDE DEF e
    <2>3. HostInv(f, to, l, p, s) /\ SameLine(e, f) /\ f.told = e.told
      BY <1>10, <2>1, <2>2, ForgetKeeps
    <2>4. Further(g, f) /\ f.told = g.told  BY <2>1, <2>3 DEF More, Further, SameLine
    <2>5. response.primary  BY <1>1, <1>3, <1>10
    <2> QED  BY <2>3, <2>4, <2>5 DEF f, g, response
  <1>11. CASE o.kind = "query"
    <2> DEFINE e == [g EXCEPT !.power = response.value]
    <2>1. HostInv(g, to, l, p, s) \/ response.value = p  BY <1>1, <1>3, <1>11 DEF HostInv
    <2>2. f = Forget(e, o)  BY <1>11 DEF Observe, f
    <2>3. HostInv(e, to, l, p, s) /\ SameLine(g, e) /\ e.told = g.told
      <3>1. response.primary  BY <1>1, <1>3, <1>11
      <3>2. response \in Coming(h, to)
        <4>1. h.buffer \in Seq(Responses)  BY Taking DEF Hosts
        <4>2. 1 \in DOMAIN h.buffer  BY <4>1, OneLess
        <4> QED  BY <4>2 DEF Coming, Range, response
      <3>3. response.value = p
        BY <1>3, <1>11, <3>1, <3>2 DEF HostInv, LinesInv, PowerComing
      <3> QED  BY <1>1, <3>3, PowerIsShown
    <2> HIDE DEF e
    <2>4. HostInv(f, to, l, p, s) /\ SameLine(e, f) /\ f.told = e.told
      <3>1. e.queue = g.queue  BY <2>3 DEF SameLine
      <3> QED  BY <1>6, <2>2, <2>3, <3>1, ForgetKeeps
    <2>5. Quiet(g, f) /\ f.told = g.told  BY <2>3, <2>4 DEF Quiet, SameLine
    <2> QED  BY <1>8, <2>4, <2>5 DEF f, g, response
  <1>12. CASE o.kind \in {"equipment", "status", "variable"}
    <2>1. HostInv(g, to, l, p, s)  BY <1>1, <1>3, <1>12 DEF HostInv
    <2>2. f = g \/ f = Forget(g, o) \/ f = Tell(g, o)  BY <1>12 DEF Observe, f
    <2>3. CASE f = g
      <3>1. Quiet(g, f) /\ f.told = g.told  BY <2>3 DEF Quiet
      <3> QED  BY <1>8, <2>1, <2>3, <3>1 DEF f, g, response
    <2>4. CASE f = Forget(g, o)
      <3>1. HostInv(f, to, l, p, s) /\ SameLine(g, f) /\ f.told = g.told
        BY <1>6, <2>1, <2>4, ForgetKeeps
      <3> QED  BY <1>7, <1>8, <3>1 DEF f, g, response
    <2>5. CASE f = Tell(g, o)
      <3>1. HostInv(f, to, l, p, s) /\ SameLine(g, f) /\ f.told = Append(g.told, o.id)
        BY <1>2, <1>6, <2>1, <2>5, TellKeeps
      <3> QED  BY <1>7, <1>8, <3>1 DEF f, g, response
    <2> QED  BY <2>2, <2>3, <2>4, <2>5
  <1>13. CASE o.kind = "power"
    <2> DEFINE e == IF response.status = "succeeded" THEN [g EXCEPT !.power = o.arg] ELSE g
    <2>1. f = Tell(e, o)  BY <1>13 DEF Observe, f
    <2>2. HostInv(e, to, l, p, s) /\ SameLine(g, e) /\ e.told = g.told /\ e.observers = g.observers
      <3>1. CASE response.status = "succeeded"
        <4>1. o.arg = p
          <5>1. response.primary  BY <1>1, <1>3, <1>13
          <5>2. response \in Coming(h, to)
            <6>1. h.buffer \in Seq(Responses)  BY Taking DEF Hosts
            <6>2. 1 \in DOMAIN h.buffer  BY <6>1, OneLess
            <6> QED  BY <6>2 DEF Coming, Range, response
          <5>3. h.queue[1].arg = p
            BY <1>3, <1>13, <3>1, <5>1, <5>2 DEF HostInv, LinesInv, PowerComing
          <5>4. h \in Hosts /\ NumberInv(h) /\ LineInv(h, to, l) /\ ObserverInv(h) /\ Taken(h, g)
            BY Taking DEF HostInv, LinesInv, g
          <5>5. /\ h.queue[1].kind \in {"query", "power"} => h.queue[1] \in g.observers
                /\ response.id = h.queue[1].id /\ response.kind = h.queue[1].kind
            BY <1>4, <5>1, <5>4, PrimaryObservers, PrimaryFacts DEF response
          <5>6. h.queue[1] \in g.observers  BY <1>3, <1>13, <5>5
          <5>7. o = h.queue[1]  BY <1>2, <1>3, <1>4, <5>5, <5>6 DEF ObserverInv
          <5> QED  BY <5>3, <5>7
        <4> QED  BY <1>1, <3>1, <4>1, PowerIsShown
      <3>2. CASE response.status # "succeeded"
        <4>1. e = g  BY <3>2
        <4>2. HostInv(g, to, l, p, s)  BY <1>1, <1>3, <1>13, <3>2 DEF HostInv
        <4> QED  BY <4>1, <4>2 DEF SameLine
      <3> QED  BY <3>1, <3>2
    <2> HIDE DEF e
    <2>3. HostInv(f, to, l, p, s) /\ SameLine(e, f) /\ f.told = Append(e.told, o.id)
      <3>1. e.queue = g.queue /\ o \in e.observers  BY <1>2, <2>2 DEF SameLine
      <3> QED  BY <1>6, <2>1, <2>2, <3>1, TellKeeps
    <2>4. Quiet(g, f) /\ f.told = Append(g.told, o.id)  BY <2>2, <2>3 DEF Quiet, SameLine
    <2> QED  BY <1>8, <2>3, <2>4 DEF f, g, response
  <1> QED  BY <1>5, <1>9, <1>10, <1>11, <1>12, <1>13 DEF Kind

-----------------------------------------------------------------------------
(* The frames of a chunk.                                                    *)

\* Nothing was answered and nothing sent between h and f.
Still(h, f) == f.next = h.next /\ Len(f.queue) = Len(h.queue) /\ f.sent = h.sent

\* The head was answered, and the next request sent if there is one.
Advanced(h, f) ==
    /\ f.next - Len(f.queue) = h.next - Len(h.queue) + 1 /\ h.queue # <<>>
    /\ f.sent = IF f.queue = <<>> THEN h.sent ELSE Append(h.sent, Len(h.sent) + 1)

\* One call of onReadyRead().
OneRead(h, f) ==
    /\ f.slots = h.slots /\ f.next >= h.next
    /\ f.told = h.told \/ (h.buffer # <<>> /\ f.told = Append(h.told, h.buffer[1].id))
    /\ \A i \in DOMAIN f.buffer : \E j \in DOMAIN h.buffer : f.buffer[i] = h.buffer[j]
    /\ \/ Still(h, f) /\ (Silent(h.buffer) => Silent(f.buffer))
       \/ Advanced(h, f) /\ ~Silent(h.buffer) /\ Silent(f.buffer)

LEMMA FrameRead ==
    ASSUME NEW h, NEW to \in Seq(Responses), NEW l \in SUBSET Responses,
           NEW p \in Power, NEW s, HostInv(h, to, l, p, s)
    PROVE  HostInv(OnReadyRead(h), to, l, p, s) /\ OneRead(h, OnReadyRead(h))
  <1> DEFINE f == OnReadyRead(h)
  <1>1. CASE h.buffer = <<>>
    <2>1. f = h  BY <1>1 DEF OnReadyRead
    <2>2. h.next \in Nat  BY DEF HostInv, LinesInv, Hosts
    <2>3. h.next >= h.next  BY <2>2
    <2> QED  BY <2>1, <2>3 DEF OneRead, Still
  <1>2. CASE h.buffer # <<>>
    <2> DEFINE g == TakePrimary(Frame(h), Head(h.buffer))
               response == h.buffer[1]
               found == {r \in g.observers : r.id = response.id /\ r.kind = response.kind}
               o == CHOOSE r \in found : TRUE
    <2>1. /\ h \in Hosts /\ LinesInv(g, to, l, p, s) /\ Taken(h, g)
          /\ Head(h.buffer) = response /\ response \in Responses
          /\ IF response.primary THEN ~Silent(h.buffer) /\ Silent(g.buffer)
             ELSE Silent(h.buffer) => Silent(g.buffer)
      BY <1>2, Taking
    <2>2. f = IF found = {} THEN g ELSE Observe(g, o, response)
      BY <1>2, <2>1 DEF OnReadyRead, HandleResponse, Frame
    <2>3. /\ HostInv(f, to, l, p, s) /\ Further(g, f) /\ (response.primary \/ Quiet(g, f))
          /\ f.told = g.told \/ f.told = Append(g.told, response.id)
      <3>1. CASE found # {}
        <4>1. o \in found  BY <3>1
        <4>2. o \in g.observers /\ o.id = response.id /\ o.kind = response.kind  BY <4>1
        <4> HIDE DEF o
        <4>3. /\ HostInv(Observe(g, o, response), to, l, p, s)
              /\ Further(g, Observe(g, o, response))
              /\ (response.primary \/ Quiet(g, Observe(g, o, response)))
              /\ \/ Observe(g, o, response).told = g.told
                 \/ Observe(g, o, response).told = Append(g.told, o.id)
          BY <1>2, <4>2, Observes
        <4>4. f = Observe(g, o, response)  BY <2>2, <3>1
        <4> HIDE DEF f, g, response, found
        <4> QED  BY <4>2, <4>3, <4>4
      <3>2. CASE found = {}
        <4>1. f = g  BY <2>2, <3>2
        <4>2. PowerShown(g, to, p)
          <5>1. \/ PowerShown(g, to, p)
                \/ /\ response.kind \in {"query", "power"} /\ response.primary
            BY <1>2, Taking
          <5>2. ASSUME response.kind \in {"query", "power"}, response.primary  PROVE FALSE
            <6>1. NumberInv(h) /\ LineInv(h, to, l) /\ ObserverInv(h)  BY DEF HostInv, LinesInv
            <6>2. /\ h.queue[1].kind \in {"query", "power"} => h.queue[1] \in g.observers
                  /\ response.id = h.queue[1].id /\ response.kind = h.queue[1].kind
              <7>1. g \in Hosts  BY <2>1 DEF LinesInv
              <7> QED  BY <1>2, <2>1, <5>2, <6>1, <7>1, PrimaryObservers, PrimaryFacts
            <6>3. h.queue[1] \in found  BY <5>2, <6>2
            <6> QED  BY <3>2, <6>3
          <5> QED  BY <5>1, <5>2
        <4>3. Quiet(g, f) /\ f.told = g.told  BY <4>1 DEF Quiet
        <4>4. g \in Hosts  BY <2>1 DEF LinesInv
        <4>5. Further(g, f)  BY <4>3, <4>4, QuietIsFurther
        <4> QED  BY <2>1, <4>1, <4>2, <4>3, <4>5 DEF HostInv
      <3> QED  BY <3>1, <3>2
    <2> HIDE DEF f, g
    <2>4. g.told = h.told /\ g.slots = h.slots /\ g.next = h.next /\ g.buffer = Tail(h.buffer)
      BY <2>1 DEF Taken, SameRest
    <2>5. \A i \in DOMAIN f.buffer : \E j \in DOMAIN h.buffer : f.buffer[i] = h.buffer[j]
      <3>1. h.buffer \in Seq(Responses)  BY <2>1 DEF Hosts
      <3>2. f.buffer = Tail(h.buffer)  BY <2>3, <2>4 DEF Further
      <3>3. \A i \in DOMAIN Tail(h.buffer) : /\ i + 1 \in DOMAIN h.buffer
                                             /\ Tail(h.buffer)[i] = h.buffer[i + 1]
        BY <1>2, <3>1, OneLess
      <3> QED  BY <3>2, <3>3
    <2>6. f.slots = h.slots /\ f.next >= h.next /\ f.buffer = g.buffer
      BY <2>3, <2>4 DEF Further
    <2>7. f.told = h.told \/ f.told = Append(h.told, response.id)  BY <2>3, <2>4
    <2>8. CASE ~response.primary
      <3>1. g.queue = h.queue /\ g.sent = h.sent
        BY <2>1, <2>8 DEF Taken, Completes, NothingTransmitted
      <3>2. Still(h, f) /\ (Silent(h.buffer) => Silent(f.buffer))
        BY <2>1, <2>3, <2>4, <2>6, <2>8, <3>1 DEF Still, Quiet
      <3> QED  BY <1>2, <2>3, <2>5, <2>6, <2>7, <3>2 DEF OneRead, f
    <2>9. CASE response.primary
      <3>1. NumberInv(h) /\ LineInv(h, to, l) /\ g \in Hosts
        BY <2>1 DEF HostInv, LinesInv
      <3>2. /\ h.queue # <<>> /\ Len(g.queue) = Len(h.queue) - 1
            /\ Len(h.queue) \in Nat \ {0}
            /\ IF g.queue = <<>> THEN NothingTransmitted(h, g) ELSE Transmitted(h, g, h.queue[2])
            /\ g.queue # <<>> => h.queue[2].id = Len(h.sent) + 1
        BY <1>2, <2>1, <2>9, <3>1, PrimaryFacts
      <3>3. g.sent = IF g.queue = <<>> THEN h.sent ELSE Append(h.sent, Len(h.sent) + 1)
        BY <3>2 DEF NothingTransmitted, Transmitted
      <3>4. f.sent = IF f.queue = <<>> THEN h.sent ELSE Append(h.sent, Len(h.sent) + 1)
        BY <2>3, <3>3 DEF Further
      <3>5. f.next - Len(f.queue) = h.next - Len(h.queue) + 1
        <4> DEFINE n == Len(h.queue)
                   m == Len(f.queue)
        <4>1. f.next - m = h.next - (n - 1) /\ n \in Nat /\ h.next \in Nat
          BY <2>1, <2>3, <2>4, <3>2 DEF Further, Hosts
        <4> HIDE DEF n, m
        <4>2. h.next - (n - 1) = h.next - n + 1  BY <4>1
        <4> QED  BY <4>1, <4>2 DEF n, m
      <3>6. Advanced(h, f) /\ ~Silent(h.buffer) /\ Silent(f.buffer)
        BY <2>1, <2>6, <2>9, <3>2, <3>4, <3>5 DEF Advanced
      <3> QED  BY <1>2, <2>3, <2>5, <2>6, <2>7, <3>6 DEF OneRead, f
    <2> QED  BY <2>8, <2>9
  <1> QED  BY <1>1, <1>2

\* Calling the slot any number of times.
Onward(h, f) ==
    /\ f.slots = h.slots /\ f.next >= h.next
    /\ Len(h.told) <= Len(f.told) /\ \A i \in DOMAIN h.told : f.told[i] = h.told[i]
    /\ \A i \in DOMAIN f.told : f.told[i] \in 1 .. Len(h.sent)
    /\ \A i \in DOMAIN f.buffer : f.buffer[i].id <= Len(h.sent)
    /\ Still(h, f) \/ (Advanced(h, f) /\ Silent(f.buffer))

LEMMA OnwardStarts ==
    ASSUME NEW h \in Hosts, ObserverInv(h),
           \A i \in DOMAIN h.buffer : h.buffer[i].id <= Len(h.sent)
    PROVE  Onward(h, h)
  <1>1. h.next \in Nat /\ h.told \in Seq(Nat)  BY DEF Hosts
  <1>2. h.next >= h.next /\ Len(h.told) <= Len(h.told)  BY <1>1
  <1> QED  BY <1>2 DEF Onward, Still, ObserverInv

LEMMA OnwardGoesOn ==
    ASSUME NEW h \in Hosts, NEW g \in Hosts, NEW f \in Hosts, Onward(h, g), OneRead(g, f)
    PROVE  Onward(h, f)
  <1>1. /\ h.next \in Nat /\ g.next \in Nat /\ f.next \in Nat
        /\ h.told \in Seq(Nat) /\ g.told \in Seq(Nat) /\ h.sent \in Seq(Nat)
        /\ g.buffer \in Seq(Responses)
    BY DEF Hosts
  <1>2. f.slots = h.slots /\ f.next >= h.next  BY <1>1 DEF Onward, OneRead
  <1>3. \A i \in DOMAIN f.buffer : f.buffer[i].id <= Len(h.sent)
    BY DEF Onward, OneRead
  <1>4. /\ Len(h.told) <= Len(f.told) /\ \A i \in DOMAIN h.told : f.told[i] = h.told[i]
        /\ \A i \in DOMAIN f.told : f.told[i] \in 1 .. Len(h.sent)
    <2> DEFINE n == Len(g.told)
               m == Len(h.told)
               k == Len(h.sent)
    <2>1. /\ n \in Nat /\ m \in Nat /\ k \in Nat /\ DOMAIN h.told = 1 .. m
          /\ DOMAIN g.told = 1 .. n
      BY <1>1
    <2>2. CASE f.told = g.told  BY <2>2 DEF Onward
    <2>3. CASE g.buffer # <<>> /\ f.told = Append(g.told, g.buffer[1].id)
      <3>1. 1 \in DOMAIN g.buffer /\ g.buffer[1].id \in Nat \ {0}
        <4>1. 1 \in DOMAIN g.buffer  BY <1>1, <2>3, OneLess
        <4>2. g.buffer[1] \in Responses  BY <1>1, <2>3, OneLess
        <4> QED  BY <4>1, <4>2 DEF Responses
      <3>2. /\ Len(f.told) = n + 1 /\ DOMAIN f.told = 1 .. (n + 1)
            /\ \A i \in 1 .. n : f.told[i] = g.told[i]
            /\ f.told[n + 1] = g.buffer[1].id
        BY <1>1, <2>3, <3>1, OneMore
      <3>3. g.buffer[1].id <= k  BY <3>1 DEF Onward
      <3> HIDE DEF n, m, k
      <3>4. m <= n /\ \A i \in 1 .. m : g.told[i] = h.told[i]  BY <2>1 DEF Onward, n, m
      <3>5. \A i \in 1 .. n : g.told[i] \in 1 .. k  BY <2>1 DEF Onward, k
      <3>6. m <= n + 1 /\ \A i \in 1 .. m : f.told[i] = h.told[i]  BY <2>1, <3>2, <3>4
      <3>7. g.buffer[1].id \in 1 .. k  BY <2>1, <3>1, <3>3
      <3>8. \A i \in 1 .. (n + 1) : f.told[i] \in 1 .. k
        <4> SUFFICES ASSUME NEW i \in 1 .. (n + 1) PROVE f.told[i] \in 1 .. k  OBVIOUS
        <4>1. CASE i \in 1 .. n  BY <3>2, <3>5, <4>1
        <4>2. CASE i = n + 1  BY <3>2, <3>7, <4>2
        <4> QED  BY <2>1, <4>1, <4>2
      <3> QED  BY <2>1, <3>2, <3>6, <3>8 DEF m, k
    <2> QED  BY <2>2, <2>3 DEF OneRead
  <1>5. Still(h, f) \/ (Advanced(h, f) /\ Silent(f.buffer))
    <2>1. CASE Still(h, g) /\ Still(g, f)  BY <2>1 DEF Still
    <2>2. CASE Still(h, g) /\ Advanced(g, f) /\ Silent(f.buffer)
      <3>1. h.queue \in Seq(Requests) /\ g.queue \in Seq(Requests)  BY DEF Hosts
      <3>2. h.queue # <<>>  BY <2>2, <3>1, EmptySeq DEF Still, Advanced
      <3> QED  BY <2>2, <3>2 DEF Still, Advanced
    <2>3. CASE Advanced(h, g) /\ Silent(g.buffer)
      <3>1. Still(g, f) /\ Silent(f.buffer)  BY <2>3 DEF OneRead
      <3>2. f.queue = <<>> <=> g.queue = <<>>
        <4>1. f.queue \in Seq(Requests) /\ g.queue \in Seq(Requests)  BY DEF Hosts
        <4> QED  BY <3>1, <4>1, EmptySeq DEF Still
      <3> QED  BY <2>3, <3>1, <3>2 DEF Still, Advanced
    <2> QED  BY <2>1, <2>2, <2>3 DEF Onward, OneRead
  <1> QED  BY <1>2, <1>3, <1>4, <1>5 DEF Onward

\* ReadyRead() is well defined: the calls can be numbered.
LEMMA CallsAreNumbered ==
    ASSUME NEW h, NEW N \in Nat
    PROVE  \E after : after = [n \in 0 .. N |-> IF n = 0 THEN h ELSE OnReadyRead(after[n - 1])]
  <1> DEFINE Step(a, n) == IF n = 0 THEN h ELSE OnReadyRead(a[n - 1])
             Calls(a, k) == a = [n \in 0 .. k |-> Step(a, n)]
             Numbered == {k \in Nat : \E a : Calls(a, k)}
  <1>1. 0 \in Numbered
    <2> DEFINE a == [n \in 0 .. 0 |-> h]
    <2>1. \A n \in 0 .. 0 : Step(a, n) = h  OBVIOUS
    <2>2. Calls(a, 0)
      <3> HIDE DEF Step
      <3> QED  BY <2>1, Zenon
    <2> QED  BY <2>2
  <1>2. ASSUME NEW k \in Nat, k \in Numbered  PROVE k + 1 \in Numbered
    <2>1. PICK a : Calls(a, k)  BY <1>2
    <2> DEFINE b == [n \in 0 .. (k + 1) |-> Step(a, n)]
    <2>2. \A n \in 0 .. k : b[n] = a[n]
      <3> SUFFICES ASSUME NEW n \in 0 .. k PROVE b[n] = a[n]  OBVIOUS
      <3>1. n \in 0 .. (k + 1)  OBVIOUS
      <3> HIDE DEF Step
      <3>2. b[n] = Step(a, n)  BY <3>1
      <3>3. a[n] = Step(a, n)  BY <2>1
      <3> QED  BY <3>2, <3>3
    <2>3. \A n \in 0 .. (k + 1) : Step(b, n) = Step(a, n)
      <3>1. \A n \in 0 .. (k + 1) : n = 0 \/ n - 1 \in 0 .. k  OBVIOUS
      <3> HIDE DEF b
      <3> QED  BY <2>2, <3>1
    <2>4. Calls(b, k + 1)
      <3> HIDE DEF Step
      <3> QED  BY <2>3, Zenon
    <2> HIDE DEF b, Calls
    <2> QED  BY <2>4
  <1> HIDE DEF Numbered
  <1>3. Nat \subseteq Numbered  BY <1>1, <1>2, Induction
  <1> QED  BY <1>3 DEF Numbered

LEMMA ChunkRead ==
    ASSUME NEW h, NEW to \in Seq(Responses), NEW l \in SUBSET Responses,
           NEW p \in Power, NEW s, HostInv(h, to, l, p, s)
    PROVE  HostInv(ReadyRead(h), to, l, p, s) /\ Onward(h, ReadyRead(h))
  <1>1. h \in Hosts /\ h.slots \in Nat /\ ObserverInv(h) /\ LineInv(h, to, l)
    BY DEF HostInv, LinesInv, Hosts
  <1> DEFINE Step(a, n) == IF n = 0 THEN h ELSE OnReadyRead(a[n - 1])
             Calls(a) == a = [n \in 0 .. h.slots |-> Step(a, n)]
             after == CHOOSE a : Calls(a)
  <1>2. Calls(after)
    <2>1. \E a : Calls(a)  BY <1>1, CallsAreNumbered
    <2> HIDE DEF Calls
    <2> QED  BY <2>1
  <1>3. ReadyRead(h) = after[h.slots]  BY DEF ReadyRead
  <1> HIDE DEF after
  <1>4. after[0] = h /\ \A n \in 1 .. h.slots : after[n] = OnReadyRead(after[n - 1])
    <2>1. \A n \in 0 .. h.slots : after[n] = Step(after, n)
      <3> HIDE DEF Step
      <3> QED  BY <1>2
    <2>2. 0 \in 0 .. h.slots /\ \A n \in 1 .. h.slots : n \in 0 .. h.slots /\ n # 0
      BY <1>1
    <2> QED  BY <2>1, <2>2
  <1> DEFINE Fine == {n \in Nat : n <= h.slots => /\ HostInv(after[n], to, l, p, s)
                                                  /\ Onward(h, after[n])}
  <1>5. 0 \in Fine
    <2>1. \A i \in DOMAIN h.buffer : h.buffer[i].id <= Len(h.sent)
      BY <1>1 DEF LineInv, ResponseInv, Coming, Range
    <2>2. Onward(h, h)  BY <1>1, <2>1, OnwardStarts
    <2> QED  BY <1>4, <2>2
  <1>6. ASSUME NEW n \in Nat, n \in Fine  PROVE n + 1 \in Fine
    <2> SUFFICES ASSUME n + 1 <= h.slots
                 PROVE  HostInv(after[n + 1], to, l, p, s) /\ Onward(h, after[n + 1])
      OBVIOUS
    <2>1. n <= h.slots /\ n + 1 \in 1 .. h.slots /\ (n + 1) - 1 = n  BY <1>1
    <2>2. HostInv(after[n], to, l, p, s) /\ Onward(h, after[n])  BY <1>6, <2>1
    <2>3. after[n + 1] = OnReadyRead(after[n])  BY <1>4, <2>1
    <2>4. HostInv(after[n + 1], to, l, p, s) /\ OneRead(after[n], after[n + 1])
      BY <2>2, <2>3, FrameRead
    <2>5. after[n] \in Hosts /\ after[n + 1] \in Hosts  BY <2>2, <2>4 DEF HostInv, LinesInv
    <2>6. Onward(h, after[n + 1])  BY <1>1, <2>2, <2>4, <2>5, OnwardGoesOn
    <2> QED  BY <2>4, <2>6
  <1> HIDE DEF Fine
  <1>7. Nat \subseteq Fine  BY <1>5, <1>6, Induction
  <1>8. h.slots <= h.slots  BY <1>1
  <1> QED  BY <1>1, <1>3, <1>7, <1>8 DEF Fine

-----------------------------------------------------------------------------
(* What happens on the line.                                                 *)

LEMMA SomethingComes ==
    ASSUME NEW h, NEW to
    PROVE  Answered(h, to) <=> \E x \in Coming(h, to) : x.primary
  BY DEF Answered, Silent, Coming, Range

\* Responses are moved on or lost.
LEMMA Moved ==
    ASSUME NEW h, NEW f \in Hosts, NEW to \in Seq(Responses), NEW l \in SUBSET Responses,
           NEW p, NEW s, HostInv(h, to, l, p, s),
           f.known = h.known /\ f.power = h.power /\ f.speed = h.speed,
           f.queue = h.queue /\ f.line = h.line /\ f.sent = h.sent /\ f.next = h.next,
           f.observers = h.observers /\ f.told = h.told,
           NEW to2, NEW l2, l2 \subseteq l, Coming(f, to2) \subseteq Coming(h, to) \union l,
           AtMostOne(f.buffer), AtMostOne(to2), Silent(f.buffer) \/ Silent(to2)
    PROVE  HostInv(f, to2, l2, p, s)
  <1>1. NumberInv(h) /\ ObserverInv(h) /\ LineInv(h, to, l)
        /\ PowerComing(h, to, p) /\ PowerShown(h, to, p) /\ SpeedInv(h, to, s)
    BY DEF HostInv, LinesInv
  <1>2. \A x \in Coming(f, to2) : x.primary => x \in Coming(h, to)
    BY <1>1 DEF LineInv
  <1>3. Answered(f, to2) => Answered(h, to)  BY <1>2, SomethingComes
  <1>4. NumberInv(f)  BY <1>1 DEF NumberInv
  <1>5. ObserverInv(f)  BY <1>1 DEF ObserverInv
  <1>6. LineInv(f, to2, l2)
    <2>1. \A x \in Coming(f, to2) \union l2 : ResponseInv(f, x)
      BY <1>1 DEF LineInv, ResponseInv
    <2> QED  BY <1>1, <1>3, <2>1 DEF LineInv
  <1>7. PowerComing(f, to2, p)  BY <1>1, <1>2 DEF PowerComing
  <1>8. PowerShown(f, to2, p)  BY <1>1, <1>2 DEF PowerShown
  <1>9. SpeedInv(f, to2, s)  BY <1>1, <1>3 DEF SpeedInv
  <1> QED  BY <1>4, <1>5, <1>6, <1>7, <1>8, <1>9 DEF HostInv, LinesInv

\* What the station makes of the request on the line: responses that come later, a
\* power and a speed only the request may change, and an answer that tells them.
Late(h, l, l2) == \A y \in l2 \ l : ~y.primary /\ ResponseInv(h, y)
Kept(h, p, p2, s, s2) ==
    (h.queue[1].kind = "power" \/ p2 = p) /\ (h.queue[1].kind = "vehicle" \/ s2 = s)
Effect(h, x, p, p2, s, s2) ==
    /\ x.primary /\ x.id = h.queue[1].id /\ x.kind = h.queue[1].kind
    /\ \/ p2 = p /\ ~(h.queue[1].kind = "power" /\ x.status = "succeeded")
       \/ h.queue[1].kind = "power" /\ x.status = "succeeded" /\ p2 = h.queue[1].arg
    /\ h.queue[1].kind = "query" => x.value = p
    /\ s2 = IF h.queue[1].kind = "vehicle" THEN h.queue[1].arg ELSE s

\* The request on the line is gone, and what it did to the station is not told.
LEMMA Unanswered ==
    ASSUME NEW h, NEW to \in Seq(Responses), NEW l \in SUBSET Responses, NEW p, NEW s,
           HostInv(h, to, l, p, s), h.line # <<>>, NEW l2, Late(h, l, l2),
           NEW p2, NEW s2, Kept(h, p, p2, s, s2)
    PROVE  LET f == [h EXCEPT !.line = Tail(@)]
           IN  /\ HostInv(f, to, l2, p2, s2)
               /\ f.queue = h.queue /\ f.sent = h.sent /\ f.next = h.next /\ f.told = h.told
               /\ f.buffer = h.buffer /\ f.slots = h.slots
  <1>late. \A y \in l2 \ l : ~y.primary /\ ResponseInv(h, y)  BY DEF Late
  <1>kept. /\ h.queue[1].kind = "power" \/ p2 = p
           /\ h.queue[1].kind = "vehicle" \/ s2 = s
    BY DEF Kept
  <1>1. h \in Hosts /\ NumberInv(h) /\ ObserverInv(h) /\ LineInv(h, to, l)
        /\ PowerComing(h, to, p) /\ PowerShown(h, to, p) /\ SpeedInv(h, to, s)
    BY DEF HostInv, LinesInv
  <1>2. /\ h.queue # <<>> /\ h.line = <<h.queue[1]>> /\ ~Answered(h, to)
        /\ \A x \in Coming(h, to) : ~x.primary
    BY <1>1, SomethingComes DEF LineInv
  <1> DEFINE f == [h EXCEPT !.line = Tail(@)]
  <1>3. Tail(h.line) = <<>>  BY <1>2
  <1>4. f = [h EXCEPT !.line = <<>>]  BY <1>3
  <1>5. <<>> \in Seq(Requests)  OBVIOUS
  <1> HIDE DEF f
  <1>6. f \in Hosts  BY <1>1, <1>4, <1>5, Zenon DEF Hosts
  <1>7. /\ f.known = h.known /\ f.power = h.power /\ f.speed = h.speed
        /\ f.queue = h.queue /\ f.line = <<>> /\ f.sent = h.sent /\ f.next = h.next
        /\ f.observers = h.observers /\ f.told = h.told /\ f.buffer = h.buffer
        /\ f.slots = h.slots
    BY <1>1, <1>4 DEF Hosts
  <1>8. Coming(f, to) = Coming(h, to) /\ ~Answered(f, to)
    BY <1>2, <1>7 DEF Coming, Answered
  <1>9. NumberInv(f)  BY <1>1, <1>7 DEF NumberInv
  <1>10. ObserverInv(f)  BY <1>1, <1>7 DEF ObserverInv
  <1>11. LineInv(f, to, l2)
    <2>1. \A x \in Coming(f, to) \union l2 : ResponseInv(f, x)
      BY <1>late, <1>1, <1>7, <1>8 DEF LineInv, ResponseInv
    <2> QED  BY <1>late, <1>1, <1>7, <2>1 DEF LineInv
  <1>12. PowerComing(f, to, p2)  BY <1>2, <1>8 DEF PowerComing
  <1>13. PowerShown(f, to, p2)
    <2>1. CASE h.queue[1].kind = "power"  BY <1>2, <1>7, <1>8, <2>1 DEF PowerShown
    <2>2. CASE p2 = p  BY <1>1, <1>2, <1>7, <1>8, <2>2 DEF PowerShown
    <2> QED  BY <1>kept, <2>1, <2>2
  <1>14. SpeedInv(f, to, s2)
    <2>1. CASE h.queue[1].kind = "vehicle"
      <3>1. 1 \in DOMAIN f.queue /\ f.queue[1].kind = "vehicle"
        <4>1. h.queue \in Seq(Requests)  BY <1>1 DEF Hosts
        <4> QED  BY <1>2, <1>7, <2>1, <4>1, OneLess
      <3> QED  BY <1>1, <1>7, <1>8, <3>1 DEF SpeedInv
    <2>2. CASE s2 = s  BY <1>1, <1>2, <1>7, <1>8, <2>2 DEF SpeedInv
    <2> QED  BY <1>kept, <2>1, <2>2
  <1> QED  BY <1>6, <1>7, <1>9, <1>10, <1>11, <1>12, <1>13, <1>14 DEF HostInv, LinesInv, f

\* The station answers the request it executed.
LEMMA Answers ==
    ASSUME NEW h, NEW to \in Seq(Responses), NEW l \in SUBSET Responses, NEW p, NEW s,
           HostInv(h, to, l, p, s), h.line # <<>>, NEW x \in Responses,
           NEW l2, Late(h, l, l2), NEW p2, NEW s2, Effect(h, x, p, p2, s, s2)
    PROVE  LET f == [h EXCEPT !.line = Tail(@)]
           IN  /\ HostInv(f, Append(to, x), l2, p2, s2)
               /\ f.queue = h.queue /\ f.sent = h.sent /\ f.next = h.next /\ f.told = h.told
  <1> DEFINE f == [h EXCEPT !.line = Tail(@)]
             n == Len(to)
             to2 == Append(to, x)
  <1>0. /\ x.primary /\ x.id = h.queue[1].id /\ x.kind = h.queue[1].kind
        /\ \/ p2 = p /\ ~(h.queue[1].kind = "power" /\ x.status = "succeeded")
           \/ h.queue[1].kind = "power" /\ x.status = "succeeded" /\ p2 = h.queue[1].arg
        /\ h.queue[1].kind = "query" => x.value = p
        /\ s2 = IF h.queue[1].kind = "vehicle" THEN h.queue[1].arg ELSE s
    BY DEF Effect
  <1>1. /\ HostInv(f, to, l2, p2, s2)
        /\ f.queue = h.queue /\ f.sent = h.sent /\ f.next = h.next /\ f.told = h.told
        /\ f.buffer = h.buffer /\ f.slots = h.slots
    <2>1. Kept(h, p, p2, s, s2)  BY <1>0 DEF Kept
    <2> QED  BY <2>1, Unanswered
  <1> USE <1>0
  <1>2. h \in Hosts /\ NumberInv(h) /\ LineInv(h, to, l) /\ SpeedInv(h, to, s)
        /\ PowerShown(h, to, p)
    BY DEF HostInv, LinesInv
  <1>3. h.queue # <<>> /\ ~Answered(h, to) /\ h.line # <<>>  BY <1>2 DEF LineInv
  <1>4. f = [h EXCEPT !.line = Tail(h.line)]  OBVIOUS
  <1>5. f.known = h.known /\ f.power = h.power /\ f.speed = h.speed
    BY <1>2, <1>4 DEF Hosts
  <1>6. f.line = <<>>
    <2>1. h.line = <<h.queue[1]>>  BY <1>2, <1>3 DEF LineInv
    <2> QED  BY <1>2, <1>4, <2>1 DEF Hosts
  <1> HIDE DEF f
  <1>7. /\ f \in Hosts /\ NumberInv(f) /\ ObserverInv(f) /\ LineInv(f, to, l2)
        /\ PowerComing(f, to, p2)
    BY <1>1 DEF HostInv, LinesInv
  <1>8. /\ n \in Nat /\ DOMAIN to = 1 .. n /\ DOMAIN to2 = 1 .. (n + 1)
        /\ \A i \in 1 .. n : to2[i] = to[i]
        /\ to2[n + 1] = x
    BY OneMore
  <1> HIDE DEF n, to2
  <1>9. Silent(to) /\ Silent(f.buffer)  BY <1>1, <1>3 DEF Answered
  <1>10. Coming(f, to2) = Coming(f, to) \union {x}
    <2>1. Range(to2) = Range(to) \union {x}
      <3>1. n + 1 \in DOMAIN to2 /\ \A i \in DOMAIN to : i \in DOMAIN to2 /\ to2[i] = to[i]
        BY <1>8
      <3>2. \A i \in DOMAIN to2 : to2[i] = x \/ (i \in DOMAIN to /\ to2[i] = to[i])  BY <1>8
      <3> QED  BY <1>8, <3>1, <3>2 DEF Range
    <2> QED  BY <2>1 DEF Coming
  <1>11. \A y \in Coming(f, to) : ~y.primary  BY <1>9 DEF Coming, Silent, Range
  <1>12. Answered(f, to2)  BY <1>10, SomethingComes
  <1>13. AtMostOne(to2)
    <2>1. \A i \in DOMAIN to2 : to2[i].primary => i = n + 1  BY <1>8, <1>9 DEF Silent
    <2> QED  BY <2>1 DEF AtMostOne
  <1>14. LineInv(f, to2, l2)
    <2>1. ResponseInv(f, x)
      <3>1. h.queue[1].id = Len(h.sent)
        <4> DEFINE k == Len(h.queue)
        <4>1. h.queue \in Seq(Requests) /\ h.next \in Nat  BY <1>2 DEF Hosts
        <4>2. k \in Nat \ {0} /\ 1 \in DOMAIN h.queue  BY <1>3, <4>1, OneLess
        <4>3. h.queue[1].id = h.next - k + 1 - 1 /\ Len(h.sent) = h.next - k - 0
          BY <1>2, <1>3, <4>2 DEF NumberInv
        <4> HIDE DEF k
        <4>4. h.next - k + 1 - 1 = h.next - k - 0  BY <4>1, <4>2
        <4> QED  BY <4>3, <4>4
      <3>2. x.id = Len(f.sent) /\ x.id \in Nat  BY <1>1, <3>1 DEF Responses
      <3>3. x.id <= Len(f.sent)  BY <3>2
      <3> QED  BY <1>1, <1>3, <3>3 DEF ResponseInv
    <2>2. \A y \in Coming(f, to2) \union l2 : ResponseInv(f, y)
      BY <1>7, <1>10, <2>1 DEF LineInv
    <2>3. AtMostOne(f.buffer) /\ (\A y \in l2 : ~y.primary)  BY <1>7 DEF LineInv
    <2> QED  BY <1>6, <1>9, <1>13, <2>2, <2>3 DEF LineInv
  <1>15. PowerComing(f, to2, p2)
    <2> SUFFICES ASSUME NEW y \in Coming(f, to2), y.primary
                 PROVE  /\ y.kind = "query" => y.value = p2
                        /\ y.kind = "power" /\ y.status = "succeeded" => f.queue[1].arg = p2
      BY DEF PowerComing
    <2>1. y = x  BY <1>10, <1>11
    <2> QED  BY <1>1, <2>1
  <1>16. PowerShown(f, to2, p2)
    <2>1. CASE h.queue[1].kind = "power" /\ x.status = "succeeded"
      <3>1. \A y \in Coming(f, to2) : y.primary => y.status = "succeeded"
        BY <1>10, <1>11, <2>1
      <3> QED  BY <1>1, <1>3, <1>6, <2>1, <3>1 DEF PowerShown
    <2>2. CASE p2 = p
      <3>1. ~h.known \/ (\E i \in DOMAIN h.queue : h.queue[i].kind = "query") \/ h.power = p
        BY <1>2, <1>3 DEF PowerShown
      <3> QED  BY <1>1, <1>5, <2>2, <3>1 DEF PowerShown
    <2> QED  BY <2>1, <2>2
  <1>17. SpeedInv(f, to2, s2)
    <2>1. \A i \in DOMAIN f.queue :
            \/ f.queue[i].kind # "vehicle"
            \/ \E j \in DOMAIN f.queue : i < j /\ f.queue[j].kind = "vehicle"
            \/ f.queue[i].arg = f.speed
      BY <1>1, <1>2, <1>5 DEF SpeedInv
    <2>2. 1 \in DOMAIN f.queue /\ \A i \in DOMAIN f.queue : i \in Nat \ {0}
      <3>1. f.queue \in Seq(Requests) /\ f.queue # <<>>  BY <1>1, <1>3, <1>7 DEF Hosts
      <3>2. Len(f.queue) \in Nat \ {0} /\ DOMAIN f.queue = 1 .. Len(f.queue)  BY <3>1, OneLess
      <3> QED  BY <3>2
    <2>3. CASE \E i \in DOMAIN f.queue : f.queue[i].kind = "vehicle" /\ i # 1
      BY <2>1, <2>3 DEF SpeedInv
    <2>4. CASE ~\E i \in DOMAIN f.queue : f.queue[i].kind = "vehicle" /\ i # 1
      <3>1. CASE h.queue[1].kind = "vehicle"
        <4>1. ~\E j \in DOMAIN f.queue : 1 < j /\ f.queue[j].kind = "vehicle"  BY <2>4
        <4>2. f.queue[1].arg = f.speed  BY <1>1, <2>1, <2>2, <3>1, <4>1
        <4>3. s2 = f.speed  BY <1>1, <3>1, <4>2
        <4> QED  BY <2>1, <4>3 DEF SpeedInv
      <3>2. CASE h.queue[1].kind # "vehicle"
        <4>1. h.speed \in {s, Unset}  BY <1>1, <1>2, <2>4, <3>2 DEF SpeedInv
        <4> QED  BY <1>5, <2>1, <3>2, <4>1 DEF SpeedInv
      <3> QED  BY <3>1, <3>2
    <2> QED  BY <2>3, <2>4
  <1> QED  BY <1>1, <1>7, <1>14, <1>15, <1>16, <1>17 DEF HostInv, LinesInv, f, to2

-----------------------------------------------------------------------------
(* What the steps promise.                                                   *)

\* How far the queue was answered.
AnsweredTo(h) == h.next - 1 - Len(h.queue)

\* The step of RequestQueue from the host h to g.
Promise(h, g) ==
    /\ g.next - 1 >= h.next - 1
    /\ AnsweredTo(g) \in {AnsweredTo(h), AnsweredTo(h) + 1} /\ AnsweredTo(g) <= Len(h.sent)
    /\ \/ g.sent = h.sent
       \/ /\ g.sent = Append(h.sent, Len(h.sent) + 1)
          /\ Len(g.sent) <= g.next - 1 /\ Len(g.sent) = AnsweredTo(g) + 1
    /\ IsPrefix(h.told, g.told) /\ IsInjective(g.told) /\ Range(g.told) \subseteq Range(h.sent)

\* The numbers of a host.
LEMMA Numbers ==
    ASSUME NEW h \in Hosts, NumberInv(h)
    PROVE  /\ Len(h.queue) \in Nat /\ Len(h.sent) \in Nat /\ h.next \in Nat \ {0}
           /\ AnsweredTo(h) \in Nat /\ Len(h.queue) < h.next
           /\ AnsweredTo(h) = h.next - 1 - Len(h.queue)
           /\ Len(h.sent) = IF h.queue = <<>> THEN AnsweredTo(h) ELSE AnsweredTo(h) + 1
           /\ Range(h.sent) = 1 .. Len(h.sent)
           /\ h.queue = <<>> <=> Len(h.queue) = 0
  <1> DEFINE n == Len(h.queue)
             k == Len(h.sent)
  <1>1. h.queue \in Seq(Requests) /\ h.sent \in Seq(Nat) /\ h.next \in Nat \ {0}  BY DEF Hosts
  <1>2. n \in Nat /\ k \in Nat /\ DOMAIN h.sent = 1 .. k /\ (h.queue = <<>> <=> n = 0)
    BY <1>1, EmptySeq
  <1>3. Range(h.sent) = 1 .. k  BY <1>2 DEF NumberInv, Range
  <1>4. n < h.next /\ k = h.next - n - (IF h.queue = <<>> THEN 1 ELSE 0)  BY DEF NumberInv
  <1>5. AnsweredTo(h) = h.next - 1 - n  BY DEF AnsweredTo
  <1> HIDE DEF n, k
  <1>6. AnsweredTo(h) \in Nat  BY <1>1, <1>2, <1>4, <1>5
  <1>7. k = IF h.queue = <<>> THEN AnsweredTo(h) ELSE AnsweredTo(h) + 1
    BY <1>1, <1>2, <1>4, <1>5
  <1> QED  BY <1>1, <1>2, <1>3, <1>4, <1>5, <1>6, <1>7 DEF n, k

\* What was told stays, and is about what was sent.
LEMMA ToldOn ==
    ASSUME NEW h \in Hosts, NEW g \in Hosts, NumberInv(h), ObserverInv(g),
           Len(h.told) <= Len(g.told), \A i \in DOMAIN h.told : g.told[i] = h.told[i],
           \A i \in DOMAIN g.told : g.told[i] \in 1 .. Len(h.sent)
    PROVE  IsPrefix(h.told, g.told) /\ IsInjective(g.told) /\ Range(g.told) \subseteq Range(h.sent)
  <1>1. h.told \in Seq(Nat) /\ g.told \in Seq(Nat)  BY DEF Hosts
  <1>2. SubSeq(h.told, 1, Len(h.told)) = SubSeq(g.told, 1, Len(h.told))
    <2> DEFINE n == Len(h.told)
    <2>1. n \in Nat /\ DOMAIN h.told = 1 .. n /\ Len(g.told) \in Nat /\ n <= Len(g.told)
      BY <1>1
    <2>2. \A i \in 1 .. n : g.told[i] = h.told[i]  BY <2>1
    <2>3. SubSeq(h.told, 1, n) = [i \in 1 .. n |-> h.told[i]]
          /\ SubSeq(g.told, 1, n) = [i \in 1 .. n |-> g.told[i]]
      <3> HIDE DEF n
      <3> QED  BY <1>1, <2>1
    <2> HIDE DEF n
    <2> QED  BY <2>2, <2>3 DEF n
  <1>3. IsPrefix(h.told, g.told)  BY <1>2 DEF IsPrefix
  <1>4. Range(g.told) \subseteq Range(h.sent)
    <2>1. Range(h.sent) = 1 .. Len(h.sent)  BY Numbers
    <2> QED  BY <2>1 DEF Range
  <1>5. IsInjective(g.told)  BY DEF ObserverInv
  <1> QED  BY <1>3, <1>4, <1>5

LEMMA ToldSame ==
    ASSUME NEW h \in Hosts, NEW g \in Hosts, NumberInv(h), ObserverInv(h), ObserverInv(g),
           g.told = h.told
    PROVE  IsPrefix(h.told, g.told) /\ IsInjective(g.told) /\ Range(g.told) \subseteq Range(h.sent)
  <1>1. h.told \in Seq(Nat)  BY DEF Hosts
  <1>2. Len(h.told) <= Len(g.told)  BY <1>1
  <1>3. \A i \in DOMAIN g.told : g.told[i] \in 1 .. Len(h.sent)  BY DEF ObserverInv
  <1> QED  BY <1>2, <1>3, ToldOn

\* Frames were read.
LEMMA ReadingPromises ==
    ASSUME NEW h \in Hosts, NEW g \in Hosts, NumberInv(h), NumberInv(g), ObserverInv(g),
           Onward(h, g)
    PROVE  Promise(h, g)
  <1>1. IsPrefix(h.told, g.told) /\ IsInjective(g.told) /\ Range(g.told) \subseteq Range(h.sent)
    BY ToldOn DEF Onward
  <1> DEFINE n == Len(h.queue)
             m == Len(g.queue)
             k == Len(h.sent)
             a == AnsweredTo(h)
             b == AnsweredTo(g)
  <1>2. /\ n \in Nat /\ k \in Nat /\ h.next \in Nat /\ a \in Nat /\ a = h.next - 1 - n
        /\ k = IF h.queue = <<>> THEN a ELSE a + 1
        /\ h.sent \in Seq(Nat)
    BY Numbers DEF Hosts
  <1>3. /\ m \in Nat /\ g.next \in Nat /\ b \in Nat /\ b = g.next - 1 - m
        /\ Len(g.sent) = (IF g.queue = <<>> THEN b ELSE b + 1) /\ (g.queue = <<>> <=> m = 0)
    BY Numbers
  <1>4. g.next >= h.next  BY DEF Onward
  <1>5. Still(h, g) \/ Advanced(h, g)  BY DEF Onward
  <1> HIDE DEF n, m, k, a, b
  <1>6. CASE Still(h, g)
    <2>1. g.next = h.next /\ m = n /\ g.sent = h.sent  BY <1>6 DEF Still, n, m
    <2>2. b = a /\ b <= k /\ g.next - 1 >= h.next - 1  BY <1>2, <1>3, <2>1
    <2> QED  BY <1>1, <2>1, <2>2 DEF Promise, a, b, k
  <1>7. CASE Advanced(h, g)
    <2>1. /\ g.next - m = h.next - n + 1 /\ h.queue # <<>>
          /\ g.sent = IF g.queue = <<>> THEN h.sent ELSE Append(h.sent, k + 1)
      BY <1>7 DEF Advanced, n, m, k
    <2>2. b = a + 1 /\ b <= k /\ g.next - 1 >= h.next - 1
      <3>1. g.next - m = h.next - n + 1 /\ k = a + 1  BY <1>2, <2>1
      <3>2. n \in Nat /\ h.next \in Nat /\ a \in Nat /\ a = h.next - 1 - n  BY <1>2
      <3>3. m \in Nat /\ g.next \in Nat /\ b \in Nat /\ b = g.next - 1 - m  BY <1>3
      <3>4. g.next - 1 - m = (g.next - m) - 1 /\ h.next - 1 - n = (h.next - n) - 1
        BY <3>2, <3>3
      <3>5. b = (h.next - n + 1) - 1 /\ a = (h.next - n) - 1  BY <3>1, <3>2, <3>3, <3>4
      <3>6. b = a + 1  BY <3>2, <3>5
      <3>7. b <= k  BY <3>1, <3>2, <3>6
      <3>8. g.next - 1 >= h.next - 1  BY <1>4, <3>2, <3>3
      <3> QED  BY <3>6, <3>7, <3>8
    <2>3. g.queue # <<>> => Len(g.sent) = b + 1 /\ Len(g.sent) <= g.next - 1
      BY <1>3
    <2> QED  BY <1>1, <2>1, <2>2, <2>3 DEF Promise, a, b, k
  <1> QED  BY <1>5, <1>6, <1>7

\* Requests were queued.
LEMMA QueueingPromises ==
    ASSUME NEW h \in Hosts, NEW g \in Hosts, NumberInv(h), ObserverInv(h),
           NumberInv(g), ObserverInv(g), g.told = h.told,
           g.next >= h.next, g.next - Len(g.queue) = h.next - Len(h.queue),
           g.sent = h.sent \/ (g.queue # <<>> /\ g.sent = Append(h.sent, Len(h.sent) + 1))
    PROVE  Promise(h, g)
  <1>1. IsPrefix(h.told, g.told) /\ IsInjective(g.told) /\ Range(g.told) \subseteq Range(h.sent)
    BY ToldSame
  <1> DEFINE n == Len(h.queue)
             m == Len(g.queue)
             k == Len(h.sent)
             a == AnsweredTo(h)
             b == AnsweredTo(g)
  <1>2. /\ n \in Nat /\ k \in Nat /\ h.next \in Nat /\ a \in Nat /\ a = h.next - 1 - n
        /\ k = IF h.queue = <<>> THEN a ELSE a + 1
    BY Numbers
  <1>3. /\ m \in Nat /\ g.next \in Nat /\ b \in Nat /\ b = g.next - 1 - m
        /\ Len(g.sent) = (IF g.queue = <<>> THEN b ELSE b + 1) /\ (g.queue = <<>> <=> m = 0)
    BY Numbers
  <1>4. g.next - m = h.next - n  OBVIOUS
  <1> HIDE DEF n, m, k, a, b
  <1>5. b = a /\ b <= k /\ g.next - 1 >= h.next - 1
    <2>1. g.next - 1 - m = h.next - 1 - n  BY <1>2, <1>3, <1>4, OneOff
    <2>2. b = a  BY <1>2, <1>3, <2>1
    <2>3. a <= k  BY <1>2
    <2>4. g.next - 1 >= h.next - 1  BY <1>2, <1>3
    <2> QED  BY <2>2, <2>3, <2>4
  <1>6. g.queue # <<>> => Len(g.sent) = b + 1 /\ Len(g.sent) <= g.next - 1  BY <1>3
  <1> QED  BY <1>1, <1>5, <1>6 DEF Promise, a, b, k

-----------------------------------------------------------------------------
(* The steps.                                                                *)

DeviceInv ==
    /\ open \in BOOLEAN /\ toHost \in Seq(Responses) /\ later \in SUBSET Responses
    /\ power \in Power /\ speed \in Speed /\ burst \in Bursts
    /\ HostInv(host, toHost, later, power, speed)

\* What a step has to show.
Goes ==
    /\ open' \in BOOLEAN /\ toHost' \in Seq(Responses) /\ later' \in SUBSET Responses
    /\ power' \in Power /\ speed' \in Speed /\ burst' \in Bursts
    /\ HostInv(host', toHost', later', power', speed')
    /\ Promise(host, host')

LEMMA Starts == Init => DeviceInv
  <1> SUFFICES ASSUME Init PROVE DeviceInv  OBVIOUS
  <1>1. /\ host.known = FALSE /\ host.timer = FALSE /\ host.slots = 0 /\ host.queue = <<>>
        /\ host.observers = {} /\ host.buffer = <<>> /\ host.power = "PowerOff"
        /\ host.speed = Unset /\ host.next = 1 /\ host.line = <<>> /\ host.sent = <<>>
        /\ host.told = <<>>
    BY DEF Init
  <1>2. host \in Hosts
    <2>1. <<>> \in Seq(Requests) /\ <<>> \in Seq(Responses) /\ <<>> \in Seq(Nat)
          /\ "PowerOff" \in Power /\ 0 \in Nat /\ 1 \in Nat \ {0}
          /\ Unset \in Speed \union {Unset} /\ {} \in SUBSET Requests
      BY DEF Power
    <2> QED  BY <2>1 DEF Init, Hosts
  <1>3. Coming(host, toHost) = {} /\ ~Answered(host, toHost) /\ toHost = <<>> /\ later = {}
    BY <1>1 DEF Init, Coming, Answered, Silent, Range
  <1>4. NumberInv(host)
    <2>1. Len(host.queue) = 0 /\ Len(host.sent) = 0 /\ DOMAIN host.queue = {}
          /\ DOMAIN host.sent = {}
      BY <1>1
    <2>2. Len(host.queue) < host.next  BY <1>1, <2>1
    <2>3. host.next - Len(host.queue) - 1 = 0
      <3>1. host.next = 1  BY <1>1
      <3>2. Len(host.queue) = 0  BY <2>1
      <3> QED  BY <3>1, <3>2
    <2>4. Len(host.sent)
            = host.next - Len(host.queue) - (IF host.queue = <<>> THEN 1 ELSE 0)
      BY <1>1, <2>1, <2>3
    <2>5. /\ \A i \in DOMAIN host.queue : host.queue[i].id = host.next - Len(host.queue) + i - 1
          /\ \A i \in DOMAIN host.sent : host.sent[i] = i
      BY <2>1
    <2> QED  BY <2>2, <2>4, <2>5 DEF NumberInv
  <1>5. ObserverInv(host)  BY <1>1 DEF ObserverInv, IsInjective
  <1>6. LineInv(host, toHost, later)  BY <1>1, <1>3 DEF LineInv, AtMostOne, Silent
  <1>7. PowerComing(host, toHost, power) /\ PowerShown(host, toHost, power)
    BY <1>1, <1>3 DEF PowerComing, PowerShown
  <1>8. SpeedInv(host, toHost, speed)  BY <1>1 DEF SpeedInv
  <1>9. /\ open \in BOOLEAN /\ toHost \in Seq(Responses) /\ later \in SUBSET Responses
        /\ power \in Power /\ speed \in Speed /\ burst \in Bursts
    <2>1. toHost \in Seq(Responses) /\ later \in SUBSET Responses  BY <1>3
    <2> QED  BY <2>1 DEF Init, Speed
  <1> QED  BY <1>2, <1>4, <1>5, <1>6, <1>7, <1>8, <1>9 DEF DeviceInv, HostInv, LinesInv

\* Nothing was queued, answered or told.
LEMMA SamePromises ==
    ASSUME NEW h \in Hosts, NEW g \in Hosts, NumberInv(h), ObserverInv(h), NumberInv(g),
           ObserverInv(g), g.told = h.told, g.next = h.next, g.queue = h.queue, g.sent = h.sent
    PROVE  Promise(h, g)
  <1>1. h.next \in Nat  BY DEF Hosts
  <1>2. g.next >= h.next  BY <1>1
  <1> QED  BY <1>2, QueueingPromises

\* An empty chunk, or nothing on the line.
LEMMA NothingComes ==
    ASSUME NEW seq, seq = <<>>
    PROVE  seq \in Seq(Responses) /\ AtMostOne(seq) /\ Silent(seq) /\ Range(seq) = {}
  BY DEF AtMostOne, Silent, Range

LEMMA ConnectGoes ==
    ASSUME DeviceInv, ConnectToDevice
    PROVE  Goes
  <1> DEFINE f == [host EXCEPT !.timer = TRUE, !.slots = host.slots + 1, !.buffer = <<>>]
             g == QueueRequest(f, "reset", Unset)
  <1>1. host' = g  BY DEF ConnectToDevice, Start
  <1>2. /\ host \in Hosts /\ NumberInv(host) /\ ObserverInv(host) /\ LineInv(host, toHost, later)
        /\ toHost \in Seq(Responses) /\ later \in SUBSET Responses
    BY DEF DeviceInv, HostInv, LinesInv
  <1>3. f \in Hosts
    <2>1. host.slots + 1 \in Nat /\ <<>> \in Seq(Responses)  BY <1>2 DEF Hosts
    <2> QED  BY <1>2, <2>1, Zenon DEF Hosts
  <1>4. /\ f.known = host.known /\ f.power = host.power /\ f.speed = host.speed
        /\ f.queue = host.queue /\ f.line = host.line /\ f.sent = host.sent
        /\ f.next = host.next /\ f.observers = host.observers /\ f.told = host.told
        /\ f.buffer = <<>>
    BY <1>2 DEF Hosts
  <1> HIDE DEF f
  <1>5. HostInv(f, toHost, later, power, speed)
    <2>1. Coming(f, toHost) \subseteq Coming(host, toHost) \union later
      BY <1>4 DEF Coming, Range
    <2>2. AtMostOne(toHost)  BY <1>2 DEF LineInv
    <2> QED  BY <1>2, <1>3, <1>4, <2>1, <2>2, NothingComes, Moved DEF DeviceInv
  <1>6. HostInv(g, toHost, later, power, speed) /\ More(f, g) /\ g.queue # <<>>
    <2>1. "reset" \in Kind /\ "reset" # "vehicle" /\ Unset \in Power \union Speed \union {Unset}
          /\ Fits("reset", Unset)
      BY DEF Kind, Fits
    <2> QED  BY <1>2, <1>5, <2>1, QueueKeeps DEF HostInv
  <1> HIDE DEF g
  <1>7. Promise(host, g)
    <2>1. g \in Hosts /\ NumberInv(g) /\ ObserverInv(g)  BY <1>6 DEF HostInv, LinesInv
    <2>2. /\ g.told = host.told /\ g.next >= host.next
          /\ g.next - Len(g.queue) = host.next - Len(host.queue)
          /\ g.sent = host.sent \/ g.sent = Append(host.sent, Len(host.sent) + 1)
      BY <1>4, <1>6 DEF More, Further
    <2> QED  BY <1>2, <1>6, <2>1, <2>2, QueueingPromises
  <1>8. UNCHANGED <<toHost, later, power, speed, burst>> /\ open' = TRUE
    BY DEF ConnectToDevice, environment
  <1> QED  BY <1>1, <1>6, <1>7, <1>8 DEF Goes, DeviceInv

LEMMA CloseGoes ==
    ASSUME DeviceInv, Close
    PROVE  Goes
  <1> DEFINE f == [host EXCEPT !.timer = FALSE, !.buffer = <<>>]
  <1>1. host' = f /\ toHost' = <<>> /\ open' = FALSE /\ UNCHANGED <<later, power, speed, burst>>
    BY DEF Close, environment
  <1>2. /\ host \in Hosts /\ NumberInv(host) /\ ObserverInv(host)
        /\ toHost \in Seq(Responses) /\ later \in SUBSET Responses
    BY DEF DeviceInv, HostInv, LinesInv
  <1>3. f \in Hosts
    <2>1. <<>> \in Seq(Responses)  OBVIOUS
    <2> QED  BY <1>2, <2>1, Zenon DEF Hosts
  <1>4. /\ f.known = host.known /\ f.power = host.power /\ f.speed = host.speed
        /\ f.queue = host.queue /\ f.line = host.line /\ f.sent = host.sent
        /\ f.next = host.next /\ f.observers = host.observers /\ f.told = host.told
        /\ f.buffer = <<>>
    BY <1>2 DEF Hosts
  <1> HIDE DEF f
  <1>5. HostInv(f, <<>>, later, power, speed)
    <2>1. Coming(f, <<>>) \subseteq Coming(host, toHost) \union later
      BY <1>4 DEF Coming, Range
    <2> QED  BY <1>2, <1>3, <1>4, <2>1, NothingComes, Moved DEF DeviceInv
  <1>6. Promise(host, f)
    <2>1. NumberInv(f) /\ ObserverInv(f)  BY <1>5 DEF HostInv, LinesInv
    <2> QED  BY <1>2, <1>3, <1>4, <2>1, SamePromises
  <1> QED  BY <1>1, <1>5, <1>6, NothingComes DEF Goes, DeviceInv

\* A view asked for something.
LEMMA AskGoes ==
    ASSUME DeviceInv, NEW g, Ask(g),
           HostInv(g, toHost, later, power, speed), g.told = host.told, g.next >= host.next,
           g.next - Len(g.queue) = host.next - Len(host.queue),
           \/ g.sent = host.sent
           \/ g.queue # <<>> /\ g.sent = Append(host.sent, Len(host.sent) + 1)
    PROVE  Goes
  <1>1. host' = g /\ UNCHANGED <<open, toHost, later, power, speed, burst>>
    BY DEF Ask, environment
  <1>2. host \in Hosts /\ NumberInv(host) /\ ObserverInv(host)
    BY DEF DeviceInv, HostInv, LinesInv
  <1>3. g \in Hosts /\ NumberInv(g) /\ ObserverInv(g)  BY DEF HostInv, LinesInv
  <1>4. Promise(host, g)  BY <1>2, <1>3, QueueingPromises
  <1> QED  BY <1>1, <1>4 DEF Goes, DeviceInv

LEMMA SwitchGoes ==
    ASSUME DeviceInv, NEW kind \in {"power", "variable"}, NEW arg \in Power \union {Unset},
           kind = "power" => arg \in Power, Ask(QueueRequest(host, kind, arg))
    PROVE  Goes
  <1> DEFINE g == QueueRequest(host, kind, arg)
  <1>1. kind \in Kind /\ kind # "vehicle" /\ arg \in Power \union Speed \union {Unset}
        /\ Fits(kind, arg)
    BY DEF Kind, Fits
  <1>2. LinesInv(host, toHost, later, power, speed) /\ PowerShown(host, toHost, power)
        /\ toHost \in Seq(Responses) /\ later \in SUBSET Responses
    BY DEF DeviceInv, HostInv
  <1>3. HostInv(g, toHost, later, power, speed) /\ More(host, g) /\ g.queue # <<>>
    BY <1>1, <1>2, QueueKeeps
  <1>4. Ask(g)  OBVIOUS
  <1> HIDE DEF g
  <1>5. /\ g.told = host.told /\ g.next >= host.next
        /\ g.next - Len(g.queue) = host.next - Len(host.queue)
        /\ g.sent = host.sent \/ g.sent = Append(host.sent, Len(host.sent) + 1)
    BY <1>3 DEF More, Further
  <1> QED  BY <1>3, <1>4, <1>5, AskGoes

LEMMA InfoGoes ==
    ASSUME DeviceInv, AskDeviceInfo
    PROVE  Goes
  <1> DEFINE g == UpdateDeviceInfo(host)
  <1>1. LinesInv(host, toHost, later, power, speed)
        /\ toHost \in Seq(Responses) /\ later \in SUBSET Responses
    BY DEF DeviceInv, HostInv
  <1>2. HostInv(g, toHost, later, power, speed) /\ More(host, g) /\ g.queue # <<>>
    BY <1>1, InfoKeeps
  <1>3. Ask(g)  BY DEF AskDeviceInfo
  <1> HIDE DEF g
  <1>4. /\ g.told = host.told /\ g.next >= host.next
        /\ g.next - Len(g.queue) = host.next - Len(host.queue)
        /\ g.sent = host.sent \/ g.sent = Append(host.sent, Len(host.sent) + 1)
    BY <1>2 DEF More, Further
  <1> QED  BY <1>2, <1>3, <1>4, AskGoes

\* Until the request is queued, the last speed is not that of the last request.
LEMMA SetSpeedGoes ==
    ASSUME DeviceInv, NEW v \in Speed, SetSpeed(v)
    PROVE  Goes
  <1> DEFINE f == [host EXCEPT !.speed = v]
             r == Number(f, "vehicle", v)
             g == QueueRequest(f, "vehicle", v)
  <1>1. /\ host \in Hosts /\ NumberInv(host) /\ ObserverInv(host)
        /\ LineInv(host, toHost, later) /\ PowerComing(host, toHost, power)
        /\ PowerShown(host, toHost, power)
        /\ toHost \in Seq(Responses) /\ later \in SUBSET Responses
    BY DEF DeviceInv, HostInv, LinesInv
  <1>2. f \in Hosts
    <2>1. v \in Speed \union {Unset}  OBVIOUS
    <2> QED  BY <1>1, <2>1, Zenon DEF Hosts
  <1>3. /\ f.known = host.known /\ f.power = host.power /\ f.speed = v
        /\ f.queue = host.queue /\ f.line = host.line /\ f.sent = host.sent
        /\ f.next = host.next /\ f.observers = host.observers /\ f.told = host.told
        /\ f.buffer = host.buffer
    BY <1>1 DEF Hosts
  <1>4. Ask(g)  BY DEF SetSpeed
  <1>5. "vehicle" \in Kind /\ v \in Power \union Speed \union {Unset} /\ Fits("vehicle", v)
    BY DEF Kind, Fits
  <1> HIDE DEF f
  <1>6. r \in Requests /\ g \in Hosts /\ Pushed(f, g, r)  BY <1>2, <1>5, Pushes
  <1>7. r.id = f.next /\ r.kind = "vehicle" /\ r.arg = f.speed  BY <1>3 DEF Number
  <1> HIDE DEF r, g
  <1>8. NumberInv(f)  BY <1>1, <1>3 DEF NumberInv
  <1>9. ObserverInv(f)  BY <1>1, <1>3 DEF ObserverInv
  <1>10. Coming(f, toHost) = Coming(host, toHost) /\ Answered(f, toHost) = Answered(host, toHost)
    BY <1>3 DEF Coming, Answered
  <1>11. LineInv(f, toHost, later)  BY <1>1, <1>3, <1>10 DEF LineInv, ResponseInv
  <1>12. PowerComing(f, toHost, power)  BY <1>1, <1>3, <1>10 DEF PowerComing
  <1>13. PowerShown(f, toHost, power)  BY <1>1, <1>3, <1>10 DEF PowerShown
  <1>14. NumberInv(g)  BY <1>2, <1>6, <1>7, <1>8, PushNumbers
  <1>15. ObserverInv(g)  BY <1>2, <1>6, <1>7, <1>8, <1>9, PushObservers
  <1>16. LineInv(g, toHost, later)  BY <1>1, <1>2, <1>6, <1>7, <1>8, <1>11, PushLine
  <1>17. PowerComing(g, toHost, power) /\ PowerShown(g, toHost, power)
    BY <1>1, <1>2, <1>6, <1>7, <1>8, <1>11, <1>12, <1>13, PushPower
  <1>18. SpeedInv(g, toHost, speed)
    BY <1>1, <1>2, <1>6, <1>7, <1>8, <1>11, PushSpeed
  <1>19. HostInv(g, toHost, later, power, speed)
    BY <1>6, <1>14, <1>15, <1>16, <1>17, <1>18 DEF HostInv, LinesInv
  <1>20. g.told = host.told /\ g.queue = Append(host.queue, r) /\ g.next = host.next + 1
    BY <1>3, <1>6 DEF Pushed
  <1>21. host.queue \in Seq(Requests) /\ host.next \in Nat  BY <1>1 DEF Hosts
  <1>22. g.next >= host.next  BY <1>20, <1>21
  <1>23. g.next - Len(g.queue) = host.next - Len(host.queue)
    <2> DEFINE n == Len(host.queue)
    <2>1. Len(g.queue) = n + 1 /\ n \in Nat  BY <1>6, <1>20, <1>21, OneMore
    <2>2. g.next = host.next + 1 /\ host.next \in Nat  BY <1>20, <1>21
    <2> HIDE DEF n
    <2>3. g.next - Len(g.queue) = host.next - n
      <3>1. (host.next + 1) - (n + 1) = host.next - n  BY <2>1, <2>2, BothGrow
      <3> QED  BY <2>1, <2>2, <3>1
    <2> QED  BY <2>3 DEF n
  <1>24. g.sent = host.sent \/ (g.queue # <<>> /\ g.sent = Append(host.sent, Len(host.sent) + 1))
    <2>1. CASE host.queue = <<>>
      <3>1. Len(g.sent) = r.id /\ Len(g.sent) = Len(f.sent) + 1 /\ g.queue # <<>>
        BY <1>2, <1>3, <1>6, <1>7, <1>8, <2>1, PushFacts
      <3>2. g.sent = Append(f.sent, r.id)  BY <1>3, <1>6, <2>1 DEF Pushed, Transmitted
      <3> QED  BY <1>3, <3>1, <3>2
    <2>2. CASE host.queue # <<>>
      BY <1>3, <1>6, <2>2 DEF Pushed, NothingTransmitted
    <2> QED  BY <2>1, <2>2
  <1> QED  BY <1>4, <1>19, <1>20, <1>22, <1>23, <1>24, AskGoes

\* The number of the head is the last one that was sent.
LEMMA HeadSent ==
    ASSUME NEW h \in Hosts, NumberInv(h), h.queue # <<>>
    PROVE  h.queue[1] \in Requests /\ h.queue[1].id = Len(h.sent)
  <1> DEFINE n == Len(h.queue)
  <1>1. h.queue \in Seq(Requests) /\ h.next \in Nat  BY DEF Hosts
  <1>2. n \in Nat \ {0} /\ DOMAIN h.queue = 1 .. n  BY <1>1, EmptySeq, LenProperties
  <1> HIDE DEF n
  <1>3. 1 \in DOMAIN h.queue  BY <1>2
  <1>4. h.queue[1].id = h.next - n + 1 - 1 /\ Len(h.sent) = h.next - n
    BY <1>1, <1>2, <1>3 DEF NumberInv, n
  <1>5. h.next - n + 1 - 1 = h.next - n  BY <1>1, <1>2
  <1> QED  BY <1>1, <1>3, <1>4, <1>5

\* The request of the line is executed and answered.
LEMMA AnswerGoes ==
    ASSUME DeviceInv, host.line # <<>>, host' = [host EXCEPT !.line = Tail(@)],
           NEW x \in Responses, x.primary, x.id = host.queue[1].id,
           x.kind = host.queue[1].kind, Send(<<x>>), UNCHANGED <<open, burst>>,
           later' \in SUBSET Responses,
           \A y \in later' \ later : ~y.primary /\ ResponseInv(host, y),
           \/ power' = power /\ ~(x.kind = "power" /\ x.status = "succeeded")
           \/ x.kind = "power" /\ x.status = "succeeded" /\ power' = host.queue[1].arg,
           x.kind = "query" => x.value = power,
           speed' = IF x.kind = "vehicle" THEN host.queue[1].arg ELSE speed
    PROVE  Goes
  <1> DEFINE f == [host EXCEPT !.line = Tail(@)]
  <1>1. /\ HostInv(host, toHost, later, power, speed)
        /\ host \in Hosts /\ NumberInv(host) /\ ObserverInv(host) /\ LineInv(host, toHost, later)
        /\ toHost \in Seq(Responses) /\ later \in SUBSET Responses
    BY DEF DeviceInv, HostInv, LinesInv
  <1>2. host.queue # <<>>  BY <1>1 DEF LineInv
  <1>3. host.queue[1] \in Requests  BY <1>1, <1>2, HeadSent
  <1>4. power' \in Power /\ speed' \in Speed
    <2>1. Fits(host.queue[1].kind, host.queue[1].arg)  BY <1>3 DEF Requests
    <2>2. power \in Power /\ speed \in Speed  BY DEF DeviceInv
    <2>3. power' \in Power  BY <2>1, <2>2 DEF Fits
    <2>4. speed' \in Speed  BY <2>1, <2>2 DEF Fits
    <2> QED  BY <2>3, <2>4
  <1>10. /\ x \in Responses /\ x.primary /\ x.id = host.queue[1].id
         /\ x.kind = host.queue[1].kind
    OBVIOUS
  <1>11. host.line # <<>> /\ \A y \in later' \ later : ~y.primary /\ ResponseInv(host, y)
    OBVIOUS
  <1>12. (host.queue[1].kind = "power" \/ power' = power)
         /\ (host.queue[1].kind = "vehicle" \/ speed' = speed)
    OBVIOUS
  <1>5. HostInv(f, toHost', later', power', speed') /\ toHost' \in Seq(Responses)
        /\ f.queue = host.queue /\ f.sent = host.sent /\ f.next = host.next
        /\ f.told = host.told
    <2>1. CASE open
      <3>1. toHost \o <<x>> = Append(toHost, x) /\ Append(toHost, x) \in Seq(Responses)
        BY <1>1
      <3>2. toHost' = Append(toHost, x)  BY <2>1, <3>1 DEF Send
      <3>3. Late(host, later, later')  BY <1>11 DEF Late
      <3>4. Effect(host, x, power, power', speed, speed')  BY <1>10 DEF Effect
      <3>5. /\ HostInv(f, Append(toHost, x), later', power', speed')
            /\ f.queue = host.queue /\ f.sent = host.sent /\ f.next = host.next
            /\ f.told = host.told
        BY ONLY <1>1, <1>11, <1>10, <3>3, <3>4, Answers
      <3> QED  BY <3>1, <3>2, <3>5
    <2>2. CASE ~open
      <3>1. toHost' = toHost  BY <2>2 DEF Send
      <3>3. Late(host, later, later')  BY <1>11 DEF Late
      <3>4. Kept(host, power, power', speed, speed')  BY <1>12 DEF Kept
      <3>2. /\ HostInv(f, toHost, later', power', speed')
            /\ f.queue = host.queue /\ f.sent = host.sent /\ f.next = host.next
            /\ f.told = host.told
        BY ONLY <1>1, <1>11, <3>3, <3>4, Unanswered
      <3> QED  BY <1>1, <3>1, <3>2
    <2> QED  BY <2>1, <2>2
  <1>6. host' = f  OBVIOUS
  <1> HIDE DEF f
  <1>7. Promise(host, f)
    <2>1. f \in Hosts /\ NumberInv(f) /\ ObserverInv(f)  BY <1>5 DEF HostInv, LinesInv
    <2> QED  BY <1>1, <1>5, <2>1, SamePromises
  <1>8. open' \in BOOLEAN /\ burst' \in Bursts  BY DEF DeviceInv
  <1> QED  BY <1>4, <1>5, <1>6, <1>7, <1>8 DEF Goes

LEMMA ExecuteGoes ==
    ASSUME DeviceInv, Execute
    PROVE  Goes
  <1> DEFINE r == host.queue[1]
             Answer(status, value) == Send(<<Respond(r, status, value)>>)
             late == [Respond(r, "data", Unset) EXCEPT !.primary = FALSE]
  <1>1. /\ host \in Hosts /\ NumberInv(host) /\ LineInv(host, toHost, later)
        /\ later \in SUBSET Responses /\ power \in Power
    BY DEF DeviceInv, HostInv, LinesInv
  <1>2. host.line # <<>> /\ host' = [host EXCEPT !.line = Tail(@)] /\ UNCHANGED <<open, burst>>
    BY DEF Execute
  <1>3. host.queue # <<>> /\ host.line = <<r>>  BY <1>1, <1>2 DEF LineInv
  <1>4. r \in Requests /\ r.id = Len(host.sent) /\ r.id <= Len(host.sent)
        /\ r.id \in Nat \ {0} /\ r.kind \in Kind
    <2>1. r \in Requests /\ r.id = Len(host.sent)  BY <1>1, <1>3, HeadSent
    <2>2. r.id \in Nat \ {0} /\ r.kind \in Kind  BY <2>1 DEF Requests
    <2>3. r.id <= Len(host.sent)  BY <2>1, <2>2
    <2> QED  BY <2>1, <2>2, <2>3
  <1>5. Head(host.line) = r  BY <1>3
  <1>6. \/ /\ r.kind \in {"reset", "start", "status"}
           /\ Answer("data", Unset) /\ UNCHANGED <<later, power, speed>>
        \/ /\ r.kind = "query"
           /\ Answer("data", power) /\ UNCHANGED <<later, power, speed>>
        \/ /\ r.kind = "equipment"
           /\ Answer("data", Unset) /\ UNCHANGED <<later, power, speed>>
        \/ /\ r.kind \in {"equipment", "variable"}
           /\ Answer("succeeded", Unset) /\ UNCHANGED <<power, speed>>
           /\ later' = later \union {late}
        \/ /\ r.kind \in {"power", "variable"}
           /\ Answer("failed", Unset) /\ UNCHANGED <<later, power, speed>>
        \/ /\ r.kind = "power"
           /\ power' = r.arg
           /\ Answer("succeeded", Unset) /\ UNCHANGED <<later, speed>>
        \/ /\ r.kind = "vehicle"
           /\ speed' = r.arg
           /\ Answer("succeeded", Unset) /\ UNCHANGED <<later, power>>
    BY <1>5 DEF Execute
  <1> HIDE DEF r
  <1>7. ASSUME NEW status \in {"succeeded", "failed", "data"}, NEW value \in Power \union {Unset}
        PROVE  LET x == Respond(r, status, value)
               IN  /\ x \in Responses /\ x.primary /\ x.id = r.id /\ x.kind = r.kind
                   /\ x.status = status /\ x.value = value
    BY <1>4 DEF Respond, Responses
  <1>8. late \in Responses /\ ~late.primary /\ late.id = r.id /\ late.kind = r.kind
    <2> DEFINE x == Respond(r, "data", Unset)
    <2>1. x \in Responses /\ x.id = r.id /\ x.kind = r.kind  BY <1>7
    <2> HIDE DEF x
    <2>2. [x EXCEPT !.primary = FALSE] \in Responses
      <3>1. FALSE \in BOOLEAN  OBVIOUS
      <3> QED  BY <2>1, <3>1, Zenon DEF Responses
    <2>3. LET y == [x EXCEPT !.primary = FALSE]
          IN  ~y.primary /\ y.id = x.id /\ y.kind = x.kind
      BY <2>1 DEF Responses
    <2> QED  BY <2>1, <2>2, <2>3 DEF x
  <1>9. r.kind \in {"equipment", "variable"} => ResponseInv(host, late)
    BY <1>4, <1>8 DEF ResponseInv
  <1> HIDE DEF late
  <1>10. ASSUME NEW status \in {"succeeded", "failed", "data"},
                NEW value \in Power \union {Unset}, Answer(status, value),
                later' = later \/ (later' = later \union {late}
                                     /\ r.kind \in {"equipment", "variable"}),
                \/ power' = power /\ ~(r.kind = "power" /\ status = "succeeded")
                \/ r.kind = "power" /\ status = "succeeded" /\ power' = r.arg,
                r.kind = "query" => value = power,
                speed' = IF r.kind = "vehicle" THEN r.arg ELSE speed
         PROVE  Goes
    <2> DEFINE x == Respond(r, status, value)
    <2>1. /\ x \in Responses /\ x.primary /\ x.id = r.id /\ x.kind = r.kind
          /\ x.status = status /\ x.value = value /\ Send(<<x>>)
      BY <1>7, <1>10
    <2> HIDE DEF x
    <2>2. later' \in SUBSET Responses
          /\ \A y \in later' \ later : ~y.primary /\ ResponseInv(host, y)
      BY <1>1, <1>8, <1>9, <1>10
    <2>3. \/ power' = power /\ ~(x.kind = "power" /\ x.status = "succeeded")
          \/ x.kind = "power" /\ x.status = "succeeded" /\ power' = host.queue[1].arg
      BY <1>10, <2>1 DEF r
    <2>4. x.kind = "query" => x.value = power  BY <1>10, <2>1
    <2>5. speed' = IF x.kind = "vehicle" THEN host.queue[1].arg ELSE speed
      BY <1>10, <2>1 DEF r
    <2>6. x.id = host.queue[1].id /\ x.kind = host.queue[1].kind  BY <2>1 DEF r
    <2> QED  BY <1>2, <2>1, <2>2, <2>3, <2>4, <2>5, <2>6, AnswerGoes
  <1> HIDE DEF Answer
  <1>11. Unset \in Power \union {Unset} /\ power \in Power \union {Unset}  BY <1>1
  <1>12. CASE r.kind \in {"reset", "start", "status"} /\ Answer("data", Unset)
              /\ UNCHANGED <<later, power, speed>>
    BY <1>10, <1>11, <1>12
  <1>13. CASE r.kind = "query" /\ Answer("data", power) /\ UNCHANGED <<later, power, speed>>
    BY <1>10, <1>11, <1>13
  <1>14. CASE r.kind = "equipment" /\ Answer("data", Unset) /\ UNCHANGED <<later, power, speed>>
    BY <1>10, <1>11, <1>14
  <1>15. CASE r.kind \in {"equipment", "variable"} /\ Answer("succeeded", Unset)
              /\ UNCHANGED <<power, speed>> /\ later' = later \union {late}
    BY <1>10, <1>11, <1>15
  <1>16. CASE r.kind \in {"power", "variable"} /\ Answer("failed", Unset)
              /\ UNCHANGED <<later, power, speed>>
    BY <1>10, <1>11, <1>16
  <1>17. CASE r.kind = "power" /\ power' = r.arg /\ Answer("succeeded", Unset)
              /\ UNCHANGED <<later, speed>>
    BY <1>10, <1>11, <1>17
  <1>18. CASE r.kind = "vehicle" /\ speed' = r.arg /\ Answer("succeeded", Unset)
              /\ UNCHANGED <<later, power>>
    BY <1>10, <1>11, <1>18
  <1> QED  BY <1>6, <1>12, <1>13, <1>14, <1>15, <1>16, <1>17, <1>18

\* Responses were moved on or lost, and nothing else.
LEMMA MovedGoes ==
    ASSUME DeviceInv, NEW to, toHost' = to, to \in Seq(Responses), NEW l, later' = l,
           l \subseteq later, UNCHANGED <<open, host, power, speed, burst>>,
           Range(to) \subseteq Range(toHost) \union later,
           AtMostOne(to), Silent(host.buffer) \/ Silent(to)
    PROVE  Goes
  <1>1. /\ host \in Hosts /\ NumberInv(host) /\ ObserverInv(host)
        /\ LineInv(host, toHost, later)
        /\ toHost \in Seq(Responses) /\ later \in SUBSET Responses
        /\ HostInv(host, toHost, later, power, speed)
    BY DEF DeviceInv, HostInv, LinesInv
  <1>2. Coming(host, to) \subseteq Coming(host, toHost) \union later  BY DEF Coming
  <1>3. AtMostOne(host.buffer)  BY <1>1 DEF LineInv
  <1>4. HostInv(host, to, l, power, speed)  BY <1>1, <1>2, <1>3, Moved
  <1>5. Promise(host, host)  BY <1>1, SamePromises
  <1> QED  BY <1>1, <1>4, <1>5 DEF Goes, DeviceInv

LEMMA SendLaterGoes ==
    ASSUME DeviceInv, SendLater
    PROVE  Goes
  <1> PICK x \in later : Send(<<x>>) /\ later' = later \ {x}  BY DEF SendLater
  <1>1. UNCHANGED <<open, host, power, speed, burst>>  BY DEF SendLater
  <1>2. /\ LineInv(host, toHost, later) /\ toHost \in Seq(Responses)
        /\ later \in SUBSET Responses
    BY DEF DeviceInv, HostInv, LinesInv
  <1>3. x \in Responses /\ ~x.primary /\ AtMostOne(toHost)
        /\ (Silent(host.buffer) \/ Silent(toHost))
    BY <1>2 DEF LineInv
  <1>4. CASE open
    <2> DEFINE to == Append(toHost, x)
    <2>1. toHost \o <<x>> = to /\ to \in Seq(Responses)  BY <1>2, <1>3
    <2>2. toHost' = to  BY <1>4, <2>1 DEF Send
    <2> DEFINE n == Len(toHost)
    <2>3. /\ n \in Nat /\ DOMAIN to = 1 .. (n + 1) /\ DOMAIN toHost = 1 .. n
          /\ \A i \in 1 .. n : to[i] = toHost[i]
          /\ to[n + 1] = x
      BY <1>2, <1>3, OneMore
    <2> HIDE DEF n, to
    <2>4. AtMostOne(to)
      <3> SUFFICES ASSUME NEW i \in 1 .. (n + 1), NEW j \in 1 .. (n + 1),
                          to[i].primary, to[j].primary
                   PROVE  i = j
        BY <2>3 DEF AtMostOne
      <3>1. i # n + 1 /\ j # n + 1  BY <1>3, <2>3
      <3>2. i \in 1 .. n /\ j \in 1 .. n  BY <2>3, <3>1
      <3> QED  BY <1>3, <2>3, <3>2 DEF AtMostOne
    <2>5. Silent(toHost) => Silent(to)
      <3> SUFFICES ASSUME Silent(toHost), NEW i \in 1 .. (n + 1)  PROVE ~to[i].primary
        BY <2>3 DEF Silent
      <3>1. CASE i = n + 1  BY <1>3, <2>3, <3>1
      <3>2. CASE i # n + 1
        <4>1. i \in 1 .. n  BY <2>3, <3>2
        <4> QED  BY <2>3, <4>1 DEF Silent
      <3> QED  BY <3>1, <3>2
    <2>6. Range(to) \subseteq Range(toHost) \union later
      <3> SUFFICES ASSUME NEW i \in 1 .. (n + 1)  PROVE to[i] \in Range(toHost) \union later
        BY <2>3 DEF Range
      <3>1. CASE i = n + 1  BY <2>3, <3>1
      <3>2. CASE i # n + 1
        <4>1. i \in 1 .. n  BY <2>3, <3>2
        <4> QED  BY <2>3, <4>1 DEF Range
      <3> QED  BY <3>1, <3>2
    <2> QED  BY <1>1, <1>3, <2>1, <2>2, <2>4, <2>5, <2>6, MovedGoes
  <1>5. CASE ~open
    <2>1. toHost' = toHost  BY <1>5 DEF Send
    <2> QED  BY <1>1, <1>2, <1>3, <2>1, MovedGoes
  <1> QED  BY <1>4, <1>5

LEMMA LoseResponseGoes ==
    ASSUME DeviceInv, LoseResponse
    PROVE  Goes
  <1> DEFINE to == Tail(toHost)
  <1>1. UNCHANGED <<open, host, later, power, speed, burst>> /\ toHost' = to /\ toHost # <<>>
    BY DEF LoseResponse, environment
  <1>2. LineInv(host, toHost, later) /\ toHost \in Seq(Responses)
    BY DEF DeviceInv, HostInv, LinesInv
  <1>3. AtMostOne(toHost) /\ (Silent(host.buffer) \/ Silent(toHost))  BY <1>2 DEF LineInv
  <1> DEFINE n == Len(toHost)
  <1>4. /\ n \in Nat /\ DOMAIN to = 1 .. (n - 1) /\ DOMAIN toHost = 1 .. n
        /\ \A i \in 1 .. (n - 1) : to[i] = toHost[i + 1]
        /\ to \in Seq(Responses)
    BY <1>1, <1>2, OneLess
  <1> HIDE DEF n, to
  <1>5. \A i \in DOMAIN to : i \in Nat /\ i + 1 \in DOMAIN toHost /\ to[i] = toHost[i + 1]
    BY <1>4
  <1>6. AtMostOne(to)
    <2> SUFFICES ASSUME NEW i \in DOMAIN to, NEW j \in DOMAIN to, to[i].primary, to[j].primary
                 PROVE  i = j
      BY DEF AtMostOne
    <2>1. i + 1 = j + 1  BY <1>3, <1>5 DEF AtMostOne
    <2> QED  BY <1>5, <2>1
  <1>7. Silent(toHost) => Silent(to)  BY <1>5 DEF Silent
  <1>8. Range(to) \subseteq Range(toHost)  BY <1>5 DEF Range
  <1> QED  BY <1>1, <1>3, <1>4, <1>6, <1>7, <1>8, MovedGoes

LEMMA LoseRequestGoes ==
    ASSUME DeviceInv, LoseRequest
    PROVE  Goes
  <1> DEFINE f == [host EXCEPT !.line = Tail(@)]
  <1>1. /\ HostInv(host, toHost, later, power, speed)
        /\ host \in Hosts /\ NumberInv(host) /\ ObserverInv(host)
        /\ toHost \in Seq(Responses) /\ later \in SUBSET Responses
    BY DEF DeviceInv, HostInv, LinesInv
  <1>2. host' = f /\ UNCHANGED <<open, toHost, later, power, speed, burst>> /\ host.line # <<>>
    BY DEF LoseRequest, environment
  <1>3. Late(host, later, later) /\ Kept(host, power, power, speed, speed)
    BY DEF Late, Kept
  <1>4. /\ HostInv(f, toHost, later, power, speed)
        /\ f.queue = host.queue /\ f.sent = host.sent /\ f.next = host.next
        /\ f.told = host.told
    BY <1>1, <1>2, <1>3, Unanswered
  <1> HIDE DEF f
  <1>5. Promise(host, f)
    <2>1. f \in Hosts /\ NumberInv(f) /\ ObserverInv(f)  BY <1>4 DEF HostInv, LinesInv
    <2> QED  BY <1>1, <1>4, <2>1, SamePromises
  <1> QED  BY <1>2, <1>4, <1>5 DEF Goes, DeviceInv

\* A part of the line goes to the buffer.
LEMMA Chunk ==
    ASSUME NEW b \in Seq(Responses), NEW to \in Seq(Responses), NEW m \in 0 .. Len(to),
           AtMostOne(b), AtMostOne(to), Silent(b) \/ Silent(to)
    PROVE  LET c == b \o SubSeq(to, 1, m)
               d == SubSeq(to, m + 1, Len(to))
           IN  /\ c \in Seq(Responses) /\ d \in Seq(Responses)
               /\ Range(c) \union Range(d) \subseteq Range(b) \union Range(to)
               /\ AtMostOne(c) /\ AtMostOne(d) /\ (Silent(c) \/ Silent(d))
  <1> DEFINE n == Len(b)
             k == Len(to)
             a == SubSeq(to, 1, m)
             c == b \o a
             d == SubSeq(to, m + 1, k)
  <1>1. n \in Nat /\ k \in Nat /\ DOMAIN b = 1 .. n /\ DOMAIN to = 1 .. k /\ m \in 0 .. k
    OBVIOUS
  <1>2. /\ a \in Seq(Responses) /\ Len(a) = m /\ \A i \in 1 .. m : a[i] = to[i]
    OBVIOUS
  <1>3. /\ d \in Seq(Responses) /\ DOMAIN d = 1 .. (k - m)
        /\ \A i \in 1 .. (k - m) : d[i] = to[m + i]
    OBVIOUS
  <1> HIDE DEF a, d
  <1>4. /\ c \in Seq(Responses) /\ DOMAIN c = 1 .. (n + m)
        /\ \A i \in 1 .. n : c[i] = b[i]
        /\ \A i \in 1 .. (n + m) : i > n => c[i] = a[i - n]
    <2>1. c \in Seq(Responses) /\ Len(c) = n + Len(a)
          /\ \A i \in 1 .. (n + Len(a)) : c[i] = IF i <= n THEN b[i] ELSE a[i - n]
      BY <1>2, ConcatProperties
    <2>2. DOMAIN c = 1 .. (n + m)  BY <1>2, <2>1
    <2> HIDE DEF n, c
    <2>3. \A i \in 1 .. n : i \in 1 .. (n + m) /\ i <= n  BY <1>1
    <2>4. \A i \in 1 .. (n + m) : i > n => ~(i <= n)  BY <1>1
    <2> QED  BY <1>2, <2>1, <2>2, <2>3, <2>4
  <1> HIDE DEF n, k, c
  <1>5. \A i \in DOMAIN c : \/ i \in DOMAIN b /\ c[i] = b[i]
                            \/ i > n /\ i - n \in 1 .. m /\ i - n \in DOMAIN to
                               /\ c[i] = to[i - n]
    <2> SUFFICES ASSUME NEW i \in 1 .. (n + m)
                 PROVE  \/ i \in DOMAIN b /\ c[i] = b[i]
                        \/ i > n /\ i - n \in 1 .. m /\ i - n \in DOMAIN to
                           /\ c[i] = to[i - n]
      BY <1>4
    <2>1. CASE i <= n
      <3>1. i \in 1 .. n  BY <1>1, <2>1
      <3> QED  BY <1>1, <1>4, <3>1
    <2>2. CASE i > n
      <3>1. i - n \in 1 .. m /\ i - n \in 1 .. k  BY <1>1, <2>2
      <3> QED  BY <1>1, <1>2, <1>4, <2>2, <3>1
    <2> QED  BY <1>1, <2>1, <2>2
  <1>6. \A i \in DOMAIN d : i \in Nat \ {0} /\ m + i \in DOMAIN to /\ d[i] = to[m + i]
    <2> SUFFICES ASSUME NEW i \in 1 .. (k - m)
                 PROVE  i \in Nat \ {0} /\ m + i \in DOMAIN to /\ d[i] = to[m + i]
      BY <1>3
    <2>1. i \in Nat \ {0} /\ m + i \in 1 .. k  BY <1>1
    <2> QED  BY <1>1, <1>3, <2>1
  <1>7. Range(c) \union Range(d) \subseteq Range(b) \union Range(to)
    <2>1. Range(c) \subseteq Range(b) \union Range(to)  BY <1>5 DEF Range
    <2>2. Range(d) \subseteq Range(to)  BY <1>6 DEF Range
    <2> QED  BY <2>1, <2>2
  <1>8. AtMostOne(c)
    <2> SUFFICES ASSUME NEW i \in DOMAIN c, NEW j \in DOMAIN c, c[i].primary, c[j].primary
                 PROVE  i = j
      BY DEF AtMostOne
    <2>1. CASE Silent(to)
      <3>1. i \in DOMAIN b /\ c[i] = b[i]  BY <1>5, <2>1 DEF Silent
      <3>2. j \in DOMAIN b /\ c[j] = b[j]  BY <1>5, <2>1 DEF Silent
      <3> QED  BY <3>1, <3>2 DEF AtMostOne
    <2>2. CASE Silent(b)
      <3>1. i - n \in DOMAIN to /\ c[i] = to[i - n]  BY <1>5, <2>2 DEF Silent
      <3>2. j - n \in DOMAIN to /\ c[j] = to[j - n]  BY <1>5, <2>2 DEF Silent
      <3>3. i - n = j - n  BY <3>1, <3>2 DEF AtMostOne
      <3> QED  BY <1>1, <1>4, <3>3
    <2> QED  BY <2>1, <2>2
  <1>9. AtMostOne(d)
    <2> SUFFICES ASSUME NEW i \in DOMAIN d, NEW j \in DOMAIN d, d[i].primary, d[j].primary
                 PROVE  i = j
      BY DEF AtMostOne
    <2>1. m + i = m + j  BY <1>6 DEF AtMostOne
    <2> QED  BY <1>1, <1>6, <2>1
  <1>10. Silent(c) \/ Silent(d)
    <2> SUFFICES ASSUME NEW i \in DOMAIN c, NEW j \in DOMAIN d, c[i].primary, d[j].primary
                 PROVE  FALSE
      BY DEF Silent
    <2>1. ~Silent(to)  BY <1>6 DEF Silent
    <2>2. i - n \in 1 .. m /\ i - n \in DOMAIN to /\ c[i] = to[i - n]
      BY <1>5, <2>1 DEF Silent
    <2>3. m + j \in DOMAIN to /\ d[j] = to[m + j] /\ j \in Nat \ {0}  BY <1>6
    <2>4. i - n = m + j  BY <2>2, <2>3 DEF AtMostOne
    <2> QED  BY <1>1, <2>2, <2>3, <2>4
  <1> QED  BY <1>3, <1>4, <1>7, <1>8, <1>9, <1>10 DEF a, c, d, k

LEMMA ReceiveGoes ==
    ASSUME DeviceInv, NEW m \in Nat, Receive(m)
    PROVE  Goes
  <1> DEFINE c == host.buffer \o SubSeq(toHost, 1, m)
             to == SubSeq(toHost, m + 1, Len(toHost))
             f == [host EXCEPT !.buffer = c]
             g == ReadyRead(f)
  <1>1. /\ host \in Hosts /\ NumberInv(host) /\ ObserverInv(host)
        /\ LineInv(host, toHost, later) /\ power \in Power
        /\ toHost \in Seq(Responses) /\ later \in SUBSET Responses
        /\ HostInv(host, toHost, later, power, speed) /\ host.buffer \in Seq(Responses)
    BY DEF DeviceInv, HostInv, LinesInv, Hosts
  <1>2. host' = g /\ toHost' = to /\ m <= Len(toHost)
        /\ UNCHANGED <<open, later, power, speed, burst>>
    BY DEF Receive, environment
  <1>3. m \in 0 .. Len(toHost)
    <2>1. Len(toHost) \in Nat  BY <1>1
    <2> QED  BY <1>2, <2>1
  <1>4. AtMostOne(host.buffer) /\ AtMostOne(toHost)
        /\ (Silent(host.buffer) \/ Silent(toHost))
    BY <1>1 DEF LineInv
  <1>5. /\ c \in Seq(Responses) /\ to \in Seq(Responses)
        /\ Range(c) \union Range(to) \subseteq Range(host.buffer) \union Range(toHost)
        /\ AtMostOne(c) /\ AtMostOne(to) /\ (Silent(c) \/ Silent(to))
    BY <1>1, <1>3, <1>4, Chunk
  <1> HIDE DEF c, to
  <1>6. f \in Hosts  BY <1>1, <1>5, Zenon DEF Hosts
  <1>7. /\ f.known = host.known /\ f.power = host.power /\ f.speed = host.speed
        /\ f.queue = host.queue /\ f.line = host.line /\ f.sent = host.sent
        /\ f.next = host.next /\ f.observers = host.observers /\ f.told = host.told
        /\ f.buffer = c
    BY <1>1 DEF Hosts
  <1> HIDE DEF f
  <1>8. Coming(f, to) \subseteq Coming(host, toHost) \union later  BY <1>5, <1>7 DEF Coming
  <1>9. HostInv(f, to, later, power, speed)  BY <1>1, <1>5, <1>6, <1>7, <1>8, Moved
  <1>10. HostInv(g, to, later, power, speed) /\ Onward(f, g)  BY <1>1, <1>5, <1>9, ChunkRead
  <1> HIDE DEF g
  <1>11. Promise(f, g)
    <2>1. NumberInv(f) /\ g \in Hosts /\ NumberInv(g) /\ ObserverInv(g)
      BY <1>9, <1>10 DEF HostInv, LinesInv
    <2> QED  BY <1>6, <1>10, <2>1, ReadingPromises
  <1>12. Promise(host, g)  BY <1>7, <1>11 DEF Promise, AnsweredTo
  <1> QED  BY <1>2, <1>5, <1>10, <1>12 DEF Goes, DeviceInv

LEMMA NextGoes ==
    ASSUME Mx1Assumption, DeviceInv, [Next]_vars
    PROVE  Goes
  <1>1. ASSUME NEW on \in BOOLEAN, SwitchPower(on)  PROVE Goes
    <2> DEFINE arg == IF on THEN "PowerOn" ELSE "PowerOff"
    <2>1. arg \in Power /\ arg \in Power \union {Unset}  BY DEF Power
    <2>2. Ask(QueueRequest(host, "power", arg))  BY <1>1 DEF SwitchPower
    <2> HIDE DEF arg
    <2> QED  BY <2>1, <2>2, SwitchGoes
  <1>2. ASSUME AccessVariable  PROVE Goes
    BY <1>2, SwitchGoes DEF AccessVariable
  <1>3. ASSUME People  PROVE Goes
    BY <1>1, <1>2, <1>3, ConnectGoes, CloseGoes, SetSpeedGoes, InfoGoes
       DEF People, DisconnectFromDevice
  <1>4. burst \in Nat  BY DEF DeviceInv, Mx1Assumption
  <1>5. ASSUME NEW m \in 1 .. burst, Receive(m)  PROVE Goes
    <2>1. m \in Nat  BY <1>4
    <2> QED  BY <1>5, <2>1, ReceiveGoes
  <1>6. ASSUME System  PROVE Goes
    BY <1>5, <1>6, CloseGoes, ExecuteGoes, SendLaterGoes DEF System, ConnectTimeout
  <1>7. ASSUME Receive(0)  PROVE Goes
    <2>1. 0 \in Nat  OBVIOUS
    <2> QED  BY <1>7, <2>1, ReceiveGoes
  <1>8. ASSUME UNCHANGED vars  PROVE Goes
    <2>1. /\ LineInv(host, toHost, later) /\ toHost \in Seq(Responses)
      BY DEF DeviceInv, HostInv, LinesInv
    <2>2. AtMostOne(toHost) /\ (Silent(host.buffer) \/ Silent(toHost))  BY <2>1 DEF LineInv
    <2>3. UNCHANGED <<open, host, toHost, later, power, speed, burst>>  BY <1>8 DEF vars
    <2> QED  BY <2>1, <2>2, <2>3, MovedGoes
  <1> QED  BY <1>3, <1>6, <1>7, <1>8, LoseRequestGoes, LoseResponseGoes DEF Next

\* The invariant holds of every state, and every step is one of Goes.
LEMMA DeviceIsRight == Spec => [](Mx1Assumption /\ DeviceInv)
  <1> DEFINE Inv == Mx1Assumption /\ DeviceInv
  <1>1. Init => Inv  BY Starts, Mx1Assumption
  <1>2. Inv /\ [Next]_vars => Inv'
    <2> SUFFICES ASSUME Mx1Assumption, DeviceInv, [Next]_vars PROVE Inv'  OBVIOUS
    <2>1. Goes  BY NextGoes
    <2>2. DeviceInv'  BY <2>1 DEF Goes, DeviceInv
    <2>3. Mx1Assumption'  BY Mx1Assumption
    <2> QED  BY <2>2, <2>3
  <1> QED  BY <1>1, <1>2, PTL DEF Spec

-----------------------------------------------------------------------------
(* The theorems.                                                             *)

\* StationAgrees, about handleResponse(), flushQueue() and the observers that
\* keep the state of the power and vehicle controls: once the queue is drained,
\* the command station has the power and the speed the device shows.
THEOREM StationIsRight == Spec => []StationAgrees
  <1>1. Mx1Assumption /\ DeviceInv => StationAgrees
    <2> SUFFICES ASSUME DeviceInv, host.known, host.queue = <<>>
                 PROVE  host.power = power /\ host.speed \in {speed, Unset}
      BY DEF StationAgrees
    <2>1. PowerShown(host, toHost, power) /\ SpeedInv(host, toHost, speed)
      BY DEF DeviceInv, HostInv, LinesInv
    <2>2. DOMAIN host.queue = {}  OBVIOUS
    <2>3. host.power = power  BY <2>1, <2>2 DEF PowerShown
    <2>4. host.speed \in {speed, Unset}  BY <2>1, <2>2 DEF SpeedInv
    <2> QED  BY <2>3, <2>4
  <1> QED  BY <1>1, DeviceIsRight, PTL

\* KeepsPromises, the refinement of RequestQueue by queueRequest(), onReadyRead()
\* and flushQueue(): requests are sent in order, one at a time, and no
\* caller gets two results.
THEOREM PromisesAreKept == Spec => KeepsPromises
  <1>1. Init => Promised!Init
    <2> SUFFICES ASSUME Init PROVE Promised!Init  OBVIOUS
    <2>1. host.next = 1 /\ host.sent = <<>> /\ host.told = <<>> /\ host.queue = <<>>
      BY DEF Init
    <2>2. host.next - 1 = 0 /\ host.next - 1 - Len(host.queue) = 0
      <3>1. Len(host.queue) = 0  BY <2>1
      <3>2. host.next = 1  BY <2>1
      <3> QED  BY <3>1, <3>2
    <2> QED  BY <2>1, <2>2 DEF Promised!Init
  <1>2. Mx1Assumption /\ DeviceInv /\ [Next]_vars => [Promised!Next]_Promised!vars
    <2> SUFFICES ASSUME Mx1Assumption, DeviceInv, [Next]_vars PROVE Promised!Next  OBVIOUS
    <2>1. Promise(host, host')  BY NextGoes DEF Goes
    <2>2. Promised!Queue /\ Promised!Answer /\ Promised!Transmit
      BY <2>1 DEF Promise, AnsweredTo, Promised!Queue, Promised!Answer, Promised!Transmit
    <2>3. Promised!Tell
      BY <2>1 DEF Promise, Promised!Tell, Promised!IsPrefix, Promised!IsInjective,
                  Promised!Range, IsPrefix, IsInjective, Range
    <2> QED  BY <2>2, <2>3 DEF Promised!Next
  <1> QED  BY <1>1, <1>2, DeviceIsRight, PTL DEF Spec, KeepsPromises, Promised!Spec
=============================================================================
