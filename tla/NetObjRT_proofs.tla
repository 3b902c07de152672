--------------------------- MODULE NetObjRT_proofs ---------------------------
(***************************************************************************)
(* Theorems about NetObjRT for any number of clients, references between   *)
(* them, names, events and failures.                                       *)
(***************************************************************************)
EXTENDS NetObjRT, SequenceTheorems, FiniteSetTheorems, WellFoundedInduction,
        TLAPS

-----------------------------------------------------------------------------
(* Events.                                                                 *)

\* Events are ordered: the EventID comparison of the code is a total order.
LEMMA EventOrder ==
  ASSUME NEW e \in Event, NEW f \in Event, NEW g \in Event
  PROVE  /\ EventLE(e, e)
         /\ EventLE(e, f) \/ EventLE(f, e)
         /\ EventLE(e, f) /\ EventLE(f, e) => e = f
         /\ EventLE(e, f) /\ EventLE(f, g) => EventLE(e, g)
<1>1. \A h \in Event : /\ h = <<h[1], h[2]>>
                       /\ h[1] \in 0 .. LastInt32 /\ h[2] \in Nat
  BY DEF Event
<1>2. LastInt32 \in Nat
  BY BoundAssumption
<1>3. EventLE(e, f) /\ EventLE(f, e) => e[1] = f[1] /\ e[2] = f[2]
  BY <1>1, <1>2 DEF EventLE
<1> QED  BY <1>1, <1>2, <1>3 DEF EventLE

\* So is the strict order, as far as it is needed.
LEMMA StrictEventOrder ==
  ASSUME NEW e \in Event, NEW f \in Event, NEW g \in Event
  PROVE  /\ ~EventLT(e, e)
         /\ EventLT(e, f) <=> ~EventLE(f, e)
         /\ EventLT(e, f) /\ EventLE(f, g) => EventLT(e, g)
         /\ EventLE(e, f) /\ EventLT(f, g) => EventLT(e, g)
BY EventOrder DEF EventLT

\* The next event is later, also where the less significant word is reset.
LEMMA NextEvent ==
  ASSUME NEW e \in Event
  PROVE  NextEventID(e) \in Event /\ EventLT(e, NextEventID(e))
<1>1. e = <<e[1], e[2]>> /\ e[1] \in 0 .. LastInt32 /\ e[2] \in Nat
  BY DEF Event
<1>2. LastInt32 \in Nat \ {0}
  BY BoundAssumption
<1>3. CASE e[1] = LastInt32
  BY <1>1, <1>2, <1>3 DEF NextEventID, EventLT, EventLE, Event
<1>4. CASE e[1] # LastInt32
  BY <1>1, <1>2, <1>4 DEF NextEventID, EventLT, EventLE, Event
<1> QED  BY <1>3, <1>4

\* Finitely many events, if any, have a latest one: else take a smallest set
\* of them that has none, and look at that set without one of its elements.
LEMMA LatestEvent ==
  ASSUME NEW S, IsFiniteSet(S), S # {}, S \subseteq Event
  PROVE  \E e \in S : \A f \in S : EventLE(f, e)
<1> DEFINE HasLatest(T) == \E e \in T : \A f \in T : EventLE(f, e)
           Bad == {T \in FiniteSubsetsOf(S) : T # {} /\ ~HasLatest(T)}
<1>1. SUFFICES ASSUME Bad # {} PROVE FALSE
  BY FS_FiniteSubsetsOfFinite DEF FiniteSubsetsOf
<1>2. PICK T \in Bad : \A U \in Bad : <<U, T>> \notin StrictSubsetOrdering(S)
  <2> HIDE DEF Bad
  <2>1. IsWellFoundedOn(StrictSubsetOrdering(S), FiniteSubsetsOf(S))
    BY FS_StrictSubsetOrderingWellFounded
  <2>2. Bad \subseteq FiniteSubsetsOf(S)
    BY DEF Bad
  <2> QED  BY <1>1, <2>1, <2>2, WFMin
<1>3. T \subseteq Event /\ IsFiniteSet(T)
  BY DEF FiniteSubsetsOf
<1>4. PICK x \in T : TRUE
  OBVIOUS
<1>5. T \ {x} \in FiniteSubsetsOf(S)
  BY FS_Subset DEF FiniteSubsetsOf
<1>6. T \ {x} \notin Bad
  BY <1>2, <1>5 DEF StrictSubsetOrdering, FiniteSubsetsOf
<1>7. CASE T = {x}
  BY <1>3, <1>7, EventOrder
<1>8. CASE T \ {x} # {}
  <2>1. PICK z \in T \ {x} : \A y \in T \ {x} : EventLE(y, z)
    BY <1>5, <1>6, <1>8
  <2>2. HasLatest(T)
    BY <1>3, <2>1, EventOrder
  <2> QED  BY <2>2
<1> QED  BY <1>7, <1>8

\* Later is the latest of the events it is given.
LEMMA LaterProperties ==
  ASSUME NEW e \in Event, NEW S, IsFiniteSet(S), S \subseteq Event
  PROVE  /\ Later(e, S) \in Event
         /\ EventLE(e, Later(e, S))
         /\ \A f \in S : EventLE(f, Later(e, S))
<1>1. CASE \A f \in S : EventLE(f, e)
  BY <1>1, EventOrder DEF Later
<1>2. CASE ~\A f \in S : EventLE(f, e)
  <2>1. PICK f \in S : ~EventLE(f, e)
    BY <1>2
  <2>2. \E g \in S : \A h \in S : EventLE(h, g)
    BY <2>1, LatestEvent
  <2>3. /\ Later(e, S) \in S
        /\ \A h \in S : EventLE(h, Later(e, S))
    BY <1>2, <2>2 DEF Later
  <2> QED  BY <2>1, <2>3, EventOrder
<1> QED  BY <1>1, <1>2

-----------------------------------------------------------------------------
(* Queues.                                                                 *)

\* A cleaner's queue: what it holds, and its types.
LEMMA QueueFacts ==
  ASSUME NEW q \in Seq(CleanElem)
  PROVE  /\ Len(q) \in Nat /\ DOMAIN q = 1 .. Len(q)
         /\ \A i \in 1 .. Len(q) : q[i] \in CleanElem
         /\ Elems(q) \subseteq CleanElem
         /\ \A S \in SUBSET Elems(q) : IsFiniteSet({b.id : b \in S})
<1>1. Len(q) \in Nat /\ q \in [1 .. Len(q) -> CleanElem]
  BY LenProperties
<1>2. ASSUME NEW S \in SUBSET Elems(q) PROVE IsFiniteSet({b.id : b \in S})
  <2> DEFINE I == {i \in 1 .. Len(q) : q[i] \in S}
             T == {b.id : b \in S}
             f == [i \in I |-> q[i].id]
  <2>1. IsFiniteSet(I)
    <3>1. IsFiniteSet(1 .. Len(q))
      BY <1>1, FS_Interval
    <3> QED  BY <3>1, FS_Subset
  <2>2. f \in Surjection(I, T)
    BY <1>1 DEF Surjection, Elems
  <2> QED  BY <2>1, <2>2, FS_Surjection
<1> QED  BY <1>1, <1>2 DEF Elems

\* An element that is appended to a queue joins those that are there.
LEMMA AppendElems ==
  ASSUME NEW q \in Seq(CleanElem), NEW b \in CleanElem
  PROVE  /\ Append(q, b) \in Seq(CleanElem)
         /\ Elems(Append(q, b)) = Elems(q) \cup {b}
         /\ Ordered(q) /\ (\A e \in Elems(q) : EventLT(e.id, b.id))
              => Ordered(Append(q, b))
<1>1. /\ Append(q, b) \in Seq(CleanElem)
      /\ Len(q) \in Nat /\ Len(Append(q, b)) = Len(q) + 1
      /\ \A i \in 1 .. Len(q) : Append(q, b)[i] = q[i]
      /\ Append(q, b)[Len(q) + 1] = b
  BY AppendProperties, LenProperties
<1>2. /\ DOMAIN q = 1 .. Len(q)
      /\ DOMAIN Append(q, b) = 1 .. Len(q) + 1
  BY <1>1, QueueFacts
<1> HIDE DEF Elems
<1>3. Elems(Append(q, b)) = Elems(q) \cup {b}
  <2>1. ASSUME NEW x \in Elems(q) PROVE x \in Elems(Append(q, b))
    BY <1>1, <1>2 DEF Elems
  <2>2. b \in Elems(Append(q, b))
    BY <1>1, <1>2 DEF Elems
  <2>3. ASSUME NEW x \in Elems(Append(q, b)) PROVE x \in Elems(q) \cup {b}
    BY <1>1, <1>2 DEF Elems
  <2> QED  BY <2>1, <2>2, <2>3
<1>4. ASSUME Ordered(q), \A e \in Elems(q) : EventLT(e.id, b.id)
      PROVE  Ordered(Append(q, b))
  BY <1>1, <1>2, <1>4 DEF Ordered, Elems
<1> QED  BY <1>1, <1>3, <1>4

\* A queue from which the first n elements are taken.
LEMMA TakeElems ==
  ASSUME NEW q \in Seq(CleanElem), NEW n \in 0 .. Len(q)
  PROVE  LET b == SubSeq(q, 1, n)
             r == SubSeq(q, n + 1, Len(q))
         IN /\ b \in Seq(CleanElem) /\ r \in Seq(CleanElem)
            /\ Elems(b) \cup Elems(r) = Elems(q)
            /\ Ordered(q) => /\ Ordered(b) /\ Ordered(r)
                             /\ \A x \in Elems(b), y \in Elems(r) :
                                  EventLT(x.id, y.id)
<1> DEFINE b == SubSeq(q, 1, n)
           r == SubSeq(q, n + 1, Len(q))
<1>0. Len(q) \in Nat /\ n \in Nat /\ n <= Len(q)
  BY QueueFacts
<1>1. DOMAIN q = 1 .. Len(q) /\ Len(q) \in Nat /\ n \in Nat /\ n <= Len(q)
  BY <1>0, QueueFacts
<1>2. \A i \in 1 .. Len(q) : q[i] \in CleanElem
  BY QueueFacts
<1>3. /\ b \in Seq(CleanElem) /\ Len(b) = n
      /\ \A i \in 1 .. n : b[i] = q[i]
  <2>1. \A i \in 1 .. n : q[i] \in CleanElem
    BY <1>1, <1>2
  <2>2. Len(b) = IF 1 <= n THEN n - 1 + 1 ELSE 0
    BY <1>1, <2>1, SubSeqProperties
  <2> QED  BY <1>1, <2>1, <2>2, SubSeqProperties
<1>4. /\ r \in Seq(CleanElem) /\ Len(r) = Len(q) - n
      /\ \A i \in 1 .. Len(q) - n : r[i] = q[n + i]
  <2>1. \A i \in n + 1 .. Len(q) : q[i] \in CleanElem
    BY <1>1, <1>2
  <2>2. n + 1 \in Int /\ Len(q) \in Int
    BY <1>1
  <2>3. /\ r \in Seq(CleanElem)
        /\ Len(r) = IF n + 1 <= Len(q) THEN Len(q) - (n + 1) + 1 ELSE 0
        /\ \A i \in 1 .. Len(q) - (n + 1) + 1 : r[i] = q[n + 1 + i - 1]
    BY <2>1, <2>2, SubSeqProperties
  <2>4. ASSUME NEW i \in 1 .. Len(q) - n PROVE r[i] = q[n + i]
    <3>1. i \in 1 .. Len(q) - (n + 1) + 1 /\ n + 1 + i - 1 = n + i
      BY <1>1
    <3> QED  BY <2>3, <3>1
  <2>5. Len(r) = Len(q) - n
    <3>1. CASE n + 1 <= Len(q)
      BY <1>1, <2>3, <3>1
    <3>2. CASE ~(n + 1 <= Len(q))
      <4>1. n = Len(q)
        <5> DEFINE k == Len(q)
        <5>1. k \in Nat /\ n \in Nat /\ n <= k /\ ~(n + 1 <= k)
          BY <1>0, <3>2
        <5> HIDE DEF k
        <5>2. n = k
          BY <5>1
        <5> QED  BY <5>2 DEF k
      <4>2. Len(r) = 0
        BY <2>3, <3>2
      <4> QED  BY <1>1, <4>1, <4>2
    <3> QED  BY <3>1, <3>2
  <2> QED  BY <2>3, <2>4, <2>5
<1>5. DOMAIN b = 1 .. n /\ DOMAIN r = 1 .. Len(q) - n
  BY <1>3, <1>4, QueueFacts
<1> HIDE DEF b, r
<1>6. Elems(b) \cup Elems(r) = Elems(q)
  <2>1. Elems(b) \subseteq Elems(q) /\ Elems(r) \subseteq Elems(q)
    <3>1. ASSUME NEW i \in 1 .. n PROVE b[i] \in Elems(q)
      BY <1>1, <1>3 DEF Elems
    <3>2. ASSUME NEW i \in 1 .. Len(q) - n PROVE r[i] \in Elems(q)
      <4>1. n + i \in 1 .. Len(q)
        BY <1>1
      <4> QED  BY <1>1, <1>4, <4>1 DEF Elems
    <3> QED  BY <1>5, <3>1, <3>2 DEF Elems
  <2>2. ASSUME NEW i \in 1 .. Len(q) PROVE q[i] \in Elems(b) \cup Elems(r)
    <3>1. CASE i <= n
      BY <1>1, <1>3, <1>5, <3>1 DEF Elems
    <3>2. CASE i > n
      <4>1. i - n \in 1 .. Len(q) - n /\ q[i] = r[i - n]
        BY <1>1, <1>4, <3>2
      <4> QED  BY <1>5, <4>1 DEF Elems
    <3> QED  BY <1>1, <3>1, <3>2
  <2> QED  BY <1>1, <2>1, <2>2 DEF Elems
<1>7. ASSUME Ordered(q)
      PROVE  /\ Ordered(b) /\ Ordered(r)
             /\ \A x \in Elems(b), y \in Elems(r) : EventLT(x.id, y.id)
  <2>1. \A i, j \in 1 .. Len(q) : i < j => EventLT(q[i].id, q[j].id)
    BY <1>1, <1>7 DEF Ordered
  <2>2. Ordered(b)
    BY <1>1, <1>3, <1>5, <2>1 DEF Ordered
  <2>3. Ordered(r)
    BY <1>1, <1>4, <1>5, <2>1 DEF Ordered
  <2>4. ASSUME NEW i \in 1 .. n, NEW j \in 1 .. Len(q) - n
        PROVE  EventLT(b[i].id, r[j].id)
    BY <1>1, <1>3, <1>4, <2>1
  <2> QED  BY <1>5, <2>2, <2>3, <2>4 DEF Elems
<1> QED  BY <1>3, <1>4, <1>6, <1>7 DEF b, r

\* Nothing is in an empty queue.
LEMMA EmptyQueue ==
  /\ <<>> \in Seq(CleanElem) /\ Elems(<<>>) = {} /\ Ordered(<<>>)
<1>1. <<>> \in Seq(CleanElem) /\ DOMAIN <<>> = {}
  BY EmptySeq
<1> QED  BY <1>1 DEF Elems, Ordered

-----------------------------------------------------------------------------
(* What the actions do to the cleaners.                                    *)

\* Events of the elements of a queue are finitely many events.
LEMMA Untraces ==
  ASSUME TypeOK, NEW c \in Client, NEW S, S \subseteq CleanElem,
         \A T \in SUBSET S : IsFiniteSet({b.id : b \in T})
  PROVE  /\ Untraced(c, S) \in [Client -> [Wire -> Event]]
         /\ \A d \in Client \ {c} : Untraced(c, S)[d] = lost[d]
         /\ \A w \in Wire : EventLE(lost[c][w], Untraced(c, S)[c][w])
         /\ \A b \in S : EventLE(b.id, Untraced(c, S)[c][b.w])
<1> DEFINE I(w) == {b.id : b \in {x \in S : x.w = w}}
           f == [w \in Wire |-> Later(lost[c][w], I(w))]
<1>1. lost \in [Client -> [Wire -> Event]]
  BY DEF TypeOK
<1>2. ASSUME NEW w \in Wire
      PROVE  /\ f[w] \in Event /\ EventLE(lost[c][w], f[w])
             /\ \A b \in S : b.w = w => EventLE(b.id, f[w])
  <2>1. IsFiniteSet(I(w)) /\ I(w) \subseteq Event /\ lost[c][w] \in Event
    BY <1>1 DEF CleanElem
  <2> HIDE DEF I
  <2>2. /\ f[w] \in Event /\ EventLE(lost[c][w], f[w])
        /\ \A e \in I(w) : EventLE(e, f[w])
    BY <2>1, LaterProperties
  <2>3. \A b \in S : b.w = w => b.id \in I(w)
    BY DEF I
  <2> QED  BY <2>2, <2>3
<1>3. Untraced(c, S) = [lost EXCEPT ![c] = f]
  BY DEF Untraced
<1>4. f \in [Wire -> Event]
  BY <1>2
<1> HIDE DEF f
<1> QED  BY <1>1, <1>2, <1>3, <1>4 DEF CleanElem

CleanerThread ==
  [st : {"none", "ready", "calling", "answered"}, batch : Seq(CleanElem),
   strong : BOOLEAN, try : 0 .. Tries, ok : BOOLEAN]

\* A cleaner that has no call under way has nothing in its hands.
LEMMA IdleCleaners ==
  \A st \in {"none", "ready"}, ok \in BOOLEAN :
    /\ Uncalled(st, ok) \in CleanerThread
    /\ Uncalled(st, ok).st = st /\ Uncalled(st, ok).batch = <<>>
<1>1. Tries \in Nat \ {0} /\ <<>> \in Seq(CleanElem)
  BY BoundAssumption, EmptyQueue
<1> QED  BY <1>1 DEF CleanerThread, Uncalled

NewElem(c, w, strong) ==
  [w |-> w, id |-> NextEventID(eCount[c]), strong |-> strong]

\* CleanerEnqueue: the new element has the next event of its program.
LEMMA Enqueues ==
  ASSUME TypeOK, NEW c \in Client, NEW w \in Wire, NEW strong \in BOOLEAN,
         CleanerEnqueue(c, w, strong), UNCHANGED cleans
  PROVE  LET elem == NewElem(c, w, strong)
         IN /\ elem \in CleanElem
            /\ eCount' = [eCount EXCEPT ![c] = elem.id]
            /\ eCount' \in [Client -> Event]
            /\ queue' \in [Client -> Seq(CleanElem)]
            /\ cleaner' \in [Client -> CleanerThread]
            /\ lost' \in [Client -> [Wire -> Event]]
            /\ \A d \in Client \ {c} : Cleanings(d)' = Cleanings(d)
            /\ Cleanings(c)' \subseteq Cleanings(c) \cup {elem}
<1> DEFINE elem == NewElem(c, w, strong)
<1>1. elem \in CleanElem
  BY NextEvent DEF TypeOK, CleanElem, NewElem
<1>2. /\ queue \in [Client -> Seq(CleanElem)]
      /\ queue' = queue \/ queue' = [queue EXCEPT ![c] = Append(@, elem)]
  BY DEF TypeOK, CleanerEnqueue, NewElem
<1>3. Append(queue[c], elem) \in Seq(CleanElem)
  BY <1>1, <1>2, AppendElems
<1>4. queue' \in [Client -> Seq(CleanElem)]
  BY <1>2, <1>3
<1>5. NewCleaner \in CleanerThread /\ NewCleaner.batch = <<>>
  BY IdleCleaners DEF NewCleaner
<1>6. cleaner' = cleaner \/ cleaner' = [cleaner EXCEPT ![c] = NewCleaner]
  BY DEF CleanerEnqueue
<1>7. cleaner' \in [Client -> CleanerThread]
  BY <1>5, <1>6 DEF TypeOK, CleanerThread
<1>8. lost' \in [Client -> [Wire -> Event]]
  <2>1. \A T \in SUBSET {elem} : IsFiniteSet({b.id : b \in T})
    <3>1. ASSUME NEW T \in SUBSET {elem} PROVE IsFiniteSet({b.id : b \in T})
      <4> HIDE DEF elem
      <4>1. CASE T = {}
        <5>1. {b.id : b \in T} = {}
          BY <4>1
        <5> QED  BY <5>1, FS_EmptySet
      <4>2. CASE T = {elem}
        <5>1. {b.id : b \in T} = {elem.id}
          BY <4>2
        <5> QED  BY <5>1, FS_Singleton
      <4> QED  BY <4>1, <4>2
    <3> QED  BY <3>1
  <2>2. Untraced(c, {elem}) \in [Client -> [Wire -> Event]]
    BY <1>1, <2>1, Untraces
  <2>3. lost' = lost \/ lost' = Untraced(c, {elem})
    BY DEF CleanerEnqueue, NewElem
  <2>4. lost \in [Client -> [Wire -> Event]]
    BY DEF TypeOK
  <2> QED  BY <2>2, <2>3, <2>4
<1>9. eCount' \in [Client -> Event] /\ eCount' = [eCount EXCEPT ![c] = elem.id]
  BY <1>1 DEF TypeOK, CleanerEnqueue, CleanElem, NewElem
<1>10. ASSUME NEW d \in Client
       PROVE  /\ d # c => queue'[d] = queue[d] /\ cleaner'[d] = cleaner[d]
              /\ Elems(queue'[c]) \subseteq Elems(queue[c]) \cup {elem}
              /\ Elems(cleaner'[c].batch) \subseteq Elems(cleaner[c].batch)
  <2>1. d # c => queue'[d] = queue[d] /\ cleaner'[d] = cleaner[d]
    BY <1>2, <1>6 DEF TypeOK
  <2>2. queue'[c] = queue[c] \/ queue'[c] = Append(queue[c], elem)
    BY <1>2
  <2>3. cleaner'[c] = cleaner[c] \/ cleaner'[c] = NewCleaner
    BY <1>6 DEF TypeOK
  <2> HIDE DEF elem
  <2>4. Elems(Append(queue[c], elem)) = Elems(queue[c]) \cup {elem}
    BY <1>1, <1>2, AppendElems
  <2>5. Elems(NewCleaner.batch) = {}
    BY <1>5, EmptyQueue
  <2> QED  BY <2>1, <2>2, <2>3, <2>4, <2>5
<1> HIDE DEF elem
<1>11. /\ \A d \in Client \ {c} : Cleanings(d)' = Cleanings(d)
       /\ Cleanings(c)' \subseteq Cleanings(c) \cup {elem}
  BY <1>10 DEF Cleanings
<1> QED  BY <1>1, <1>4, <1>7, <1>8, <1>9, <1>11 DEF elem

\* A batch is no longer than the queue it is taken from.
LEMMA BatchSize ==
  ASSUME NEW q \in Seq(CleanElem)
  PROVE  Cardinality(Batches(q)) \in 0 .. Len(q)
<1>1. Len(q) \in Nat
  BY QueueFacts
<1>2. IsFiniteSet(1 .. Len(q)) /\ Cardinality(1 .. Len(q)) = Len(q)
  <2>1. /\ IsFiniteSet(1 .. Len(q))
        /\ Cardinality(1 .. Len(q)) = IF 1 > Len(q) THEN 0 ELSE Len(q) - 1 + 1
    <3>1. 1 \in Int /\ Len(q) \in Int
      BY <1>1
    <3> HIDE DEF Elems
    <3> QED  BY <3>1, FS_Interval
  <2> QED  BY <1>1, <2>1
<1>3. Batches(q) \subseteq 1 .. Len(q)
  BY DEF Batches
<1>4. IsFiniteSet(Batches(q)) /\ Cardinality(Batches(q)) <= Len(q)
  BY <1>2, <1>3, FS_Subset
<1>5. Cardinality(Batches(q)) \in Nat
  BY <1>4, FS_CardinalityType
<1> QED  BY <1>1, <1>4, <1>5

\* A clean call carries the batch of the cleaner that makes it.
CleanCall == [from : Client, batch : Seq(CleanElem), strong : BOOLEAN,
              try : 1 .. Tries]

LEMMA Calls ==
  ASSUME TypeOK, NEW c \in Client, NEW batch \in Seq(CleanElem),
         NEW strong \in BOOLEAN, NEW try \in 1 .. Tries,
         Call(c, batch, strong, try)
  PROVE  /\ cleaner' \in [Client -> CleanerThread] /\ cleaner'[c].batch = batch
         /\ \A d \in Client \ {c} : cleaner'[d] = cleaner[d]
         /\ cleans' \subseteq CleanCall
         /\ \A m \in cleans' : m \in cleans \/ (m.from = c /\ m.batch = batch)
<1> DEFINE cl == [st |-> "calling", batch |-> batch, strong |-> strong,
                  try |-> try, ok |-> TRUE]
           call == [from |-> c, batch |-> batch, strong |-> strong,
                    try |-> try]
<1>1. cl \in CleanerThread /\ cl.batch = batch
  BY BoundAssumption DEF CleanerThread
<1>2. call \in CleanCall /\ call.from = c /\ call.batch = batch
  BY DEF CleanCall
<1>3. cleaner' = [cleaner EXCEPT ![c] = cl] /\ cleans' = cleans \cup {call}
  BY DEF Call
<1>4. cleaner \in [Client -> CleanerThread] /\ cleans \subseteq CleanCall
  BY DEF TypeOK, CleanerThread, CleanCall
<1> HIDE DEF cl, call
<1> QED  BY <1>1, <1>2, <1>3, <1>4

\* A cleaner takes from its queue, calls, tries again and gives up: it says
\* nothing that it had not to say.
LEMMA CleanersStep ==
  ASSUME TypeOK, NEW c \in Client, Clean(c) \/ CleanerFails(c)
  PROVE  /\ queue' \in [Client -> Seq(CleanElem)]
         /\ cleaner' \in [Client -> CleanerThread]
         /\ cleans' \subseteq CleanCall
         /\ lost' \in [Client -> [Wire -> Event]]
         /\ \A d \in Client : Cleanings(d)' \subseteq Cleanings(d)
<1>1. /\ queue \in [Client -> Seq(CleanElem)]
      /\ cleaner \in [Client -> CleanerThread]
      /\ cleans \subseteq CleanCall
      /\ lost \in [Client -> [Wire -> Event]]
  BY DEF TypeOK, CleanerThread, CleanCall
<1>2. /\ queue[c] \in Seq(CleanElem)
      /\ cleaner[c].batch \in Seq(CleanElem) /\ cleaner[c].strong \in BOOLEAN
      /\ cleaner[c].try \in 0 .. Tries
  BY <1>1 DEF CleanerThread
<1>3. \A q \in Seq(CleanElem) : Untraced(c, Elems(q)) \in [Client -> [Wire -> Event]]
  BY QueueFacts, Untraces
<1>4. CASE CleanerTake(c)
  <2> DEFINE q == queue[c]
             n == Cardinality(Batches(q))
             b == SubSeq(q, 1, n)
             r == SubSeq(q, n + 1, Len(q))
  <2>1. /\ Call(c, b, q[1].strong, 1) /\ queue' = [queue EXCEPT ![c] = r]
        /\ q # <<>> /\ UNCHANGED lost
    BY <1>4 DEF CleanerTake
  <2>2. n \in 0 .. Len(q)
    BY <1>2, BatchSize
  <2>3. b \in Seq(CleanElem) /\ r \in Seq(CleanElem) /\ Elems(b) \cup Elems(r) = Elems(q)
    BY <1>2, <2>2, TakeElems
  <2>4. q[1].strong \in BOOLEAN
    <3>1. Len(q) \in Nat /\ Len(q) # 0
      BY <1>2, <2>1, EmptySeq
    <3>2. q[1] \in CleanElem
      <4>1. \A i \in 1 .. Len(q) : q[i] \in CleanElem
        BY <1>2, QueueFacts
      <4> HIDE DEF q
      <4> QED  BY <3>1, <4>1
    <3> QED  BY <3>2 DEF CleanElem
  <2>5. 1 \in 1 .. Tries
    BY BoundAssumption
  <2> HIDE DEF b, r, n
  <2>6. /\ cleaner' \in [Client -> CleanerThread] /\ cleaner'[c].batch = b
        /\ \A d \in Client \ {c} : cleaner'[d] = cleaner[d]
        /\ cleans' \subseteq CleanCall
        /\ \A m \in cleans' : m \in cleans \/ (m.from = c /\ m.batch = b)
    BY <2>1, <2>3, <2>4, <2>5, Calls
  <2>7. /\ queue' \in [Client -> Seq(CleanElem)] /\ queue'[c] = r
        /\ \A d \in Client \ {c} : queue'[d] = queue[d]
    BY <1>1, <2>1, <2>3
  <2>8. ASSUME NEW d \in Client PROVE Cleanings(d)' \subseteq Cleanings(d)
    <3> HIDE DEF q
    <3>1. CASE d = c
      BY <2>3, <2>6, <2>7, <3>1 DEF Cleanings, q
    <3>2. CASE d # c
      BY <2>6, <2>7, <3>2 DEF Cleanings
    <3> QED  BY <3>1, <3>2
  <2> QED  BY <1>1, <2>1, <2>6, <2>7, <2>8
<1>5. CASE CleanerExit(c)
  <2>1. /\ cleaner' = [cleaner EXCEPT ![c] = NoCleaner] /\ UNCHANGED cleans
        /\ queue' = [queue EXCEPT ![c] = <<>>]
        /\ lost' = Untraced(c, Elems(queue[c]))
    BY <1>5 DEF CleanerExit
  <2>2. /\ NoCleaner \in CleanerThread /\ NoCleaner.batch = <<>>
        /\ <<>> \in Seq(CleanElem) /\ Elems(<<>>) = {}
    BY IdleCleaners, EmptyQueue DEF NoCleaner
  <2>3. \A d \in Client : /\ Elems(queue'[d]) \subseteq Elems(queue[d])
                          /\ Elems(cleaner'[d].batch) \subseteq Elems(cleaner[d].batch)
    BY <1>1, <2>1, <2>2
  <2>4. \A d \in Client : Cleanings(d)' \subseteq Cleanings(d)
    BY <2>1, <2>3 DEF Cleanings
  <2> QED  BY <1>1, <1>2, <1>3, <2>1, <2>2, <2>4
<1>6. CASE CleanerReturns(c)
  <2>1. cleaner' = [cleaner EXCEPT ![c] = NewCleaner] /\ UNCHANGED <<queue, cleans, lost>>
    BY <1>6 DEF CleanerReturns
  <2>2. NewCleaner \in CleanerThread /\ NewCleaner.batch = <<>> /\ Elems(<<>>) = {}
    BY IdleCleaners, EmptyQueue DEF NewCleaner
  <2>3. \A d \in Client : Elems(cleaner'[d].batch) \subseteq Elems(cleaner[d].batch)
    BY <1>1, <2>1, <2>2
  <2>4. \A d \in Client : Cleanings(d)' \subseteq Cleanings(d)
    BY <2>1, <2>3 DEF Cleanings
  <2> QED  BY <1>1, <2>1, <2>2, <2>4
<1>7. CASE CleanerFails(c)
  <2>1. UNCHANGED queue
    BY <1>7 DEF CleanerFails
  <2>2. CASE /\ cleaner[c].try < Tries /\ UNCHANGED lost
             /\ Call(c, cleaner[c].batch, cleaner[c].strong, cleaner[c].try + 1)
    <3>1. cleaner[c].try + 1 \in 1 .. Tries
      <4>1. Tries \in Nat /\ cleaner[c].try \in 0 .. Tries
        BY <1>2, BoundAssumption
      <4> QED  BY <2>2, <4>1
    <3>2. /\ cleaner' \in [Client -> CleanerThread]
          /\ cleaner'[c].batch = cleaner[c].batch
          /\ \A d \in Client \ {c} : cleaner'[d] = cleaner[d]
          /\ cleans' \subseteq CleanCall
          /\ \A m \in cleans' : m \in cleans \/ (m.from = c /\ m.batch = cleaner[c].batch)
      BY <1>2, <2>2, <3>1, Calls
    <3>3. \A d \in Client : Cleanings(d)' \subseteq Cleanings(d)
      <4> SUFFICES ASSUME NEW d \in Client PROVE Cleanings(d)' \subseteq Cleanings(d)
        OBVIOUS
      <4>1. CASE d = c
        BY <2>1, <3>2, <4>1 DEF Cleanings
      <4>2. CASE d # c
        BY <2>1, <3>2, <4>2 DEF Cleanings
      <4> QED  BY <4>1, <4>2
    <3> QED  BY <1>1, <2>1, <2>2, <3>2, <3>3
  <2>3. CASE /\ cleaner' = [cleaner EXCEPT ![c] = Uncalled("ready", FALSE)]
             /\ lost' = Untraced(c, Elems(cleaner[c].batch)) /\ UNCHANGED cleans
    <3>1. /\ Uncalled("ready", FALSE) \in CleanerThread
          /\ Uncalled("ready", FALSE).batch = <<>> /\ Elems(<<>>) = {}
      BY IdleCleaners, EmptyQueue
    <3>2. \A d \in Client : Elems(cleaner'[d].batch) \subseteq Elems(cleaner[d].batch)
      BY <1>1, <2>3, <3>1
    <3>3. \A d \in Client : Cleanings(d)' \subseteq Cleanings(d)
      BY <2>1, <2>3, <3>2 DEF Cleanings
    <3>4. cleaner' \in [Client -> CleanerThread]
      BY <1>1, <2>3, <3>1
    <3> QED  BY <1>1, <1>2, <1>3, <2>1, <2>3, <3>3, <3>4
  <2> QED  BY <1>7, <2>2, <2>3 DEF CleanerFails
<1> QED  BY <1>4, <1>5, <1>6, <1>7 DEF Clean

-----------------------------------------------------------------------------
(* Types.                                                                  *)

LEMMA InitTypes == Init => TypeOK
<1>1. /\ LastInt32 \in Nat /\ MaxWires \in Nat /\ MaxFailures \in Nat
      /\ MaxDeaths \in Nat /\ NullT \notin Wire
  BY BoundAssumption DEF NullT, Wire
<1>2. <<0, 0>> \in Event
  BY <1>1 DEF Event
<1>3. NoCleaner \in CleanerThread /\ <<>> \in Seq(CleanElem)
  BY IdleCleaners, EmptyQueue DEF NoCleaner
<1> SUFFICES ASSUME Init PROVE TypeOK
  OBVIOUS
<1>4. exports \in [Client -> [Wire -> DirtyElem]]
  BY <1>2 DEF Init, DirtyElem
<1>5. xfer \in [Pairs -> [w : Wire \cup {NullT}, pinned : BOOLEAN, at : At]]
  BY DEF Init, At
<1>6. /\ wire \in Wire \cup {NullT} /\ made \in 0 .. MaxWires /\ pinCount \in Nat
      /\ listed \in [Client -> SUBSET Wire]
      /\ failures \in 0 .. MaxFailures /\ deaths \in 0 .. MaxDeaths
  BY <1>1 DEF Init
<1>7. /\ srgt \in [Client -> [Wire ->
            {"none", "creating", "granted", "refused", "live", "dead"}]]
      /\ reg \in [Client -> [Wire -> Event]]
      /\ eCount \in [Client -> Event]
      /\ queue \in [Client -> Seq(CleanElem)]
      /\ cleaner \in [Client -> CleanerThread]
      /\ lost \in [Client -> [Wire -> Event]]
  BY <1>2, <1>3 DEF Init
<1>8. /\ stale = {} /\ dirties = {} /\ cleans = {} /\ void = {} /\ alive = Client
  BY DEF Init
<1> QED  BY <1>4, <1>5, <1>6, <1>7, <1>8 DEF TypeOK, CleanerThread

\* Any reference: what may be marshalled has a name.
Xfers == [Pairs -> [w : Wire \cup {NullT}, pinned : BOOLEAN, at : At]]

\* Threads, and calls that fail, are counted as far as the bound.
LEMMA FailureTypes ==
  ASSUME failures \in 0 .. MaxFailures, failures < MaxFailures
  PROVE  failures + 1 \in 0 .. MaxFailures
BY BoundAssumption

LEMMA MarshalTypes ==
  ASSUME TypeOK, NamesOK, pinCount' \in Nat, NEW p \in Pairs, Marshal(p)
  PROVE  TypeOK'
<1>0. /\ NullT \in Wire \cup {NullT} /\ MaxWires \in Nat
  BY BoundAssumption
<1>1. ASSUME NEW w \in Wire, Sends(p, w) PROVE xfer' \in Xfers
  BY <1>1 DEF Sends, TypeOK, Xfers, At
<1>2. CASE InsertAndPin(p)
  <2>1. wire' \in Wire /\ made' \in 0 .. MaxWires
    BY <1>0, <1>2 DEF InsertAndPin, TypeOK, Wire, NullT
  <2>2. xfer' \in Xfers
    BY <1>1, <1>2, <2>1 DEF InsertAndPin
  <2> QED  BY <1>2, <2>1, <2>2 DEF InsertAndPin, client, TypeOK, Xfers
<1>3. ASSUME NEW w \in Wire, SendSurrogate(p, w) PROVE TypeOK'
  <2>1. xfer' \in Xfers
    BY <1>1, <1>3 DEF SendSurrogate
  <2> QED  BY <1>3, <2>1 DEF SendSurrogate, owner, client, TypeOK, Xfers
<1>4. CASE Unpin(p)
  <2>1. xfer' \in Xfers
    BY <1>4 DEF Unpin, TypeOK, Xfers
  <2>2. wire' \in Wire \cup {NullT}
    BY <1>4 DEF Unpin, TypeOK, CheckedRemove
  <2>3. failures' \in 0 .. MaxFailures
    BY <1>4, FailureTypes DEF Unpin, TypeOK
  <2> QED  BY <1>4, <2>1, <2>2, <2>3 DEF Unpin, client, TypeOK, Xfers
<1>5. CASE LoseReference(p)
  <2>1. xfer' \in Xfers
    BY <1>5 DEF LoseReference, TypeOK, Xfers, At
  <2>2. failures' \in 0 .. MaxFailures
    BY <1>5, FailureTypes DEF LoseReference, TypeOK
  <2> QED  BY <1>5, <2>1, <2>2 DEF LoseReference, owner, client, TypeOK, Xfers
<1> QED  BY <1>2, <1>3, <1>4, <1>5 DEF Marshal

\* An interval's subset, if not empty, has a least and a greatest element.
LEMMA ExtremeIndex ==
  ASSUME NEW n \in Nat, NEW S \in SUBSET (1 .. n), S # {},
         NEW down \in BOOLEAN
  PROVE  \E k \in S : \A j \in S : IF down THEN k <= j ELSE j <= k
<1> DEFINE Before(x, y) == IF down THEN x <= y ELSE y <= x
           Ext(T) == \E k \in T : \A j \in T : Before(k, j)
           Bad == {T \in FiniteSubsetsOf(1 .. n) : T # {} /\ ~Ext(T)}
<1>a. \A x, y, z \in Nat : /\ Before(x, x) /\ (Before(x, y) \/ Before(y, x))
                           /\ Before(x, y) /\ Before(y, z) => Before(x, z)
  OBVIOUS
<1>0. IsFiniteSet(1 .. n)
  BY FS_Interval
<1>1. SUFFICES ASSUME Bad # {} PROVE FALSE
  BY <1>0, FS_FiniteSubsetsOfFinite, FS_Subset DEF FiniteSubsetsOf
<1>2. PICK T \in Bad :
        \A U \in Bad : <<U, T>> \notin StrictSubsetOrdering(1 .. n)
  <2> HIDE DEF Bad
  <2>1. IsWellFoundedOn(StrictSubsetOrdering(1 .. n), FiniteSubsetsOf(1 .. n))
    BY <1>0, FS_StrictSubsetOrderingWellFounded
  <2>2. Bad \subseteq FiniteSubsetsOf(1 .. n)
    BY DEF Bad
  <2> QED  BY <1>1, <2>1, <2>2, WFMin
<1>3. T \subseteq 1 .. n /\ IsFiniteSet(T)
  BY DEF FiniteSubsetsOf
<1>4. PICK x \in T : TRUE
  OBVIOUS
<1>5. T \ {x} \in FiniteSubsetsOf(1 .. n)
  BY FS_Subset DEF FiniteSubsetsOf
<1>6. T \ {x} \notin Bad
  BY <1>2, <1>5 DEF StrictSubsetOrdering, FiniteSubsetsOf
<1> HIDE DEF Before
<1>7. CASE T = {x}
  <2>1. Ext(T)
    BY <1>3, <1>7, <1>a
  <2> QED  BY <2>1
<1>8. CASE T \ {x} # {}
  <2>1. PICK z \in T \ {x} : \A y \in T \ {x} : Before(z, y)
    BY <1>5, <1>6, <1>8
  <2>2. x \in Nat /\ z \in Nat /\ \A y \in T : y \in Nat
    BY <1>3
  <2>3. (\A y \in T : Before(x, y)) \/ (\A y \in T : Before(z, y))
    BY <1>a, <2>1, <2>2
  <2>4. Ext(T)
    BY <2>3
  <2> QED  BY <2>4
<1> QED  BY <1>7, <1>8

LEMMA MoveTypes ==
  ASSUME TypeOK, NEW p \in Pairs, NEW at \in At,
         xfer' = [xfer EXCEPT ![p].at = at]
  PROVE  xfer' \in Xfers
BY DEF TypeOK, Xfers

LEMMA FindTypes ==
  ASSUME TypeOK, NamesOK, pinCount' \in Nat, NEW p \in Pairs, Find(p)
  PROVE  TypeOK'
<1>1. CASE FindSurrogate(p)
  <2>1. xfer' \in Xfers
    BY <1>1, MoveTypes DEF FindSurrogate, At
  <2> QED  BY <1>1, <2>1 DEF FindSurrogate, owner, client, TypeOK, Xfers
<1>2. CASE FindWait(p)
  <2>1. xfer' \in Xfers
    BY <1>2, MoveTypes DEF FindWait, At
  <2> QED  BY <1>2, <2>1 DEF FindWait, owner, client, TypeOK, Xfers
<1>3. CASE FindCreate(p)
  <2> DEFINE r == p[2]
             w == xfer[p].w
             ts == NextEventID(eCount[r])
  <2>1. r \in Client
    BY ClientAssumption
  <2>2. w \in Wire
    BY <1>3, BoundAssumption DEF FindCreate, Reader, NamesOK, TypeOK, Wire
  <2>3. ts \in Event
    BY <2>1, NextEvent DEF TypeOK
  <2> HIDE DEF ts
  <2>4. xfer' \in Xfers
    BY <1>3, MoveTypes DEF FindCreate, At
  <2>5. /\ srgt' = [srgt EXCEPT ![r][w] = "creating"]
        /\ reg' = [reg EXCEPT ![r][w] = ts]
        /\ eCount' = [eCount EXCEPT ![r] = ts]
        /\ stale' \subseteq stale \cup {<<r, w>>}
        /\ dirties' = dirties \cup {[from |-> r, w |-> w, id |-> ts]}
        /\ void' \subseteq void
        /\ UNCHANGED <<owner, queue, cleaner, cleans, alive, failures, deaths,
                       lost>>
    BY <1>3 DEF FindCreate, ts
  <2>6. /\ srgt' \in [Client -> [Wire ->
              {"none", "creating", "granted", "refused", "live", "dead"}]]
        /\ reg' \in [Client -> [Wire -> Event]] /\ eCount' \in [Client -> Event]
    BY <2>1, <2>2, <2>3, <2>5 DEF TypeOK
  <2>7. dirties' \subseteq [from : Client, w : Wire, id : Event]
    BY <2>1, <2>2, <2>3, <2>5 DEF TypeOK
  <2>8. stale' \subseteq Client \X Wire /\ void' \subseteq Client \X Wire
    BY <2>1, <2>2, <2>5 DEF TypeOK
  <2> QED  BY <2>4, <2>5, <2>6, <2>7, <2>8 DEF owner, TypeOK, Xfers
<1> QED  BY <1>1, <1>2, <1>3 DEF Find

LEMMA BroadcastTypes ==
  ASSUME TypeOK, NEW c, NEW w PROVE Broadcast(c, w) \in Xfers
<1> SUFFICES ASSUME NEW p \in Pairs
             PROVE  Broadcast(c, w)[p] \in
                      [w : Wire \cup {NullT}, pinned : BOOLEAN, at : At]
  BY DEF Broadcast, Xfers
<1>1. xfer[p] \in [w : Wire \cup {NullT}, pinned : BOOLEAN, at : At]
  BY DEF TypeOK
<1>2. "idle" \in At /\ "sent" \in At
  BY DEF At
<1>3. \A at \in At : [xfer[p] EXCEPT !.at = at] \in
                       [w : Wire \cup {NullT}, pinned : BOOLEAN, at : At]
  BY <1>1
<1> QED  BY <1>1, <1>2, <1>3 DEF Broadcast

LEMMA SurrogateTypes ==
  ASSUME TypeOK, NamesOK, pinCount' \in Nat, NEW c \in Client, NEW w \in Wire,
         \/ FindReturns(c, w) \/ FindRaises(c, w)
         \/ Drop(c, w) \/ CleanupSrgt(c, w) \/ CleanupStale(c, w)
  PROVE  TypeOK'
<1>1. CASE FindReturns(c, w)
  <2>1. xfer' \in Xfers
    BY <1>1, BroadcastTypes DEF FindReturns
  <2> QED  BY <1>1, <2>1 DEF FindReturns, owner, TypeOK, Xfers
<1>2. CASE FindRaises(c, w)
  <2>1. xfer' \in Xfers
    BY <1>2, BroadcastTypes DEF FindRaises
  <2>2. /\ eCount' \in [Client -> Event]
        /\ queue' \in [Client -> Seq(CleanElem)]
        /\ cleaner' \in [Client -> CleanerThread]
        /\ lost' \in [Client -> [Wire -> Event]]
    BY <1>2, Enqueues DEF FindRaises
  <2>3. failures' \in 0 .. MaxFailures
    BY <1>2, FailureTypes DEF FindRaises, TypeOK
  <2>4. srgt' \in [Client -> [Wire ->
              {"none", "creating", "granted", "refused", "live", "dead"}]]
    BY <1>2 DEF FindRaises, TypeOK
  <2>5. UNCHANGED <<owner, reg, stale, dirties, cleans, alive, deaths, void>>
    BY <1>2 DEF FindRaises
  <2> QED
    BY <2>5, <2>1, <2>4, <2>2, <2>3 DEF owner, TypeOK, Xfers, CleanerThread
<1>3. CASE Drop(c, w)
  BY <1>3 DEF Drop, owner, TypeOK
<1>4. CASE CleanupSrgt(c, w)
  <2>1. /\ eCount' \in [Client -> Event]
        /\ queue' \in [Client -> Seq(CleanElem)]
        /\ cleaner' \in [Client -> CleanerThread]
        /\ lost' \in [Client -> [Wire -> Event]]
    BY <1>4, Enqueues DEF CleanupSrgt
  <2>2. srgt' \in [Client -> [Wire ->
              {"none", "creating", "granted", "refused", "live", "dead"}]]
    BY <1>4 DEF CleanupSrgt, TypeOK
  <2>3. UNCHANGED <<owner, reg, stale, xfer, dirties, cleans, alive, failures,
                    deaths, void>>
    BY <1>4 DEF CleanupSrgt
  <2> QED  BY <2>1, <2>2, <2>3 DEF owner, TypeOK, CleanerThread
<1>5. CASE CleanupStale(c, w)
  BY <1>5 DEF CleanupStale, owner, TypeOK
<1> QED  BY <1>1, <1>2, <1>3, <1>4, <1>5

\* The answer of a dirty call reaches its caller or is discarded.
LEMMA AnswerTypes ==
  ASSUME TypeOK, NEW m \in dirties, NEW a \in {"granted", "refused"}
  PROVE  /\ Answered(m, a) \in [Client -> [Wire ->
              {"none", "creating", "granted", "refused", "live", "dead"}]]
         /\ \A c \in Client, w \in Wire :
              \/ Answered(m, a)[c][w] = srgt[c][w]
              \/ /\ c = m.from /\ w = m.w /\ srgt[c][w] = "creating"
                 /\ reg[c][w] = m.id /\ Answered(m, a)[c][w] = a
BY DEF TypeOK, Answered

\* The last element of a clean call that the owner handles.
LEMMA HandledElement ==
  ASSUME TypeOK, NEW m \in cleans, Fresh(m) # {}, NEW removed \in BOOLEAN
  PROVE  LET i == LastHandled(m, removed) IN
         /\ i \in Fresh(m) /\ m.batch[i] \in Elems(m.batch)
         /\ m.batch[i] \in CleanElem
         /\ ~removed => \A j \in Fresh(m) : j <= i
<1> DEFINE i == LastHandled(m, removed)
<1>1. m.batch \in Seq(CleanElem)
  BY DEF TypeOK
<1>2. /\ Len(m.batch) \in Nat /\ DOMAIN m.batch = 1 .. Len(m.batch)
      /\ \A j \in 1 .. Len(m.batch) : m.batch[j] \in CleanElem
  BY <1>1, QueueFacts
<1>3. Fresh(m) \subseteq 1 .. Len(m.batch)
  BY <1>2 DEF Fresh
<1>4. \E k \in Fresh(m) : \A j \in Fresh(m) : IF removed THEN k <= j ELSE j <= k
  BY <1>2, <1>3, ExtremeIndex
<1>5. /\ i \in Fresh(m)
      /\ \A j \in Fresh(m) : IF removed THEN i <= j ELSE j <= i
  BY <1>4 DEF LastHandled
<1> QED  BY <1>2, <1>3, <1>5 DEF Elems

\* What a clean call does of which the ith element is the last that the owner
\* handles.
CleanEffect(m, i) ==
  LET c == m.from
      de == exports[c][wire]
  IN /\ m.batch[i] \in Elems(m.batch) /\ m.batch[i] \in CleanElem
     /\ m.batch[i].w = wire /\ wire \in Wire /\ wire \in listed[c]
     /\ EventLT(de.ts, m.batch[i].id)
     /\ (de.dirty /\ pinCount = 1) \/ \A j \in Fresh(m) : j <= i
     /\ \/ /\ exports' = [exports EXCEPT ![c][wire] =
               [dirty |-> FALSE, keep |-> TRUE, ts |-> m.batch[i].id]]
           /\ UNCHANGED listed
        \/ /\ listed' = [listed EXCEPT ![c] = @ \ {wire}]
           /\ UNCHANGED exports
     /\ IF de.dirty THEN pinCount' = pinCount - 1 /\ CheckedRemove
        ELSE UNCHANGED <<pinCount, wire>>

LEMMA CleanHandled ==
  ASSUME TypeOK, NEW m \in cleans, AgentClean(m), Fresh(m) # {}
  PROVE  \E i \in Fresh(m) : CleanEffect(m, i)
<1> DEFINE c == m.from
           de == exports[c][wire]
           removed == de.dirty /\ pinCount = 1
           i == LastHandled(m, removed)
<1>1. removed \in BOOLEAN
  OBVIOUS
<1>2. /\ i \in Fresh(m) /\ m.batch[i] \in Elems(m.batch)
      /\ m.batch[i] \in CleanElem
      /\ ~removed => \A j \in Fresh(m) : j <= i
  <2> HIDE DEF removed
  <2> QED  BY <1>1, HandledElement
<1>3. /\ Cleaned(m, removed)
      /\ IF de.dirty THEN pinCount' = pinCount - 1 /\ CheckedRemove
         ELSE UNCHANGED <<pinCount, wire>>
  BY DEF AgentClean
<1> HIDE DEF removed
<1>4. \/ /\ exports' = [exports EXCEPT ![c][wire] =
             [dirty |-> FALSE, keep |-> TRUE, ts |-> m.batch[i].id]]
         /\ UNCHANGED listed
      \/ /\ listed' = [listed EXCEPT ![c] = @ \ {wire}]
         /\ UNCHANGED exports
  BY <1>3 DEF Cleaned
<1>5. c \in Client /\ wire \in listed[c] /\ m.batch[i].w = wire /\ wire \in Wire
  <2>1. c \in Client
    BY DEF TypeOK
  <2>2. m.batch[i].w = wire /\ wire \in listed[c]
    <3> HIDE DEF i
    <3> QED  BY <1>2 DEF Fresh
  <2> QED  BY <2>1, <2>2 DEF TypeOK
<1>6. EventLT(de.ts, m.batch[i].id)
  <2>1. ~EventLE(m.batch[i].id, de.ts)
    BY <1>2 DEF Fresh
  <2>2. de.ts \in Event /\ m.batch[i].id \in Event
    BY <1>2, <1>5 DEF TypeOK, DirtyElem, CleanElem
  <2> QED  BY <2>1, <2>2, StrictEventOrder
<1> HIDE DEF i
<1>7. CleanEffect(m, i)
  BY <1>2, <1>3, <1>4, <1>5, <1>6 DEF CleanEffect, removed
<1> QED  BY <1>2, <1>7

LEMMA ServedTypes ==
  ASSUME TypeOK, NamesOK, pinCount' \in Nat,
         \/ \E m \in dirties : AgentDirty(m) \/ LoseDirty(m)
         \/ \E m \in cleans : AgentClean(m) \/ LoseClean(m)
  PROVE  TypeOK'
<1>1. ASSUME NEW m \in dirties, AgentDirty(m) PROVE TypeOK'
  <2> DEFINE c == m.from
             w == m.w
             keep == w \in listed[c] /\ exports[c][w].keep
             de == [dirty |-> TRUE, keep |-> keep, ts |-> m.id]
  <2>1. c \in Client /\ w \in Wire /\ m.id \in Event
    BY DEF TypeOK
  <2>2. keep \in BOOLEAN
    BY <2>1 DEF TypeOK, DirtyElem
  <2> HIDE DEF keep
  <2>3. de \in DirtyElem
    BY <2>1, <2>2 DEF DirtyElem
  <2> HIDE DEF de
  <2>4. /\ srgt' = Answered(m, "refused") \/ srgt' = Answered(m, "granted")
        /\ \/ UNCHANGED <<listed, exports>>
           \/ /\ listed' = [listed EXCEPT ![c] = @ \cup {w}]
              /\ exports' = [exports EXCEPT ![c][w] = de]
        /\ dirties' \subseteq dirties
        /\ UNCHANGED <<wire, made, reg, stale, eCount, queue, cleaner, xfer,
                       cleans, alive, failures, deaths, void, lost>>
    BY <1>1 DEF AgentDirty, de, keep
  <2>5. srgt' \in [Client -> [Wire ->
              {"none", "creating", "granted", "refused", "live", "dead"}]]
    BY <2>4, AnswerTypes
  <2> HIDE DEF c, w
  <2>6. listed' \in [Client -> SUBSET Wire]
    <3>1. listed' = listed \/ listed' = [listed EXCEPT ![c] = @ \cup {w}]
      BY <2>4
    <3>2. listed \in [Client -> SUBSET Wire]
      BY DEF TypeOK
    <3> QED  BY <2>1, <3>1, <3>2
  <2>7. exports' \in [Client -> [Wire -> DirtyElem]]
    <3>1. exports' = exports \/ exports' = [exports EXCEPT ![c][w] = de]
      BY <2>4
    <3>2. exports \in [Client -> [Wire -> DirtyElem]]
      BY DEF TypeOK
    <3> QED  BY <2>1, <2>3, <3>1, <3>2
  <2> QED  BY <2>4, <2>5, <2>6, <2>7 DEF TypeOK
<1>2. ASSUME NEW m \in dirties, LoseDirty(m) PROVE TypeOK'
  BY <1>2 DEF LoseDirty, owner, client, TypeOK
<1>3. ASSUME NEW m \in cleans, AgentClean(m) PROVE TypeOK'
  <2> DEFINE c == m.from
             S == {b \in Elems(m.batch) : b.w \notin listed'[c]}
  <2>1. c \in Client /\ m.batch \in Seq(CleanElem) /\ m.strong \in BOOLEAN
    BY DEF TypeOK
  <2>2. lost' \in [Client -> [Wire -> Event]]
    <3>1. S \subseteq CleanElem /\ \A T \in SUBSET S : IsFiniteSet({b.id : b \in T})
      BY <2>1, QueueFacts
    <3>2. lost' = Untraced(c, S)
      BY <1>3 DEF AgentClean
    <3> HIDE DEF S
    <3> QED  BY <2>1, <3>1, <3>2, Untraces
  <2>3. cleaner' \in [Client -> CleanerThread]
    <3>1. cleaner[c] \in CleanerThread
      BY <2>1 DEF TypeOK, CleanerThread
    <3>2. [cleaner[c] EXCEPT !.st = "answered"] \in CleanerThread
      BY <3>1 DEF CleanerThread
    <3>3. \/ cleaner' = cleaner
          \/ cleaner' = [cleaner EXCEPT ![c] = [cleaner[c] EXCEPT !.st = "answered"]]
      BY <1>3, <2>1 DEF AgentClean, TypeOK
    <3>4. cleaner \in [Client -> CleanerThread]
      BY DEF TypeOK, CleanerThread
    <3> QED  BY <3>2, <3>3, <3>4
  <2>4. /\ listed' \in [Client -> SUBSET Wire]
        /\ exports' \in [Client -> [Wire -> DirtyElem]]
        /\ wire' \in Wire \cup {NullT}
    <3>1. CASE Fresh(m) = {}
      BY <1>3, <3>1 DEF AgentClean, TypeOK
    <3>2. CASE Fresh(m) # {}
      <4>1. PICK i \in Fresh(m) : CleanEffect(m, i)
        BY <1>3, <3>2, CleanHandled
      <4> DEFINE de == [dirty |-> FALSE, keep |-> TRUE, ts |-> m.batch[i].id]
      <4>2. de \in DirtyElem
        BY <4>1 DEF CleanEffect, DirtyElem, CleanElem
      <4> HIDE DEF de
      <4>3. /\ listed' = listed \/ listed' = [listed EXCEPT ![c] = @ \ {wire}]
            /\ exports' = exports \/ exports' = [exports EXCEPT ![c][wire] = de]
            /\ wire' = wire \/ wire' = NullT
            /\ wire \in Wire
        BY <4>1 DEF CleanEffect, CheckedRemove, de
      <4> HIDE DEF c
      <4>4. listed' \in [Client -> SUBSET Wire]
        <5>1. listed \in [Client -> SUBSET Wire]
          BY DEF TypeOK
        <5> QED  BY <2>1, <4>3, <5>1
      <4>5. exports' \in [Client -> [Wire -> DirtyElem]]
        <5>1. exports \in [Client -> [Wire -> DirtyElem]]
          BY DEF TypeOK
        <5> QED  BY <2>1, <4>2, <4>3, <5>1
      <4> QED  BY <4>3, <4>4, <4>5
    <3> QED  BY <3>1, <3>2
  <2>5. /\ cleans' \subseteq cleans
        /\ UNCHANGED <<made, srgt, reg, stale, eCount, queue, xfer, dirties,
                       alive, failures, deaths, void>>
    BY <1>3 DEF AgentClean
  <2> QED  BY <2>2, <2>3, <2>4, <2>5 DEF TypeOK, CleanerThread
<1>4. ASSUME NEW m \in cleans, LoseClean(m) PROVE TypeOK'
  BY <1>4 DEF LoseClean, owner, client, TypeOK
<1> QED  BY <1>1, <1>2, <1>3, <1>4

LEMMA ClientTypes ==
  ASSUME TypeOK, NamesOK, pinCount' \in Nat, NEW c \in Client,
         Clean(c) \/ CleanerFails(c) \/ DeadLocation(c) \/ Crash(c)
  PROVE  TypeOK'
<1>1. CASE Clean(c)
  <2>1. UNCHANGED <<owner, srgt, reg, stale, eCount, xfer, dirties, alive,
                    failures, deaths, void>>
    BY <1>1 DEF Clean, CleanerTake, CleanerExit, CleanerReturns
  <2> QED  BY <1>1, <2>1, CleanersStep DEF owner, TypeOK, CleanerThread, CleanCall
<1>2. CASE CleanerFails(c)
  <2>1. /\ UNCHANGED <<owner, srgt, reg, stale, eCount, queue, xfer, dirties,
                       alive, deaths, void>>
        /\ failures' \in 0 .. MaxFailures
    BY <1>2, FailureTypes DEF CleanerFails, TypeOK
  <2> QED  BY <1>2, <2>1, CleanersStep DEF owner, TypeOK, CleanerThread, CleanCall
<1>3. CASE DeadLocation(c)
  <2>1. deaths' \in 0 .. MaxDeaths /\ void' \subseteq Client \X Wire
    BY <1>3, BoundAssumption DEF DeadLocation, TypeOK
  <2>2. /\ listed' \in [Client -> SUBSET Wire]
        /\ wire' \in Wire \cup {NullT}
    BY <1>3 DEF DeadLocation, CheckedRemove, TypeOK
  <2>3. lost' \in [Client -> [Wire -> Event]]
    <3> DEFINE f == [w \in Wire |->
                 IF w \in listed[c] THEN Later(lost[c][w], {exports[c][w].ts})
                 ELSE lost[c][w]]
    <3>1. ASSUME NEW w \in Wire PROVE f[w] \in Event
      <4>1. lost[c][w] \in Event /\ exports[c][w].ts \in Event
        BY DEF TypeOK, DirtyElem
      <4>2. IsFiniteSet({exports[c][w].ts})
        BY FS_Singleton
      <4>3. {exports[c][w].ts} \subseteq Event
        BY <4>1
      <4>4. Later(lost[c][w], {exports[c][w].ts}) \in Event
        BY <4>1, <4>2, <4>3, LaterProperties
      <4> QED  BY <4>1, <4>4
    <3>2. lost' = [lost EXCEPT ![c] = f]
      BY <1>3 DEF DeadLocation
    <3>3. f \in [Wire -> Event]
      BY <3>1
    <3> HIDE DEF f
    <3> QED  BY <3>2, <3>3 DEF TypeOK
  <2> QED  BY <1>3, <2>1, <2>2, <2>3 DEF DeadLocation, client, TypeOK
<1>4. CASE Crash(c)
  <2>1. /\ NoCleaner \in CleanerThread /\ <<>> \in Seq(CleanElem)
        /\ <<0, 0>> \in Event
    <3>1. LastInt32 \in Nat
      BY BoundAssumption
    <3>2. <<0, 0>> \in Event
      BY <3>1 DEF Event
    <3> QED  BY <3>2, IdleCleaners, EmptyQueue DEF NoCleaner
  <2>2. srgt' \in [Client -> [Wire ->
              {"none", "creating", "granted", "refused", "live", "dead"}]]
    BY <1>4, <2>1 DEF Crash, TypeOK
  <2>3. /\ reg' \in [Client -> [Wire -> Event]]
        /\ eCount' \in [Client -> Event]
        /\ queue' \in [Client -> Seq(CleanElem)]
    BY <1>4, <2>1 DEF Crash, TypeOK
  <2>4. cleaner' \in [Client -> CleanerThread]
    BY <1>4, <2>1 DEF Crash, TypeOK, CleanerThread
  <2>5. xfer' \in Xfers
    <3>1. xfer' = [p \in Pairs |->
            [w |-> xfer[p].w, pinned |-> xfer[p].pinned /\ p[1] # c,
             at |-> IF p[2] = c THEN "idle" ELSE xfer[p].at]]
      BY <1>4 DEF Crash
    <3>2. xfer \in [Pairs -> [w : Wire \cup {NullT}, pinned : BOOLEAN, at : At]]
      BY DEF TypeOK
    <3> QED  BY <3>1, <3>2 DEF Xfers, At
  <2>6. alive' \subseteq alive /\ stale' \subseteq stale /\ void' \subseteq void
    BY <1>4 DEF Crash
  <2>7. UNCHANGED <<owner, dirties, cleans, failures, deaths, lost>>
    BY <1>4 DEF Crash
  <2> QED  BY <2>2, <2>3, <2>4, <2>5, <2>6, <2>7
           DEF owner, TypeOK, Xfers, CleanerThread
<1> QED  BY <1>1, <1>2, <1>3, <1>4

LEMMA TypeStep ==
  ASSUME TypeOK, NamesOK, pinCount' \in Nat, [Next]_vars
  PROVE  TypeOK'
<1>1. CASE UNCHANGED vars
  BY <1>1 DEF vars, owner, client, TypeOK
<1>2. CASE Next
  BY <1>2, MarshalTypes, FindTypes, SurrogateTypes, ServedTypes, ClientTypes
  DEF Next
<1> QED  BY <1>1, <1>2

-----------------------------------------------------------------------------
(* Names and events.                                                       *)

\* What moves a reference that is under way does not change its name.
SameNames ==
  \A p \in Pairs : xfer'[p].at # "idle" => xfer[p].at # "idle" /\ xfer'[p].w = xfer[p].w

LEMMA BroadcastNames ==
  ASSUME TypeOK, NEW c, NEW w, xfer' = Broadcast(c, w) PROVE SameNames
<1> SUFFICES ASSUME NEW p \in Pairs, xfer'[p].at # "idle"
             PROVE  xfer[p].at # "idle" /\ xfer'[p].w = xfer[p].w
  BY DEF SameNames
<1>1. xfer[p] \in [w : Wire \cup {NullT}, pinned : BOOLEAN, at : At]
  BY DEF TypeOK
<1>2. \/ xfer'[p] = [xfer[p] EXCEPT !.at = "idle"]
      \/ xfer'[p] = [xfer[p] EXCEPT !.at = "sent"] /\ xfer[p].at = "asleep"
      \/ xfer'[p] = xfer[p]
  BY DEF Broadcast
<1> QED  BY <1>1, <1>2

\* References that move keep their names.
LEMMA MoveNames ==
  ASSUME TypeOK, NamesOK, SameNames, UNCHANGED <<wire, made, listed, dirties>>,
         \A c \in Client, w \in Wire : srgt'[c][w] # "none" => srgt[c][w] # "none"
  PROVE  NamesOK'
BY DEF NamesOK, SameNames

LEMMA NamesStep ==
  ASSUME TypeOK, NamesOK, [Next]_vars PROVE NamesOK'
<1>0. /\ made \in Nat /\ NullT \notin Wire /\ MaxWires \in Nat
      /\ \A w \in Wire : w \in Nat /\ w # NullT
      /\ \A p \in Pairs : p[2] \in Client
  BY BoundAssumption, ClientAssumption DEF TypeOK, Wire, NullT
<1>t. /\ listed \in [Client -> SUBSET Wire]
      /\ srgt \in [Client -> [Wire ->
           {"none", "creating", "granted", "refused", "live", "dead"}]]
  BY DEF TypeOK
<1>1. CASE UNCHANGED vars
  BY <1>1 DEF vars, owner, client, NamesOK
<1>2. ASSUME NEW p \in Pairs, InsertAndPin(p) PROVE NamesOK'
  <2>1. /\ xfer' = [xfer EXCEPT ![p] = [w |-> wire', pinned |-> TRUE, at |-> "sent"]]
        /\ UNCHANGED <<listed, srgt, dirties>>
    BY <1>2 DEF InsertAndPin, Sends, client
  <2>2. wire' = made' /\ made' \in Nat \ {0} /\ made <= made'
    BY <1>0, <1>2 DEF InsertAndPin, NamesOK, TypeOK, NullT
  <2>3. \A q \in Pairs : xfer'[q].at # "idle" => xfer'[q].w \in 1 .. made'
    BY <1>0, <2>1, <2>2 DEF NamesOK, TypeOK
  <2>4. \A m \in dirties : m.w <= made'
    BY <1>0, <2>2 DEF NamesOK, TypeOK
  <2>5. \A c \in Client : /\ \A w \in listed[c] : w <= made'
                          /\ \A w \in Wire : srgt[c][w] # "none" => w <= made'
    BY <1>0, <2>2 DEF NamesOK, TypeOK
  <2> QED  BY <2>3, <2>4, <2>5, <2>1, <2>2 DEF NamesOK
<1>3. ASSUME NEW p \in Pairs, NEW w \in Wire, SendSurrogate(p, w) PROVE NamesOK'
  <2>1. /\ xfer' = [xfer EXCEPT ![p] = [w |-> w, pinned |-> TRUE, at |-> "sent"]]
        /\ UNCHANGED <<wire, made, listed, srgt, dirties>>
    BY <1>3 DEF SendSurrogate, Sends, client, owner
  <2>2. w \in 1 .. made
    <3>1. p[1] \in Client
      BY <1>3 DEF SendSurrogate, TypeOK
    <3> QED  BY <1>0, <1>3, <3>1 DEF SendSurrogate, NamesOK, Wire
  <2> QED  BY <2>1, <2>2 DEF NamesOK, TypeOK
<1>4. ASSUME NEW p \in Pairs,
             \/ Unpin(p) \/ LoseReference(p) \/ FindSurrogate(p) \/ FindWait(p)
      PROVE  NamesOK'
  <2>1. CASE Unpin(p)
    <3>1. SameNames /\ UNCHANGED <<made, listed, srgt, dirties>>
      BY <2>1 DEF Unpin, client, TypeOK, SameNames
    <3>2. wire' = wire \/ wire' = NullT
      BY <2>1 DEF Unpin, CheckedRemove
    <3> QED  BY <3>1, <3>2 DEF NamesOK, SameNames
  <2>2. CASE LoseReference(p)
    <3>1. SameNames /\ UNCHANGED <<wire, made, listed, srgt, dirties>>
      BY <2>2 DEF LoseReference, owner, client, TypeOK, SameNames
    <3> QED  BY <3>1, MoveNames
  <2>3. CASE FindSurrogate(p)
    <3>1. SameNames /\ UNCHANGED <<wire, made, listed, srgt, dirties>>
      BY <2>3 DEF FindSurrogate, owner, client, TypeOK, SameNames
    <3> QED  BY <3>1, MoveNames
  <2>4. CASE FindWait(p)
    <3>1. SameNames /\ UNCHANGED <<wire, made, listed, srgt, dirties>>
      BY <2>4 DEF FindWait, Reader, owner, client, TypeOK, SameNames
    <3> QED  BY <3>1, MoveNames
  <2> QED  BY <1>4, <2>1, <2>2, <2>3, <2>4
<1>5. ASSUME NEW p \in Pairs, FindCreate(p) PROVE NamesOK'
  <2> DEFINE r == p[2]
             w == xfer[p].w
             ts == NextEventID(eCount[r])
  <2>1. /\ srgt' = [srgt EXCEPT ![r][w] = "creating"]
        /\ dirties' = dirties \cup {[from |-> r, w |-> w, id |-> ts]}
        /\ xfer' = [xfer EXCEPT ![p].at = "finding"]
        /\ xfer[p].at = "sent"
        /\ UNCHANGED <<wire, made, listed>>
    BY <1>5 DEF FindCreate, Reader, owner
  <2>2. w \in 1 .. made
    BY <2>1 DEF NamesOK
  <2> HIDE DEF ts, r, w
  <2>3. \A q \in Pairs : xfer'[q].at # "idle" => xfer'[q].w \in 1 .. made
    BY <2>1, <2>2 DEF NamesOK, TypeOK, w
  <2>4. \A m \in dirties' : m.w <= made
    BY <1>0, <2>1, <2>2 DEF NamesOK
  <2>5. \A c \in Client, v \in Wire : srgt'[c][v] # "none" => v <= made
    BY <1>0, <2>1, <2>2 DEF NamesOK, TypeOK
  <2> QED  BY <2>1, <2>3, <2>4, <2>5 DEF NamesOK
<1>6. ASSUME NEW c \in Client, NEW w \in Wire,
             \/ FindReturns(c, w) \/ FindRaises(c, w)
             \/ Drop(c, w) \/ CleanupSrgt(c, w) \/ CleanupStale(c, w)
      PROVE  NamesOK'
  <2>1. UNCHANGED <<wire, made, listed, dirties>>
    BY <1>6 DEF FindReturns, FindRaises, Drop, CleanupSrgt, CleanupStale, owner
  <2>2. \/ UNCHANGED srgt
        \/ srgt' = [srgt EXCEPT ![c][w] = "none"]
        \/ srgt[c][w] # "none" /\ srgt' = [srgt EXCEPT ![c][w] = "live"]
        \/ srgt[c][w] # "none" /\ srgt' = [srgt EXCEPT ![c][w] = "dead"]
    BY <1>6 DEF FindReturns, FindRaises, Drop, CleanupSrgt, CleanupStale
  <2>3. UNCHANGED xfer \/ xfer' = Broadcast(c, w)
    BY <1>6 DEF FindReturns, FindRaises, Drop, CleanupSrgt, CleanupStale
  <2>4. SameNames
    BY <2>3, BroadcastNames DEF SameNames
  <2>5. \A d \in Client, v \in Wire : srgt'[d][v] # "none" => srgt[d][v] # "none"
    BY <1>t, <2>2
  <2> QED  BY <2>1, <2>4, <2>5, MoveNames
<1>7. ASSUME NEW m \in dirties, AgentDirty(m) PROVE NamesOK'
  <2>1. m.from \in Client /\ m.w \in Wire
    BY DEF TypeOK
  <2>2. /\ UNCHANGED <<wire, made, xfer>> /\ dirties' \subseteq dirties
        /\ listed' = listed \/ listed' = [listed EXCEPT ![m.from] = @ \cup {m.w}]
        /\ srgt' = Answered(m, "refused") \/ srgt' = Answered(m, "granted")
    BY <1>7 DEF AgentDirty
  <2>3. \A d \in Client, v \in Wire : srgt'[d][v] # "none" => srgt[d][v] # "none"
    BY <2>2, AnswerTypes
  <2>4. m.w <= made /\ \A d \in Client : \A v \in listed'[d] : v \in listed[d] \/ v = m.w
    <3>1. m.w <= made
      BY DEF NamesOK
    <3>2. \A d \in Client : \A v \in listed'[d] : v \in listed[d] \/ v = m.w
      BY <1>t, <2>1, <2>2
    <3> QED  BY <3>1, <3>2
  <2> QED  BY <2>2, <2>3, <2>4 DEF NamesOK
<1>8. ASSUME NEW m \in dirties, LoseDirty(m) PROVE NamesOK'
  BY <1>8 DEF LoseDirty, owner, client, NamesOK
<1>9. ASSUME NEW m \in cleans, AgentClean(m) PROVE NamesOK'
  <2>1. /\ UNCHANGED <<made, xfer, srgt, dirties>>
        /\ wire' = wire \/ wire' = NullT
        /\ listed' = listed \/ listed' = [listed EXCEPT ![m.from] = @ \ {wire}]
    BY <1>9 DEF AgentClean, CheckedRemove, Cleaned
  <2>2. \A d \in Client : listed'[d] \subseteq listed[d]
    BY <1>t, <2>1
  <2> QED  BY <2>1, <2>2 DEF NamesOK
<1>10. ASSUME NEW m \in cleans, LoseClean(m) PROVE NamesOK'
  BY <1>10 DEF LoseClean, owner, client, NamesOK
<1>11. ASSUME NEW c \in Client, Clean(c) \/ CleanerFails(c) PROVE NamesOK'
  <2>1. UNCHANGED <<wire, made, listed, srgt, xfer, dirties>>
    BY <1>11 DEF Clean, CleanerTake, CleanerExit, CleanerReturns, CleanerFails,
                 owner
  <2> QED  BY <2>1 DEF NamesOK
<1>12. ASSUME NEW c \in Client, DeadLocation(c) PROVE NamesOK'
  <2>1. /\ UNCHANGED <<made, xfer, srgt, dirties>>
        /\ wire' = wire \/ wire' = NullT
        /\ listed' = [listed EXCEPT ![c] = {}]
    BY <1>12 DEF DeadLocation, CheckedRemove, client
  <2>2. \A d \in Client : listed'[d] \subseteq listed[d]
    BY <1>t, <2>1
  <2> QED  BY <2>1, <2>2 DEF NamesOK
<1>13. ASSUME NEW c \in Client, Crash(c) PROVE NamesOK'
  <2>1. /\ UNCHANGED <<wire, made, listed, dirties>>
        /\ srgt' = [srgt EXCEPT ![c] = [w \in Wire |-> "none"]]
    BY <1>13 DEF Crash, owner
  <2>2. SameNames
    BY <1>13 DEF Crash, SameNames
  <2>3. \A d \in Client, v \in Wire : srgt'[d][v] # "none" => srgt[d][v] # "none"
    BY <2>1 DEF TypeOK
  <2> QED  BY <2>1, <2>2, <2>3, MoveNames
<1> QED  BY <1>1, <1>2, <1>3, <1>4, <1>5, <1>6, <1>7, <1>8, <1>9, <1>10, <1>11,
            <1>12, <1>13 DEF Next, Marshal, Find

\* What a step may do to a program that runs: go on; begin a dirty call; or
\* queue a cleaning of what it has not in its table any more.
Continues(c) ==
  /\ eCount'[c] = eCount[c] /\ reg'[c] = reg[c]
  /\ Cleanings(c)' \subseteq Cleanings(c)
  /\ \A m \in dirties' : m.from = c => m \in dirties
  /\ \A w \in Wire : srgt'[c][w] # "none" => srgt[c][w] # "none"

Begins(c, w) ==
  /\ eCount'[c] = NextEventID(eCount[c])
  /\ reg'[c] = [reg[c] EXCEPT ![w] = eCount'[c]]
  /\ Cleanings(c)' \subseteq Cleanings(c)
  /\ \A m \in dirties' : m.from = c =>
       m \in dirties \/ m = [from |-> c, w |-> w, id |-> eCount'[c]]
  /\ srgt'[c] = [srgt[c] EXCEPT ![w] = "creating"]

Ends(c, w) ==
  /\ eCount'[c] = NextEventID(eCount[c]) /\ reg'[c] = reg[c]
  /\ \A b \in Cleanings(c)' :
       b \in Cleanings(c) \/ (b.w = w /\ b.id = eCount'[c])
  /\ \A m \in dirties' : m.from = c => m \in dirties
  /\ srgt'[c] = [srgt[c] EXCEPT ![w] = "none"]

Goes(c) == Continues(c) \/ \E w \in Wire : Begins(c, w) \/ Ends(c, w)

LEMMA QuietPrograms ==
  ASSUME UNCHANGED <<eCount, reg, queue, cleaner, srgt>>,
         cleans' \subseteq cleans, dirties' \subseteq dirties,
         NEW c \in Client
  PROVE  Continues(c)
<1>1. Cleanings(c)' \subseteq Cleanings(c)
  BY DEF Cleanings
<1> QED  BY <1>1 DEF Continues

LEMMA ProgramsStep ==
  ASSUME TypeOK, NamesOK, LatestOK, [Next]_vars, NEW d \in Client
  PROVE  \/ d \in alive /\ d \in alive' /\ Goes(d)
         \/ d \notin alive' /\ \A w \in Wire : srgt'[d][w] = "none"
<1> DEFINE Goal == \/ d \in alive /\ d \in alive' /\ Goes(d)
                   \/ d \notin alive' /\ \A w \in Wire : srgt'[d][w] = "none"
<1>t. /\ listed \in [Client -> SUBSET Wire]
      /\ srgt \in [Client -> [Wire ->
           {"none", "creating", "granted", "refused", "live", "dead"}]]
      /\ reg \in [Client -> [Wire -> Event]] /\ eCount \in [Client -> Event]
      /\ \A p \in Pairs : p[2] \in Client
      /\ \A c \in Client, w \in Wire : srgt[c][w] # "none" => c \in alive
  BY ClientAssumption DEF TypeOK, LatestOK
<1>q. ASSUME alive' = alive, Goes(d),
             d \notin alive => \A w \in Wire : srgt'[d][w] # "none" => srgt[d][w] # "none"
      PROVE  Goal
  BY <1>t, <1>q
<1>r. ASSUME alive' = alive, Continues(d) PROVE Goal
  BY <1>q, <1>r DEF Goes, Continues
<1> HIDE DEF Goal
<1>1. ASSUME UNCHANGED vars PROVE Goal
  <2>1. UNCHANGED <<client, dirties, cleans, alive>>
    BY <1>1 DEF vars
  <2> QED  BY <2>1, <1>r, QuietPrograms DEF client
<1>2. ASSUME NEW p \in Pairs, Marshal(p) PROVE Goal
  <2>1. UNCHANGED <<client, dirties, cleans, alive>>
    BY <1>2 DEF Marshal, InsertAndPin, SendSurrogate, Unpin, LoseReference
  <2> QED  BY <2>1, <1>r, QuietPrograms DEF client
<1>3. ASSUME NEW p \in Pairs, FindSurrogate(p) \/ FindWait(p) PROVE Goal
  <2>1. UNCHANGED <<client, dirties, cleans, alive>>
    BY <1>3 DEF FindSurrogate, FindWait
  <2> QED  BY <2>1, <1>r, QuietPrograms DEF client
<1>4. ASSUME NEW p \in Pairs, FindCreate(p) PROVE Goal
  <2> DEFINE r == p[2]
             w == xfer[p].w
             ts == NextEventID(eCount[r])
  <2>1. /\ srgt' = [srgt EXCEPT ![r][w] = "creating"]
        /\ reg' = [reg EXCEPT ![r][w] = ts]
        /\ eCount' = [eCount EXCEPT ![r] = ts]
        /\ dirties' = dirties \cup {[from |-> r, w |-> w, id |-> ts]}
        /\ xfer[p].at = "sent" /\ r \in alive
        /\ UNCHANGED <<queue, cleaner, cleans, alive>>
    BY <1>4 DEF FindCreate, Reader
  <2>2. r \in Client /\ w \in Wire
    <3>1. w \in 1 .. made
      BY <2>1 DEF NamesOK
    <3>2. made \in Nat /\ MaxWires \in Nat /\ made <= MaxWires
      BY BoundAssumption DEF TypeOK
    <3> QED  BY <1>t, <3>1, <3>2 DEF Wire
  <2>3. \A c \in Client : Cleanings(c)' = Cleanings(c)
    BY <2>1 DEF Cleanings
  <2> HIDE DEF r, w
  <2>4. CASE d = r
    <3> DEFINE e == eCount'[d]
    <3>1. e = ts
      BY <1>t, <2>1, <2>2, <2>4
    <3>2. reg'[d] = [reg[d] EXCEPT ![w] = e] /\ srgt'[d] = [srgt[d] EXCEPT ![w] = "creating"]
      BY <1>t, <2>1, <2>2, <2>4, <3>1
    <3>3. \A m \in dirties' : m.from = d => m \in dirties \/ m = [from |-> d, w |-> w, id |-> e]
      BY <2>1, <2>4, <3>1
    <3>4. Begins(d, w)
      BY <2>3, <2>4, <3>1, <3>2, <3>3 DEF Begins
    <3> QED  BY <1>q, <2>1, <2>2, <2>4, <3>4 DEF Goes
  <2>5. CASE d # r
    <3>1. eCount'[d] = eCount[d] /\ reg'[d] = reg[d] /\ srgt'[d] = srgt[d]
      BY <1>t, <2>1, <2>5
    <3>2. Continues(d)
      BY <2>1, <2>3, <2>5, <3>1 DEF Continues
    <3> QED  BY <1>r, <2>1, <3>2
  <2> QED  BY <2>4, <2>5
<1>5. ASSUME NEW c \in Client, NEW w \in Wire, FindReturns(c, w) \/ Drop(c, w) PROVE Goal
  <2>1. /\ UNCHANGED <<eCount, reg, queue, cleaner, cleans, dirties, alive>>
        /\ srgt[c][w] # "none"
        /\ srgt' = [srgt EXCEPT ![c][w] = "live"] \/ srgt' = [srgt EXCEPT ![c][w] = "dead"]
    BY <1>5 DEF FindReturns, Drop
  <2>2. \A v \in Wire : srgt'[d][v] # "none" => srgt[d][v] # "none"
    BY <1>t, <2>1
  <2>3. Continues(d)
    BY <2>1, <2>2 DEF Continues, Cleanings
  <2> QED  BY <1>r, <2>1, <2>3
<1>6. ASSUME NEW c \in Client, NEW w \in Wire, NEW strong \in BOOLEAN,
             srgt[c][w] # "none", srgt' = [srgt EXCEPT ![c][w] = "none"],
             CleanerEnqueue(c, w, strong),
             UNCHANGED <<reg, dirties, cleans, alive>>
      PROVE  Goal
  <2> DEFINE elem == NewElem(c, w, strong)
  <2>0. UNCHANGED cleans
    BY <1>6
  <2>1. /\ eCount' = [eCount EXCEPT ![c] = elem.id]
        /\ \A a \in Client \ {c} : Cleanings(a)' = Cleanings(a)
        /\ Cleanings(c)' \subseteq Cleanings(c) \cup {elem}
    BY <1>6, <2>0, Enqueues
  <2>2. elem.w = w /\ elem.id = NextEventID(eCount[c])
    BY DEF NewElem
  <2> HIDE DEF elem
  <2>3. CASE d = c
    <3>1. eCount'[d] = NextEventID(eCount[d]) /\ srgt'[d] = [srgt[d] EXCEPT ![w] = "none"]
      BY <1>t, <1>6, <2>1, <2>2, <2>3
    <3>2. \A b \in Cleanings(d)' : b \in Cleanings(d) \/ (b.w = w /\ b.id = eCount'[d])
      BY <2>1, <2>2, <2>3, <3>1
    <3>3. Ends(d, w)
      BY <1>6, <2>3, <3>1, <3>2 DEF Ends
    <3> QED  BY <1>q, <1>t, <1>6, <2>3, <3>3 DEF Goes
  <2>4. CASE d # c
    <3>1. eCount'[d] = eCount[d] /\ srgt'[d] = srgt[d]
      BY <1>t, <1>6, <2>1, <2>4
    <3>2. Continues(d)
      BY <1>6, <2>1, <2>4, <3>1 DEF Continues
    <3> QED  BY <1>r, <1>6, <3>2
  <2> QED  BY <2>3, <2>4
<1>7. ASSUME NEW c \in Client, NEW w \in Wire, FindRaises(c, w) PROVE Goal
  BY <1>6, <1>7 DEF FindRaises, Creating
<1>8. ASSUME NEW c \in Client, NEW w \in Wire, CleanupSrgt(c, w) PROVE Goal
  BY <1>6, <1>8 DEF CleanupSrgt
<1>9. ASSUME NEW c \in Client, NEW w \in Wire, CleanupStale(c, w) PROVE Goal
  BY <1>9, <1>r, QuietPrograms DEF CleanupStale
<1>10. ASSUME NEW m \in dirties, AgentDirty(m) PROVE Goal
  <2>1. /\ UNCHANGED <<eCount, reg, queue, cleaner, cleans, alive>>
        /\ dirties' \subseteq dirties
        /\ srgt' = Answered(m, "refused") \/ srgt' = Answered(m, "granted")
    BY <1>10 DEF AgentDirty
  <2>2. \A v \in Wire : srgt'[d][v] # "none" => srgt[d][v] # "none"
    BY <2>1, AnswerTypes
  <2>3. Continues(d)
    BY <2>1, <2>2 DEF Continues, Cleanings
  <2> QED  BY <1>r, <2>1, <2>3
<1>11. ASSUME NEW m \in dirties, LoseDirty(m) PROVE Goal
  BY <1>11, <1>r, QuietPrograms DEF LoseDirty, client
<1>12. ASSUME NEW m \in cleans, AgentClean(m) PROVE Goal
  <2>1. /\ UNCHANGED <<eCount, reg, queue, srgt, dirties, alive>>
        /\ cleans' \subseteq cleans
        /\ cleaner' = cleaner \/ cleaner' = [cleaner EXCEPT ![m.from].st = "answered"]
    BY <1>12 DEF AgentClean
  <2>2. cleaner'[d].batch = cleaner[d].batch
    <3>1. cleaner \in [Client -> CleanerThread]
      BY DEF TypeOK, CleanerThread
    <3>2. [cleaner[d] EXCEPT !.st = "answered"].batch = cleaner[d].batch
      BY <3>1 DEF CleanerThread
    <3>3. \/ cleaner'[d] = cleaner[d]
          \/ cleaner'[d] = [cleaner[d] EXCEPT !.st = "answered"]
      BY <2>1, <3>1
    <3> QED  BY <3>2, <3>3
  <2>3. Continues(d)
    BY <2>1, <2>2 DEF Continues, Cleanings
  <2> QED  BY <1>r, <2>1, <2>3
<1>13. ASSUME NEW m \in cleans, LoseClean(m) PROVE Goal
  BY <1>13, <1>r, QuietPrograms DEF LoseClean, client
<1>14. ASSUME NEW c \in Client, Clean(c) \/ CleanerFails(c) PROVE Goal
  <2>1. UNCHANGED <<eCount, reg, srgt, dirties, alive>>
    BY <1>14 DEF Clean, CleanerTake, CleanerExit, CleanerReturns, CleanerFails
  <2>2. Cleanings(d)' \subseteq Cleanings(d)
    BY <1>14, CleanersStep
  <2>3. Continues(d)
    BY <2>1, <2>2 DEF Continues
  <2> QED  BY <1>r, <2>1, <2>3
<1>15. ASSUME NEW c \in Client, DeadLocation(c) PROVE Goal
  <2>1. UNCHANGED <<client, dirties, cleans, alive>>
    BY <1>15 DEF DeadLocation
  <2> QED  BY <2>1, <1>r, QuietPrograms DEF client
<1>16. ASSUME NEW c \in Client, Crash(c) PROVE Goal
  <2>1. /\ srgt' = [srgt EXCEPT ![c] = [w \in Wire |-> "none"]]
        /\ reg' = [reg EXCEPT ![c] = [w \in Wire |-> <<0, 0>>]]
        /\ eCount' = [eCount EXCEPT ![c] = <<0, 0>>]
        /\ queue' = [queue EXCEPT ![c] = <<>>]
        /\ cleaner' = [cleaner EXCEPT ![c] = NoCleaner]
        /\ alive' = alive \ {c}
        /\ UNCHANGED <<dirties, cleans>>
    BY <1>16 DEF Crash
  <2>2. CASE d = c
    BY <1>t, <2>1, <2>2 DEF Goal
  <2>3. CASE d # c
    <3>1. /\ eCount'[d] = eCount[d] /\ reg'[d] = reg[d] /\ srgt'[d] = srgt[d]
          /\ queue'[d] = queue[d] /\ cleaner'[d] = cleaner[d]
      BY <1>t, <2>1, <2>3 DEF TypeOK
    <3>2. Continues(d)
      BY <2>1, <3>1 DEF Continues, Cleanings
    <3> QED  BY <1>t, <2>1, <2>3, <3>1, <3>2 DEF Goal, Goes
  <2> QED  BY <2>2, <2>3
<1>17. ASSUME NEW p \in Pairs, Find(p) PROVE Goal
  BY <1>3, <1>4, <1>17 DEF Find
<1>18. ASSUME NEW c \in Client, NEW w \in Wire,
              \/ FindReturns(c, w) \/ FindRaises(c, w)
              \/ Drop(c, w) \/ CleanupSrgt(c, w) \/ CleanupStale(c, w)
       PROVE  Goal
  BY <1>5, <1>7, <1>8, <1>9, <1>18
<1>19. Goal
  BY <1>1, <1>2, <1>10, <1>11, <1>12, <1>13, <1>14, <1>15, <1>16, <1>17, <1>18
  DEF Next
<1> QED  BY <1>19 DEF Goal

\* What a step does to the entries that the owner keeps for a program: an
\* entry stays as it is, or tells of a dirty call or of a clean call.
Stays(c, w) == w \in listed[c] /\ exports'[c][w] = exports[c][w]

Granted(c, w) ==
  /\ w = wire /\ wire' = wire /\ exports'[c][w].dirty
  /\ \E m \in dirties : /\ m.from = c /\ m.w = w /\ exports'[c][w].ts = m.id
                        /\ ~Refuses(c, w, m.id) /\ AgentDirty(m)

Kept(c, w) ==
  /\ w = wire /\ w \in listed[c]
  /\ ~exports'[c][w].dirty /\ exports'[c][w].keep
  /\ \E m \in cleans, b \in CleanElem :
       /\ m.from = c /\ b \in Elems(m.batch) /\ b.w = w
       /\ exports'[c][w].ts = b.id /\ EventLT(exports[c][w].ts, b.id)

LEMMA EntriesStep ==
  ASSUME TypeOK, [Next]_vars, NEW c \in Client, NEW w \in listed'[c]
  PROVE  Stays(c, w) \/ Granted(c, w) \/ Kept(c, w)
<1> DEFINE Goal == Stays(c, w) \/ Granted(c, w) \/ Kept(c, w)
<1>t. /\ listed \in [Client -> SUBSET Wire]
      /\ exports \in [Client -> [Wire -> DirtyElem]]
  BY DEF TypeOK
<1>u. ASSUME UNCHANGED <<listed, exports>> PROVE Goal
  BY <1>u DEF Stays
<1> HIDE DEF Goal
<1>1. ASSUME UNCHANGED vars PROVE Goal
  BY <1>1, <1>u DEF vars, owner
<1>2. ASSUME NEW p \in Pairs, Marshal(p) \/ Find(p) PROVE Goal
  <2>1. UNCHANGED <<listed, exports>>
    BY <1>2 DEF Marshal, InsertAndPin, SendSurrogate, Unpin, LoseReference, Find,
                FindSurrogate, FindWait, FindCreate, owner
  <2> QED  BY <1>u, <2>1
<1>3. ASSUME NEW d \in Client, NEW v \in Wire,
             \/ FindReturns(d, v) \/ FindRaises(d, v)
             \/ Drop(d, v) \/ CleanupSrgt(d, v) \/ CleanupStale(d, v)
      PROVE  Goal
  <2>1. UNCHANGED <<listed, exports>>
    BY <1>3 DEF FindReturns, FindRaises, Drop, CleanupSrgt, CleanupStale, owner
  <2> QED  BY <1>u, <2>1
<1>4. ASSUME NEW m \in dirties, AgentDirty(m) PROVE Goal
  <2>1. m.from \in Client /\ m.w \in Wire
    BY DEF TypeOK
  <2>2. CASE UNCHANGED <<listed, exports>>
    BY <1>u, <2>2
  <2>3. CASE ~Refuses(m.from, m.w, m.id) /\ ~UNCHANGED <<listed, exports>>
    <3> DEFINE de == [dirty |-> TRUE,
                      keep |-> m.w \in listed[m.from] /\ exports[m.from][m.w].keep,
                      ts |-> m.id]
    <3>1. /\ listed' = [listed EXCEPT ![m.from] = @ \cup {m.w}]
          /\ exports' = [exports EXCEPT ![m.from][m.w] = de]
          /\ UNCHANGED wire /\ m.w = wire
      BY <1>4, <2>3 DEF AgentDirty, Refuses
    <3>2. de.dirty /\ de.ts = m.id
      OBVIOUS
    <3> HIDE DEF de
    <3>3. CASE c = m.from /\ w = m.w
      <4>1. exports'[c][w] = de
        BY <1>t, <2>1, <3>1, <3>3
      <4>2. Granted(c, w)
        BY <1>4, <2>3, <3>1, <3>2, <3>3, <4>1 DEF Granted
      <4> QED  BY <4>2 DEF Goal
    <3>4. CASE ~(c = m.from /\ w = m.w)
      <4>1. exports'[c][w] = exports[c][w] /\ w \in listed[c]
        BY <1>t, <2>1, <3>1, <3>4
      <4> QED  BY <4>1 DEF Goal, Stays
    <3> QED  BY <3>3, <3>4
  <2> QED  BY <1>4, <2>2, <2>3 DEF AgentDirty
<1>5. ASSUME NEW m \in cleans, AgentClean(m) PROVE Goal
  <2>1. m.from \in Client
    BY DEF TypeOK
  <2>2. CASE Fresh(m) = {}
    BY <1>5, <1>u, <2>2 DEF AgentClean
  <2>3. CASE Fresh(m) # {}
    <3>1. PICK i \in Fresh(m) : CleanEffect(m, i)
      BY <1>5, <2>3, CleanHandled
    <3> DEFINE b == m.batch[i]
               de == [dirty |-> FALSE, keep |-> TRUE, ts |-> b.id]
    <3>2. /\ b \in Elems(m.batch) /\ b \in CleanElem /\ b.w = wire
          /\ wire \in Wire /\ wire \in listed[m.from]
          /\ EventLT(exports[m.from][wire].ts, b.id)
          /\ \/ exports' = [exports EXCEPT ![m.from][wire] = de] /\ UNCHANGED listed
             \/ listed' = [listed EXCEPT ![m.from] = @ \ {wire}] /\ UNCHANGED exports
      BY <3>1 DEF CleanEffect
    <3>3. ~de.dirty /\ de.keep /\ de.ts = b.id
      OBVIOUS
    <3> HIDE DEF de, b
    <3>4. w \in listed[c]
      BY <1>t, <2>1, <3>2
    <3>5. CASE exports'[c][w] = exports[c][w]
      BY <3>4, <3>5 DEF Goal, Stays
    <3>6. CASE exports'[c][w] # exports[c][w]
      <4>1. c = m.from /\ w = wire /\ exports'[c][w] = de
        BY <1>t, <2>1, <3>2, <3>4, <3>6
      <4>2. Kept(c, w)
        BY <3>2, <3>3, <4>1 DEF Kept
      <4> QED  BY <4>2 DEF Goal
    <3> QED  BY <3>5, <3>6
  <2> QED  BY <2>2, <2>3
<1>6. ASSUME NEW m, LoseDirty(m) \/ LoseClean(m) PROVE Goal
  <2>1. UNCHANGED <<listed, exports>>
    BY <1>6 DEF LoseDirty, LoseClean, owner
  <2> QED  BY <1>u, <2>1
<1>7. ASSUME NEW d \in Client, Clean(d) \/ CleanerFails(d) \/ Crash(d) PROVE Goal
  <2>1. UNCHANGED <<listed, exports>>
    BY <1>7 DEF Clean, CleanerTake, CleanerExit, CleanerReturns, CleanerFails,
                Crash, owner
  <2> QED  BY <1>u, <2>1
<1>8. ASSUME NEW d \in Client, DeadLocation(d) PROVE Goal
  <2>1. listed' = [listed EXCEPT ![d] = {}] /\ UNCHANGED exports
    BY <1>8 DEF DeadLocation
  <2>2. w \in listed[c]
    BY <1>t, <2>1
  <2> QED  BY <2>1, <2>2 DEF Goal, Stays
<1>9. Goal
  BY <1>1, <1>2, <1>3, <1>4, <1>5, <1>6, <1>7, <1>8 DEF Next
<1> QED  BY <1>9 DEF Goal

\* Cleanings are elements of queues.
LEMMA CleaningsTyped ==
  ASSUME TypeOK, NEW c \in Client PROVE Cleanings(c) \subseteq CleanElem
<1>1. /\ queue[c] \in Seq(CleanElem) /\ cleaner[c].batch \in Seq(CleanElem)
      /\ \A m \in cleans : m.batch \in Seq(CleanElem)
  BY DEF TypeOK
<1>2. \A q \in Seq(CleanElem) : Elems(q) \subseteq CleanElem
  BY QueueFacts
<1> HIDE DEF Elems
<1> QED  BY <1>1, <1>2 DEF Cleanings

LEMMA EventsStep ==
  ASSUME TypeOK, TypeOK', NamesOK, EventsOK, LatestOK, [Next]_vars
  PROVE  EventsOK'
<1> SUFFICES ASSUME NEW c \in alive'
             PROVE  /\ \A m \in dirties' : m.from = c => EventLE(m.id, eCount'[c])
                    /\ \A b \in Cleanings(c)' : EventLE(b.id, eCount'[c])
                    /\ \A w \in Wire : EventLE(reg'[c][w], eCount'[c])
                    /\ \A w \in listed'[c] : EventLE(exports'[c][w].ts, eCount'[c])
  BY DEF EventsOK
<1>1. /\ c \in Client
      /\ eCount[c] \in Event /\ eCount'[c] \in Event
      /\ \A w \in Wire : reg[c][w] \in Event
      /\ \A w \in Wire : exports[c][w].ts \in Event
      /\ \A m \in dirties : m.id \in Event
      /\ listed[c] \subseteq Wire /\ listed'[c] \subseteq Wire
      /\ reg[c] \in [Wire -> Event]
  BY DEF TypeOK, DirtyElem
<1>2. c \in alive /\ Goes(c)
  BY <1>1, ProgramsStep
<1>3. Cleanings(c) \subseteq CleanElem
  BY <1>1, CleaningsTyped
<1>4. eCount'[c] = eCount[c] \/ eCount'[c] = NextEventID(eCount[c])
  BY <1>2 DEF Goes, Continues, Begins, Ends
<1>5. EventLE(eCount[c], eCount'[c]) /\ EventLE(eCount'[c], eCount'[c])
  BY <1>1, <1>4, NextEvent, EventOrder DEF EventLT
<1>6. \A e \in Event : EventLE(e, eCount[c]) => EventLE(e, eCount'[c])
  BY <1>1, <1>5, EventOrder
<1>7. /\ \A m \in dirties : m.from = c => EventLE(m.id, eCount[c])
      /\ \A b \in Cleanings(c) : EventLE(b.id, eCount[c])
      /\ \A w \in Wire : EventLE(reg[c][w], eCount[c])
      /\ \A w \in listed[c] : EventLE(exports[c][w].ts, eCount[c])
  BY <1>2 DEF EventsOK
<1>8. \A m \in dirties' : m.from = c => EventLE(m.id, eCount'[c])
  <2>1. \A m \in dirties' : m.from = c => m \in dirties \/ m.id = eCount'[c]
    <3>1. CASE Continues(c)
      BY <3>1 DEF Continues
    <3>2. ASSUME NEW w \in Wire, Begins(c, w)
          PROVE  \A m \in dirties' : m.from = c => m \in dirties \/ m.id = eCount'[c]
      BY <3>2 DEF Begins
    <3>3. ASSUME NEW w \in Wire, Ends(c, w)
          PROVE  \A m \in dirties' : m.from = c => m \in dirties
      BY <3>3 DEF Ends
    <3> QED  BY <1>2, <3>1, <3>2, <3>3 DEF Goes
  <2> QED  BY <1>1, <1>5, <1>6, <1>7, <2>1
<1>9. \A b \in Cleanings(c)' : EventLE(b.id, eCount'[c])
  <2>1. \A b \in Cleanings(c)' : b \in Cleanings(c) \/ b.id = eCount'[c]
    BY <1>2 DEF Goes, Continues, Begins, Ends
  <2>2. \A b \in Cleanings(c) : b.id \in Event
    BY <1>3 DEF CleanElem
  <2> QED  BY <1>5, <1>6, <1>7, <2>1, <2>2
<1>10. \A w \in Wire : EventLE(reg'[c][w], eCount'[c])
  <2>1. \A w \in Wire : reg'[c][w] = reg[c][w] \/ reg'[c][w] = eCount'[c]
    BY <1>1, <1>2 DEF Goes, Continues, Begins, Ends
  <2> QED  BY <1>1, <1>5, <1>6, <1>7, <2>1
<1>11. ASSUME NEW w \in listed'[c] PROVE EventLE(exports'[c][w].ts, eCount'[c])
  <2>1. w \in Wire
    BY <1>1
  <2>2. CASE Stays(c, w)
    BY <1>1, <1>6, <1>7, <2>1, <2>2 DEF Stays
  <2>3. CASE Granted(c, w)
    BY <1>1, <1>6, <1>7, <2>3 DEF Granted
  <2>4. CASE Kept(c, w)
    <3>1. PICK m \in cleans, b \in CleanElem :
            m.from = c /\ b \in Elems(m.batch) /\ exports'[c][w].ts = b.id
      BY <2>4 DEF Kept
    <3>2. b \in Cleanings(c) /\ b.id \in Event
      BY <3>1 DEF Cleanings, CleanElem
    <3> QED  BY <1>6, <1>7, <3>1, <3>2
  <2> QED  BY <1>1, <2>2, <2>3, <2>4, EntriesStep
<1> QED  BY <1>8, <1>9, <1>10, <1>11

LEMMA LatestStep ==
  ASSUME TypeOK, TypeOK', NamesOK, EventsOK, LatestOK, [Next]_vars
  PROVE  LatestOK'
<1> SUFFICES ASSUME NEW c \in Client, NEW w \in Wire, srgt'[c][w] # "none"
             PROVE  /\ c \in alive'
                    /\ \A m \in dirties' :
                         m.from = c /\ m.w = w => EventLE(m.id, reg'[c][w])
                    /\ \A b \in Cleanings(c)' : b.w = w => EventLE(b.id, reg'[c][w])
  BY DEF LatestOK
<1>1. c \in alive /\ c \in alive' /\ Goes(c)
  BY ProgramsStep
<1>2. /\ eCount[c] \in Event /\ reg[c] \in [Wire -> Event]
      /\ srgt[c] \in [Wire ->
           {"none", "creating", "granted", "refused", "live", "dead"}]
      /\ \A m \in dirties : m.id \in Event
      /\ \A b \in Cleanings(c) : b.id \in Event
  <2>1. Cleanings(c) \subseteq CleanElem
    BY CleaningsTyped
  <2>2. \A b \in Cleanings(c) : b.id \in Event
    BY <2>1 DEF CleanElem
  <2> QED  BY <2>2 DEF TypeOK
<1>3. srgt[c][w] # "none" =>
        /\ \A m \in dirties : m.from = c /\ m.w = w => EventLE(m.id, reg[c][w])
        /\ \A b \in Cleanings(c) : b.w = w => EventLE(b.id, reg[c][w])
  BY DEF LatestOK
<1>4. CASE Continues(c)
  BY <1>1, <1>3, <1>4 DEF Continues
<1>5. ASSUME NEW v \in Wire, Begins(c, v), v # w
      PROVE  /\ \A m \in dirties' :
                  m.from = c /\ m.w = w => EventLE(m.id, reg'[c][w])
             /\ \A b \in Cleanings(c)' : b.w = w => EventLE(b.id, reg'[c][w])
  <2>1. reg'[c][w] = reg[c][w] /\ srgt'[c][w] = srgt[c][w]
    BY <1>2, <1>5 DEF Begins
  <2>2. \A m \in dirties' : m.from = c /\ m.w = w => m \in dirties
    BY <1>5 DEF Begins
  <2> QED  BY <1>3, <1>5, <2>1, <2>2 DEF Begins
<1>6. ASSUME Begins(c, w)
      PROVE  /\ \A m \in dirties' :
                  m.from = c /\ m.w = w => EventLE(m.id, reg'[c][w])
             /\ \A b \in Cleanings(c)' : b.w = w => EventLE(b.id, reg'[c][w])
  <2>1. reg'[c][w] = eCount'[c] /\ eCount'[c] = NextEventID(eCount[c])
    BY <1>2, <1>6 DEF Begins
  <2>2. /\ eCount'[c] \in Event
        /\ \A e \in Event : EventLE(e, eCount[c]) => EventLE(e, eCount'[c])
        /\ EventLE(eCount'[c], eCount'[c])
    BY <1>2, <2>1, NextEvent, EventOrder DEF EventLT
  <2>3. \A m \in dirties' : m.from = c => m \in dirties \/ m.id = eCount'[c]
    BY <1>6 DEF Begins
  <2>4. \A b \in Cleanings(c)' : b \in Cleanings(c)
    BY <1>6 DEF Begins
  <2>5. /\ \A m \in dirties : m.from = c => EventLE(m.id, eCount[c])
        /\ \A b \in Cleanings(c) : EventLE(b.id, eCount[c])
    BY <1>1 DEF EventsOK
  <2> QED  BY <1>2, <2>1, <2>2, <2>3, <2>4, <2>5
<1>7. ASSUME NEW v \in Wire, Ends(c, v)
      PROVE  /\ \A m \in dirties' :
                  m.from = c /\ m.w = w => EventLE(m.id, reg'[c][w])
             /\ \A b \in Cleanings(c)' : b.w = w => EventLE(b.id, reg'[c][w])
  <2>1. v # w /\ srgt'[c][w] = srgt[c][w] /\ reg'[c][w] = reg[c][w]
    BY <1>2, <1>7 DEF Ends
  <2> QED  BY <1>3, <1>7, <2>1 DEF Ends
<1> QED  BY <1>1, <1>4, <1>5, <1>6, <1>7, <1>3 DEF Goes, Continues

-----------------------------------------------------------------------------
(* The pin count.                                                          *)

\* The locations that are dirty for the name w.
DirtyAt(w) == {c \in Client : Dirty(c, w)}

LEMMA PinSets ==
  /\ IsFiniteSet(Client) /\ IsFiniteSet(Pairs) /\ IsFiniteSet(Pinned)
  /\ \A w : IsFiniteSet(DirtyAt(w))
<1>1. IsFiniteSet(Client) /\ Pairs \subseteq (Client \cup {Owner}) \X Client
  BY ClientAssumption
<1>2. IsFiniteSet(Client \cup {Owner})
  BY <1>1, FS_AddElement
<1>3. IsFiniteSet((Client \cup {Owner}) \X Client)
  BY <1>1, <1>2, FS_Product
<1>4. IsFiniteSet(Pairs)
  BY <1>1, <1>3, FS_Subset
<1>5. IsFiniteSet(Pinned)
  BY <1>4, FS_Subset DEF Pinned
<1>6. \A w : DirtyAt(w) \subseteq Client
  BY DEF DirtyAt
<1> QED  BY <1>1, <1>4, <1>5, <1>6, FS_Subset

\* A marshalling of the owner keeps its name, and stays pinned until the owner
\* unpins it.
SamePins ==
  \A p \in Pairs :
    p[1] = Owner => /\ xfer'[p].pinned = xfer[p].pinned
                    /\ xfer'[p].w = xfer[p].w

LEMMA PinsOfOthers ==
  ASSUME TypeOK, [Next]_vars
  PROVE  \/ SamePins
         \/ \E p \in Pairs : p[1] = Owner /\ (InsertAndPin(p) \/ Unpin(p))
<1>t. xfer \in [Pairs -> [w : Wire \cup {NullT}, pinned : BOOLEAN, at : At]]
  BY DEF TypeOK
<1>u. ASSUME UNCHANGED xfer PROVE SamePins
  BY <1>u DEF SamePins
<1>m. ASSUME NEW p \in Pairs, NEW at, xfer' = [xfer EXCEPT ![p].at = at]
      PROVE  SamePins
  BY <1>t, <1>m DEF SamePins
<1>1. ASSUME UNCHANGED vars PROVE SamePins
  BY <1>1 DEF vars, SamePins
<1>2. ASSUME NEW p \in Pairs, Marshal(p),
             ~(p[1] = Owner /\ (InsertAndPin(p) \/ Unpin(p)))
      PROVE  SamePins
  <2>1. CASE LoseReference(p)
    BY <1>m, <2>1 DEF LoseReference
  <2>2. ASSUME NEW w \in Wire, SendSurrogate(p, w) PROVE SamePins
    <3>1. p[1] # Owner
      BY <2>2, ClientAssumption DEF SendSurrogate, TypeOK
    <3> QED  BY <1>t, <2>2, <3>1 DEF SendSurrogate, Sends, SamePins
  <2>3. CASE Unpin(p)
    BY <1>t, <1>2, <2>3 DEF Unpin, SamePins
  <2> QED  BY <1>2, <2>1, <2>2, <2>3 DEF Marshal, InsertAndPin
<1>3. ASSUME NEW p \in Pairs, Find(p) PROVE SamePins
  BY <1>3, <1>m DEF Find, FindSurrogate, FindWait, FindCreate
<1>4. ASSUME NEW c \in Client, NEW w \in Wire,
             \/ FindReturns(c, w) \/ FindRaises(c, w)
             \/ Drop(c, w) \/ CleanupSrgt(c, w) \/ CleanupStale(c, w)
      PROVE  SamePins
  <2>1. CASE xfer' = Broadcast(c, w)
    <3> SUFFICES ASSUME NEW p \in Pairs
                 PROVE  xfer'[p].pinned = xfer[p].pinned /\ xfer'[p].w = xfer[p].w
      BY DEF SamePins
    <3>1. \/ xfer'[p] = [xfer[p] EXCEPT !.at = "idle"]
          \/ xfer'[p] = [xfer[p] EXCEPT !.at = "sent"]
          \/ xfer'[p] = xfer[p]
      BY <2>1 DEF Broadcast
    <3> QED  BY <1>t, <3>1
  <2> QED  BY <1>4, <1>u, <2>1
           DEF FindReturns, FindRaises, Drop, CleanupSrgt, CleanupStale
<1>5. ASSUME NEW m \in dirties, AgentDirty(m) \/ LoseDirty(m) PROVE SamePins
  BY <1>5, <1>u DEF AgentDirty, LoseDirty
<1>6. ASSUME NEW m \in cleans, AgentClean(m) \/ LoseClean(m) PROVE SamePins
  BY <1>6, <1>u DEF AgentClean, LoseClean
<1>7. ASSUME NEW c \in Client, Clean(c) \/ CleanerFails(c) \/ DeadLocation(c)
      PROVE  SamePins
  BY <1>7, <1>u DEF Clean, CleanerTake, CleanerExit, CleanerReturns,
                    CleanerFails, DeadLocation
<1>8. ASSUME NEW c \in Client, Crash(c) PROVE SamePins
  <2>1. c # Owner
    BY ClientAssumption
  <2>2. \A p \in Pairs : /\ xfer'[p].pinned = (xfer[p].pinned /\ p[1] # c)
                        /\ xfer'[p].w = xfer[p].w
    BY <1>8 DEF Crash
  <2> QED  BY <1>t, <2>1, <2>2 DEF SamePins
<1> QED  BY <1>1, <1>2, <1>3, <1>4, <1>5, <1>6, <1>7, <1>8 DEF Next

\* The owner's tables change only in marshalling and in the calls it serves.
LEMMA OwnerStep ==
  ASSUME [Next]_vars
  PROVE  \/ UNCHANGED owner
         \/ \E p \in Pairs : p[1] = Owner /\ (InsertAndPin(p) \/ Unpin(p))
         \/ \E m \in dirties : AgentDirty(m) /\ ~Refuses(m.from, m.w, m.id)
         \/ \E m \in cleans : AgentClean(m) /\ Fresh(m) # {}
         \/ \E c \in Client : DeadLocation(c)
<1>1. ASSUME UNCHANGED vars PROVE UNCHANGED owner
  BY <1>1 DEF vars
<1>2. ASSUME NEW p \in Pairs, Marshal(p),
             ~(p[1] = Owner /\ (InsertAndPin(p) \/ Unpin(p)))
      PROVE  UNCHANGED owner
  BY <1>2 DEF Marshal, InsertAndPin, Unpin, SendSurrogate, LoseReference, owner
<1>3. ASSUME NEW p \in Pairs, Find(p) PROVE UNCHANGED owner
  BY <1>3 DEF Find, FindSurrogate, FindWait, FindCreate
<1>4. ASSUME NEW c \in Client, NEW w \in Wire,
             \/ FindReturns(c, w) \/ FindRaises(c, w)
             \/ Drop(c, w) \/ CleanupSrgt(c, w) \/ CleanupStale(c, w)
      PROVE  UNCHANGED owner
  BY <1>4 DEF FindReturns, FindRaises, Drop, CleanupSrgt, CleanupStale
<1>5. ASSUME NEW m \in dirties, AgentDirty(m) \/ LoseDirty(m)
      PROVE  \/ UNCHANGED owner
             \/ AgentDirty(m) /\ ~Refuses(m.from, m.w, m.id)
  BY <1>5 DEF AgentDirty, LoseDirty, owner
<1>6. ASSUME NEW m \in cleans, AgentClean(m) \/ LoseClean(m)
      PROVE  \/ UNCHANGED owner
             \/ AgentClean(m) /\ Fresh(m) # {}
  BY <1>6 DEF AgentClean, LoseClean, owner
<1>7. ASSUME NEW c \in Client, Clean(c) \/ CleanerFails(c) \/ Crash(c)
      PROVE  UNCHANGED owner
  BY <1>7 DEF Clean, CleanerTake, CleanerExit, CleanerReturns, CleanerFails, Crash
<1> QED  BY <1>1, <1>2, <1>3, <1>4, <1>5, <1>6, <1>7 DEF Next

\* While the object is in the table its pin count stays the number of those
\* who pin it, and it is let go just when that is zero.
Recounted(w) ==
  /\ pinCount' = Cardinality(DirtyAt(w)') + Cardinality(Pinned')
  /\ pinCount' \in Nat
  /\ IF pinCount' = 0 THEN wire' = NullT ELSE wire' = w
  /\ UNCHANGED made

LEMMA Recount ==
  ASSUME TypeOK, NamesOK, PinsCounted, NeverDies, [Next]_vars,
         NEW w \in Wire, wire = w
  PROVE  Recounted(w)
<1>t. /\ listed \in [Client -> SUBSET Wire]
      /\ exports \in [Client -> [Wire -> DirtyElem]]
      /\ xfer \in [Pairs -> [w : Wire \cup {NullT}, pinned : BOOLEAN, at : At]]
  BY DEF TypeOK
<1>n. /\ Cardinality(DirtyAt(w)) \in Nat /\ Cardinality(Pinned) \in Nat
      /\ pinCount = Cardinality(DirtyAt(w)) + Cardinality(Pinned)
      /\ pinCount # 0 /\ NullT # w
  <2>1. Cardinality(DirtyAt(w)) \in Nat /\ Cardinality(Pinned) \in Nat
    BY PinSets, FS_CardinalityType
  <2>2. pinCount = Cardinality(DirtyAt(w)) + Cardinality(Pinned)
    BY DEF PinsCounted, DirtyAt
  <2>3. NullT # w /\ pinCount # 0
    BY DEF PinsCounted, NullT, Wire
  <2> QED  BY <2>1, <2>2, <2>3
<1>s. SamePins => Pinned' = Pinned
  BY DEF SamePins, Pinned
<1>1. CASE UNCHANGED owner /\ SamePins
  <2>1. DirtyAt(w)' = DirtyAt(w)
    BY <1>1 DEF owner, DirtyAt, Dirty
  <2> QED  BY <1>1, <1>n, <1>s, <2>1 DEF owner, Recounted
<1>2. ASSUME NEW p \in Pairs, p[1] = Owner, InsertAndPin(p) PROVE Recounted(w)
  <2>1. /\ pinCount' = pinCount + 1
        /\ UNCHANGED <<wire, made, listed, exports>>
        /\ ~xfer[p].pinned
        /\ xfer' = [xfer EXCEPT ![p] = [w |-> w, pinned |-> TRUE, at |-> "sent"]]
    BY <1>2, <1>n DEF InsertAndPin, Sends, Pin
  <2>2. DirtyAt(w)' = DirtyAt(w)
    BY <2>1 DEF DirtyAt, Dirty
  <2>3. Pinned' = Pinned \cup {p} /\ p \notin Pinned
    BY <1>t, <1>2, <2>1 DEF Pinned
  <2>4. Cardinality(Pinned') = Cardinality(Pinned) + 1
    BY <2>3, PinSets, FS_AddElement
  <2> QED  BY <1>n, <2>1, <2>2, <2>4 DEF Recounted
<1>3. ASSUME NEW p \in Pairs, p[1] = Owner, Unpin(p) PROVE Recounted(w)
  <2>1. /\ pinCount' = pinCount - 1 /\ CheckedRemove
        /\ UNCHANGED <<made, listed, exports>>
        /\ xfer[p].pinned
        /\ xfer' = [xfer EXCEPT ![p].pinned = FALSE]
    BY <1>3 DEF Unpin
  <2>2. DirtyAt(w)' = DirtyAt(w)
    BY <2>1 DEF DirtyAt, Dirty
  <2>3. Pinned' = Pinned \ {p} /\ p \in Pinned
    BY <1>t, <1>3, <2>1 DEF Pinned
  <2>4. Cardinality(Pinned') = Cardinality(Pinned) - 1 /\ Cardinality(Pinned') \in Nat
    BY <2>3, PinSets, FS_RemoveElement, FS_CardinalityType
  <2> QED  BY <1>n, <2>1, <2>2, <2>4 DEF Recounted, CheckedRemove
<1>4. ASSUME NEW m \in dirties, AgentDirty(m), ~Refuses(m.from, m.w, m.id), SamePins
      PROVE  Recounted(w)
  <2> DEFINE c == m.from
             de == [dirty |-> TRUE, keep |-> m.w \in listed[c] /\ exports[c][m.w].keep,
                    ts |-> m.id]
  <2>1. /\ c \in Client /\ m.w = w
        /\ listed' = [listed EXCEPT ![c] = @ \cup {w}]
        /\ exports' = [exports EXCEPT ![c][w] = de]
        /\ pinCount' = IF Dirty(c, w) THEN pinCount ELSE pinCount + 1
        /\ UNCHANGED <<wire, made>>
    BY <1>4 DEF AgentDirty, Refuses, TypeOK, Pin
  <2>2. de.dirty
    OBVIOUS
  <2> HIDE DEF de, c
  <2>3. DirtyAt(w)' = DirtyAt(w) \cup {c}
    BY <1>t, <2>1, <2>2 DEF DirtyAt, Dirty
  <2>4. CASE Dirty(c, w)
    <3>1. DirtyAt(w)' = DirtyAt(w)
      BY <2>1, <2>3, <2>4 DEF DirtyAt
    <3> QED  BY <1>4, <1>n, <1>s, <2>1, <2>4, <3>1 DEF Recounted
  <2>5. CASE ~Dirty(c, w)
    <3>1. c \notin DirtyAt(w)
      BY <2>5 DEF DirtyAt
    <3>2. Cardinality(DirtyAt(w)') = Cardinality(DirtyAt(w)) + 1
      BY <2>3, <3>1, PinSets, FS_AddElement
    <3> QED  BY <1>4, <1>n, <1>s, <2>1, <2>5, <3>2 DEF Recounted
  <2> QED  BY <2>4, <2>5
<1>5. ASSUME NEW m \in cleans, AgentClean(m), Fresh(m) # {}, SamePins
      PROVE  Recounted(w)
  <2>1. PICK i \in Fresh(m) : CleanEffect(m, i)
    BY <1>5, CleanHandled
  <2> DEFINE c == m.from
             de == [dirty |-> FALSE, keep |-> TRUE, ts |-> m.batch[i].id]
  <2>2. /\ c \in Client /\ w \in listed[c] /\ UNCHANGED made
        /\ \/ exports' = [exports EXCEPT ![c][w] = de] /\ UNCHANGED listed
           \/ listed' = [listed EXCEPT ![c] = @ \ {w}] /\ UNCHANGED exports
        /\ IF exports[c][w].dirty THEN pinCount' = pinCount - 1 /\ CheckedRemove
           ELSE UNCHANGED <<pinCount, wire>>
    BY <1>5, <2>1 DEF CleanEffect, AgentClean, TypeOK
  <2>3. ~de.dirty
    OBVIOUS
  <2> HIDE DEF de, c
  <2>4. DirtyAt(w)' = DirtyAt(w) \ {c}
    BY <1>t, <2>2, <2>3 DEF DirtyAt, Dirty
  <2>5. CASE exports[c][w].dirty
    <3>1. c \in DirtyAt(w)
      BY <2>2, <2>5 DEF DirtyAt, Dirty
    <3>2. /\ Cardinality(DirtyAt(w)') = Cardinality(DirtyAt(w)) - 1
          /\ Cardinality(DirtyAt(w)') \in Nat
      BY <2>4, <3>1, PinSets, FS_RemoveElement, FS_CardinalityType
    <3> QED  BY <1>5, <1>n, <1>s, <2>2, <2>5, <3>2 DEF Recounted, CheckedRemove
  <2>6. CASE ~exports[c][w].dirty
    <3>1. c \notin DirtyAt(w)
      BY <2>6 DEF DirtyAt, Dirty
    <3>2. DirtyAt(w)' = DirtyAt(w)
      BY <2>4, <3>1
    <3> QED  BY <1>5, <1>n, <1>s, <2>2, <2>6, <3>2 DEF Recounted
  <2> QED  BY <2>5, <2>6
<1>6. ASSUME NEW c \in Client, DeadLocation(c), SamePins PROVE Recounted(w)
  <2> DEFINE S == {v \in listed[c] : exports[c][v].dirty}
  <2>1. /\ pinCount' = pinCount - Cardinality(S)
        /\ IF S # {} THEN CheckedRemove ELSE UNCHANGED wire
        /\ listed' = [listed EXCEPT ![c] = {}]
        /\ UNCHANGED <<made, exports>>
    BY <1>6 DEF DeadLocation
  <2>2. S \subseteq {w}
    BY DEF NeverDies
  <2>3. w \in S <=> c \in DirtyAt(w)
    BY DEF DirtyAt, Dirty
  <2>4. DirtyAt(w)' = DirtyAt(w) \ {c}
    BY <1>t, <2>1 DEF DirtyAt, Dirty
  <2> HIDE DEF S
  <2>5. CASE S = {w}
    <3>1. Cardinality(S) = 1
      BY <2>5, FS_Singleton
    <3>2. /\ Cardinality(DirtyAt(w)') = Cardinality(DirtyAt(w)) - 1
          /\ Cardinality(DirtyAt(w)') \in Nat
      BY <2>3, <2>4, <2>5, PinSets, FS_RemoveElement, FS_CardinalityType
    <3> QED  BY <1>6, <1>n, <1>s, <2>1, <2>5, <3>1, <3>2 DEF Recounted, CheckedRemove
  <2>6. CASE S = {}
    <3>1. Cardinality(S) = 0
      BY <2>6, FS_EmptySet
    <3>2. DirtyAt(w)' = DirtyAt(w)
      BY <2>3, <2>4, <2>6
    <3> QED  BY <1>6, <1>n, <1>s, <2>1, <2>6, <3>1, <3>2 DEF Recounted
  <2> QED  BY <2>2, <2>5, <2>6
<1>7. ASSUME NEW p \in Pairs, p[1] = Owner, InsertAndPin(p) \/ Unpin(p)
      PROVE  Recounted(w)
  BY <1>2, <1>3, <1>7
<1> QED
  <2>1. CASE SamePins
    BY <1>1, <1>4, <1>5, <1>6, <1>7, <2>1, OwnerStep
  <2>2. CASE ~SamePins
    BY <1>7, <2>2, PinsOfOthers
  <2> QED  BY <2>1, <2>2

\* While it is not, nobody pins it, and only a marshalling brings it there.
Unnamed ==
  \/ UNCHANGED <<wire, made, pinCount>> /\ Pinned' = Pinned
  \/ /\ wire' = made + 1 /\ made' = made + 1 /\ pinCount' = 1
     /\ UNCHANGED listed
     /\ \E p \in Pairs : Pinned' = {p} /\ p[1] = Owner
                         /\ InsertAndPin(p)

LEMMA NoObject ==
  ASSUME TypeOK, NamesOK, PinsCounted, NeverDies, [Next]_vars, wire = NullT
  PROVE  /\ pinCount = 0 /\ Pinned = {} /\ Unnamed
<1>t. /\ listed \in [Client -> SUBSET Wire]
      /\ xfer \in [Pairs -> [w : Wire \cup {NullT}, pinned : BOOLEAN, at : At]]
      /\ NullT \notin Wire
  BY DEF TypeOK, Wire, NullT
<1>1. /\ Cardinality(DirtyAt(wire)) \in Nat /\ Cardinality(Pinned) \in Nat
      /\ pinCount = Cardinality(DirtyAt(wire)) + Cardinality(Pinned)
      /\ pinCount = 0
  BY PinSets, FS_CardinalityType DEF PinsCounted, DirtyAt
<1>2. Pinned = {}
  <2>1. Cardinality(Pinned) = 0
    BY <1>1
  <2> QED  BY <2>1, PinSets, FS_EmptySet
<1>3. \A c \in Client : {v \in listed[c] : exports[c][v].dirty} = {}
  BY <1>t DEF NeverDies
<1>s. SamePins => Pinned' = Pinned
  BY DEF SamePins, Pinned
<1>4. ASSUME UNCHANGED owner, SamePins PROVE Unnamed
  BY <1>4, <1>s DEF owner, Unnamed
<1>5. ASSUME NEW p \in Pairs, p[1] = Owner, InsertAndPin(p) PROVE Unnamed
  <2>1. /\ wire' = made + 1 /\ made' = made + 1 /\ pinCount' = 1
        /\ UNCHANGED listed
        /\ xfer' = [xfer EXCEPT ![p] = [w |-> wire', pinned |-> TRUE, at |-> "sent"]]
    BY <1>1, <1>5 DEF InsertAndPin, Sends, Pin
  <2>2. Pinned' = {p}
    BY <1>t, <1>2, <1>5, <2>1 DEF Pinned
  <2> QED  BY <1>5, <2>1, <2>2 DEF Unnamed
<1>6. ASSUME NEW p \in Pairs, p[1] = Owner, Unpin(p) PROVE FALSE
  BY <1>2, <1>6 DEF Unpin, Pinned
<1>7. ASSUME NEW m \in dirties, AgentDirty(m), ~Refuses(m.from, m.w, m.id)
      PROVE  FALSE
  BY <1>t, <1>7 DEF Refuses, TypeOK
<1>8. ASSUME NEW m \in cleans, AgentClean(m), Fresh(m) # {} PROVE FALSE
  <2>1. m.from \in Client
    BY DEF TypeOK
  <2> QED  BY <1>t, <1>8, <2>1 DEF Fresh
<1>9. ASSUME NEW c \in Client, DeadLocation(c), SamePins PROVE Unnamed
  <2>1. ~\E w \in listed[c] : exports[c][w].dirty
    BY <1>3
  <2>2. UNCHANGED <<wire, made>> /\ pinCount' = pinCount - Cardinality({})
    BY <1>3, <1>9, <2>1 DEF DeadLocation
  <2>3. UNCHANGED pinCount
    BY <1>1, <2>2, FS_EmptySet
  <2> QED  BY <1>9, <1>s, <2>2, <2>3 DEF Unnamed
<1>10. Unnamed
  <2>1. CASE SamePins
    BY <1>4, <1>5, <1>6, <1>7, <1>8, <1>9, <2>1, OwnerStep
  <2>2. CASE ~SamePins
    BY <1>5, <1>6, <2>2, PinsOfOthers
  <2> QED  BY <2>1, <2>2
<1> QED  BY <1>1, <1>2, <1>10

\* The sets that are counted are finite after a step, too.
LEMMA PinSetsNext ==
  IsFiniteSet(Pinned') /\ \A w : IsFiniteSet(DirtyAt(w)')
<1>1. IsFiniteSet(Client) /\ IsFiniteSet(Pairs)
  BY PinSets
<1>2. Pinned' \subseteq Pairs /\ \A w : DirtyAt(w)' \subseteq Client
  BY DEF Pinned, DirtyAt
<1> HIDE DEF Pinned, DirtyAt
<1> QED  BY <1>1, <1>2, FS_Subset

\* The pin count is never negative.
LEMMA PinCountType ==
  ASSUME TypeOK, NamesOK, PinsCounted, NeverDies, [Next]_vars
  PROVE  pinCount' \in Nat
<1>1. CASE wire = NullT
  BY <1>1, NoObject DEF Unnamed
<1>2. CASE wire # NullT
  BY <1>2, Recount DEF TypeOK, Recounted
<1> QED  BY <1>1, <1>2

\* The object keeps its name while a location is dirty for it.
LEMMA KeepsName ==
  ASSUME TypeOK, NamesOK, PinsCounted, NeverDies, [Next]_vars,
         NEW w \in Wire, wire = w, NEW c \in Client, Dirty(c, w)'
  PROVE  wire' = w
<1>1. Recounted(w)
  BY Recount
<1>2. c \in DirtyAt(w)'
  BY DEF DirtyAt
<1>3. IsFiniteSet(DirtyAt(w)') /\ IsFiniteSet(Pinned')
  BY PinSetsNext
<1>4. /\ Cardinality(DirtyAt(w)') \in Nat \ {0}
      /\ Cardinality(Pinned') \in Nat
  <2>1. DirtyAt(w)' # {}
    BY <1>2
  <2> HIDE DEF DirtyAt
  <2> QED  BY <1>3, <2>1, FS_CardinalityType, FS_EmptySet
<1>5. pinCount' # 0
  BY <1>1, <1>4 DEF Recounted
<1> QED  BY <1>1, <1>5 DEF Recounted

LEMMA PinsStep ==
  ASSUME TypeOK, TypeOK', NamesOK, PinsCounted, NeverDies, [Next]_vars
  PROVE  PinsCounted'
<1>t. /\ listed \in [Client -> SUBSET Wire] /\ listed' \in [Client -> SUBSET Wire]
      /\ NullT \notin Wire /\ made \in Nat
      /\ \A w \in Wire : w \in Nat
  BY DEF TypeOK, Wire, NullT
<1>n. \A w : w \notin Wire => DirtyAt(w)' = {}
  BY <1>t DEF DirtyAt, Dirty
<1>s. SUFFICES /\ pinCount' = Cardinality(DirtyAt(wire)') + Cardinality(Pinned')
               /\ (wire' = NullT) = (pinCount' = 0)
  BY DEF PinsCounted, DirtyAt
<1>1. CASE wire = NullT
  <2>1. pinCount = 0 /\ Pinned = {} /\ Unnamed
    BY <1>1, NoObject
  <2>2. DirtyAt(wire)' = {}
    <3>1. CASE wire' = NullT
      BY <1>t, <3>1 DEF DirtyAt, Dirty
    <3>2. CASE wire' # NullT
      <4>1. UNCHANGED listed /\ wire' = made + 1
        BY <1>1, <2>1, <3>2 DEF Unnamed
      <4>2. \A c \in Client : wire' \notin listed'[c]
        BY <1>t, <4>1 DEF NamesOK
      <4> QED  BY <4>2 DEF DirtyAt, Dirty
    <3> QED  BY <3>1, <3>2
  <2>3. Cardinality({}) = 0 /\ \A p : Cardinality({p}) = 1
    BY FS_EmptySet, FS_Singleton
  <2>4. \/ wire' = NullT /\ pinCount' = 0 /\ Pinned' = {}
        \/ wire' # NullT /\ pinCount' = 1 /\ \E p : Pinned' = {p}
    BY <1>1, <1>t, <2>1 DEF Unnamed, NullT
  <2>5. CASE wire' = NullT /\ pinCount' = 0 /\ Pinned' = {}
    BY <2>2, <2>3, <2>5
  <2>6. CASE wire' # NullT /\ pinCount' = 1 /\ \E p : Pinned' = {p}
    <3>1. Cardinality(Pinned') = 1 /\ Cardinality(DirtyAt(wire)') = 0
      BY <2>2, <2>3, <2>6
    <3> QED  BY <2>6, <3>1
  <2> QED  BY <2>4, <2>5, <2>6
<1>2. CASE wire # NullT
  <2>1. PICK w \in Wire : w = wire
    BY <1>2 DEF TypeOK
  <2>2. Recounted(w)
    BY <2>1, Recount
  <2>3. IsFiniteSet(DirtyAt(w)') /\ IsFiniteSet(Pinned')
    BY PinSetsNext
  <2>4. /\ Cardinality(DirtyAt(w)') \in Nat /\ Cardinality(Pinned') \in Nat
        /\ pinCount' = Cardinality(DirtyAt(w)') + Cardinality(Pinned')
    BY <2>2, <2>3, FS_CardinalityType DEF Recounted
  <2>5. CASE pinCount' = 0
    <3>1. wire' = NullT
      BY <2>2, <2>5 DEF Recounted
    <3>2. DirtyAt(wire)' = {}
      BY <1>t, <3>1 DEF DirtyAt, Dirty
    <3>3. Cardinality({}) = 0 /\ Cardinality(Pinned') = 0
      BY <2>4, <2>5, FS_EmptySet
    <3> HIDE DEF DirtyAt, Pinned
    <3> QED  BY <2>5, <3>1, <3>2, <3>3
  <2>6. CASE pinCount' # 0
    <3>1. wire' = w /\ w # NullT
      BY <1>t, <2>2, <2>6 DEF Recounted
    <3>2. DirtyAt(wire)' = DirtyAt(w)'
      BY <3>1 DEF DirtyAt, Dirty
    <3> HIDE DEF DirtyAt, Pinned
    <3> QED  BY <2>4, <2>6, <3>1, <3>2
  <2> QED  BY <2>5, <2>6
<1> QED  BY <1>1, <1>2

LEMMA EntriesSound ==
  ASSUME TypeOK, TypeOK', NamesOK, PinsCounted, NeverDies, [Next]_vars
  PROVE  NeverDies'
<1> SUFFICES ASSUME NEW c \in Client, NEW w \in listed'[c]
             PROVE  IF exports'[c][w].dirty THEN w = wire' ELSE exports'[c][w].keep
  BY DEF NeverDies
<1>1. w \in Wire
  BY DEF TypeOK
<1>2. Stays(c, w) \/ Granted(c, w) \/ Kept(c, w)
  BY EntriesStep
<1>3. CASE ~exports'[c][w].dirty
  BY <1>2, <1>3 DEF Stays, Granted, Kept, NeverDies
<1>4. CASE exports'[c][w].dirty
  <2>1. w = wire
    BY <1>2, <1>4 DEF Stays, Granted, Kept, NeverDies
  <2>2. Dirty(c, w)'
    BY <1>4 DEF Dirty
  <2>3. w = wire'
    BY <1>1, <2>1, <2>2, KeepsName
  <2> QED  BY <1>4, <2>3
<1> QED  BY <1>3, <1>4

-----------------------------------------------------------------------------
(* Surrogates.                                                             *)

\* A surrogate that a client counts on.
Holds(c, w) == srgt[c][w] \in {"granted", "live"} /\ <<c, w>> \notin void

\* It is one that the client had, or one that the owner grants in this step.
GrantedBy(m) ==
  /\ AgentDirty(m) /\ ~Refuses(m.from, m.w, m.id)
  /\ reg'[m.from][m.w] = m.id
  /\ m.w = wire /\ wire' = wire /\ m.w \in listed'[m.from]
  /\ exports'[m.from][m.w].dirty /\ exports'[m.from][m.w].ts = m.id

LEMMA SurrogateStep ==
  ASSUME TypeOK, NamesOK, [Next]_vars, NEW c \in Client, NEW w \in Wire,
         Holds(c, w)'
  PROVE  \/ Holds(c, w) /\ reg'[c][w] = reg[c][w]
         \/ \E m \in dirties : m.from = c /\ m.w = w /\ GrantedBy(m)
<1> DEFINE Goal == \/ Holds(c, w) /\ reg'[c][w] = reg[c][w]
                   \/ \E m \in dirties : m.from = c /\ m.w = w /\ GrantedBy(m)
<1>t. /\ srgt \in [Client -> [Wire ->
           {"none", "creating", "granted", "refused", "live", "dead"}]]
      /\ reg \in [Client -> [Wire -> Event]]
      /\ listed \in [Client -> SUBSET Wire]
      /\ exports \in [Client -> [Wire -> DirtyElem]]
      /\ \A p \in Pairs : p[2] \in Client
  BY ClientAssumption DEF TypeOK
<1>h. srgt'[c][w] \in {"granted", "live"} /\ <<c, w>> \notin void'
  BY DEF Holds
<1>u. ASSUME UNCHANGED <<srgt, reg>>, void \subseteq void' PROVE Goal
  BY <1>h, <1>u DEF Holds
<1> HIDE DEF Goal
<1>1. ASSUME UNCHANGED vars PROVE Goal
  BY <1>1, <1>u DEF vars, client
<1>2. ASSUME NEW p \in Pairs, Marshal(p) PROVE Goal
  <2>1. UNCHANGED <<srgt, reg, void>>
    BY <1>2 DEF Marshal, InsertAndPin, SendSurrogate, Unpin, LoseReference, client
  <2> QED  BY <1>u, <2>1
<1>3. ASSUME NEW p \in Pairs, FindSurrogate(p) \/ FindWait(p) PROVE Goal
  <2>1. UNCHANGED <<srgt, reg, void>>
    BY <1>3 DEF FindSurrogate, FindWait, client
  <2> QED  BY <1>u, <2>1
<1>4. ASSUME NEW p \in Pairs, FindCreate(p) PROVE Goal
  <2> DEFINE r == p[2]
             v == xfer[p].w
             ts == NextEventID(eCount[r])
  <2>1. /\ srgt' = [srgt EXCEPT ![r][v] = "creating"]
        /\ reg' = [reg EXCEPT ![r][v] = ts]
        /\ void' = void \ {<<r, v>>}
    BY <1>4 DEF FindCreate
  <2> HIDE DEF r, v, ts
  <2>2. ~(c = r /\ w = v)
    BY <1>t, <1>h, <2>1
  <2>3. srgt'[c][w] = srgt[c][w] /\ reg'[c][w] = reg[c][w] /\ <<c, w>> \notin void
    BY <1>t, <1>h, <2>1, <2>2
  <2> QED  BY <1>h, <2>3 DEF Goal, Holds
<1>5. ASSUME NEW d \in Client, NEW v \in Wire,
             \/ FindReturns(d, v) \/ FindRaises(d, v)
             \/ Drop(d, v) \/ CleanupSrgt(d, v) \/ CleanupStale(d, v)
      PROVE  Goal
  <2>1. UNCHANGED <<reg, void>>
    BY <1>5 DEF FindReturns, FindRaises, Drop, CleanupSrgt, CleanupStale
  <2>2. \/ UNCHANGED srgt
        \/ srgt[d][v] = "granted" /\ srgt' = [srgt EXCEPT ![d][v] = "live"]
        \/ srgt' = [srgt EXCEPT ![d][v] = "none"]
        \/ srgt' = [srgt EXCEPT ![d][v] = "dead"]
    BY <1>5 DEF FindReturns, FindRaises, Drop, CleanupSrgt, CleanupStale
  <2>3. srgt[c][w] \in {"granted", "live"}
    <3>1. CASE c = d /\ w = v
      <4>1. srgt[d][v] = "granted" \/ srgt'[d][v] = srgt[d][v]
        BY <1>t, <1>h, <2>2, <3>1
      <4> QED  BY <1>h, <3>1, <4>1
    <3>2. CASE ~(c = d /\ w = v)
      <4>1. srgt'[c][w] = srgt[c][w]
        BY <1>t, <2>2, <3>2
      <4> QED  BY <1>h, <4>1
    <3> QED  BY <3>1, <3>2
  <2> QED  BY <1>h, <2>1, <2>3 DEF Goal, Holds
<1>6. ASSUME NEW m \in dirties, AgentDirty(m) PROVE Goal
  <2> DEFINE de == [dirty |-> TRUE,
                    keep |-> m.w \in listed[m.from] /\ exports[m.from][m.w].keep,
                    ts |-> m.id]
  <2>1. UNCHANGED <<reg, void, wire>> /\ m.from \in Client /\ m.w \in Wire
    BY <1>6 DEF AgentDirty, TypeOK
  <2>2. CASE srgt'[c][w] = srgt[c][w]
    BY <1>h, <2>1, <2>2 DEF Goal, Holds
  <2>3. CASE srgt'[c][w] # srgt[c][w]
    <3>1. srgt' = Answered(m, "refused") \/ srgt' = Answered(m, "granted")
      BY <1>6 DEF AgentDirty
    <3>2. srgt'[c][w] # "refused"
      BY <1>h
    <3>3. c = m.from /\ w = m.w /\ reg[c][w] = m.id
      BY <2>3, <3>1, AnswerTypes
    <3>4. srgt' # Answered(m, "refused")
      <4>1. \/ Answered(m, "refused")[c][w] = srgt[c][w]
            \/ Answered(m, "refused")[c][w] = "refused"
        BY AnswerTypes
      <4> QED  BY <2>3, <3>2, <4>1
    <3>5. /\ ~Refuses(m.from, m.w, m.id) /\ m.w = wire
          /\ listed' = [listed EXCEPT ![m.from] = @ \cup {m.w}]
          /\ exports' = [exports EXCEPT ![m.from][m.w] = de]
      BY <1>6, <3>4 DEF AgentDirty, Refuses
    <3>6. de.dirty /\ de.ts = m.id
      OBVIOUS
    <3> HIDE DEF de
    <3>7. m.w \in listed'[m.from] /\ exports'[m.from][m.w] = de
      BY <1>t, <2>1, <3>5
    <3>8. GrantedBy(m)
      BY <1>6, <2>1, <3>3, <3>5, <3>6, <3>7 DEF GrantedBy
    <3> QED  BY <3>3, <3>8 DEF Goal
  <2> QED  BY <2>2, <2>3
<1>7. ASSUME NEW m, LoseDirty(m) \/ LoseClean(m) \/ AgentClean(m) PROVE Goal
  <2>1. UNCHANGED <<srgt, reg, void>>
    BY <1>7 DEF LoseDirty, LoseClean, AgentClean, client
  <2> QED  BY <1>u, <2>1
<1>8. ASSUME NEW d \in Client, Clean(d) \/ CleanerFails(d) PROVE Goal
  <2>1. UNCHANGED <<srgt, reg, void>>
    BY <1>8 DEF Clean, CleanerTake, CleanerExit, CleanerReturns, CleanerFails
  <2> QED  BY <1>u, <2>1
<1>9. ASSUME NEW d \in Client, DeadLocation(d) PROVE Goal
  <2>1. UNCHANGED <<srgt, reg>> /\ void \subseteq void'
    BY <1>9 DEF DeadLocation, client
  <2> QED  BY <1>u, <2>1
<1>10. ASSUME NEW d \in Client, Crash(d) PROVE Goal
  <2>1. /\ srgt' = [srgt EXCEPT ![d] = [v \in Wire |-> "none"]]
        /\ reg' = [reg EXCEPT ![d] = [v \in Wire |-> <<0, 0>>]]
        /\ void' = {s \in void : s[1] # d}
    BY <1>10 DEF Crash
  <2>2. c # d
    BY <1>t, <1>h, <2>1
  <2>3. srgt'[c][w] = srgt[c][w] /\ reg'[c][w] = reg[c][w] /\ <<c, w>> \notin void
    BY <1>t, <1>h, <2>1, <2>2
  <2> QED  BY <1>h, <2>3 DEF Goal, Holds
<1>11. Goal
  BY <1>1, <1>2, <1>3, <1>4, <1>5, <1>6, <1>7, <1>8, <1>9, <1>10 DEF Next, Find
<1> QED  BY <1>11 DEF Goal

\* An entry leaves the owner's table because of a clean call, or because the
\* owner takes the program for dead.
LEMMA EntryLeaves ==
  ASSUME TypeOK, [Next]_vars, NEW c \in Client, NEW w \in listed[c],
         w \notin listed'[c]
  PROVE  \/ DeadLocation(c)
         \/ \E m \in cleans, b \in CleanElem :
              /\ m.from = c /\ b \in Elems(m.batch) /\ b.w = w
              /\ EventLT(exports[c][w].ts, b.id)
<1>t. listed \in [Client -> SUBSET Wire]
  BY DEF TypeOK
<1>1. ASSUME UNCHANGED owner PROVE FALSE
  BY <1>1 DEF owner
<1>2. ASSUME NEW p \in Pairs, InsertAndPin(p) \/ Unpin(p) PROVE FALSE
  BY <1>2 DEF InsertAndPin, Unpin
<1>3. ASSUME NEW m \in dirties, AgentDirty(m) PROVE FALSE
  <2>1. UNCHANGED listed \/ listed' = [listed EXCEPT ![m.from] = @ \cup {m.w}]
    BY <1>3 DEF AgentDirty
  <2> QED  BY <1>t, <2>1
<1>4. ASSUME NEW m \in cleans, AgentClean(m), Fresh(m) # {}
      PROVE  \E n \in cleans, b \in CleanElem :
               /\ n.from = c /\ b \in Elems(n.batch) /\ b.w = w
               /\ EventLT(exports[c][w].ts, b.id)
  <2>1. PICK i \in Fresh(m) : CleanEffect(m, i)
    BY <1>4, CleanHandled
  <2>2. UNCHANGED listed \/ listed' = [listed EXCEPT ![m.from] = @ \ {wire}]
    BY <2>1 DEF CleanEffect
  <2>3. c = m.from /\ w = wire
    BY <1>t, <2>2
  <2> QED  BY <2>1, <2>3 DEF CleanEffect
<1>5. ASSUME NEW d \in Client, DeadLocation(d) PROVE d = c
  <2>1. listed' = [listed EXCEPT ![d] = {}]
    BY <1>5 DEF DeadLocation
  <2> QED  BY <1>t, <2>1
<1> QED  BY <1>1, <1>2, <1>3, <1>4, <1>5, OwnerStep

LEMMA SurrogatesStep ==
  ASSUME HoldInv, TypeOK', [Next]_vars
  PROVE  SurrogatesHold'
<1> USE DEF HoldInv
<1> SUFFICES ASSUME NEW c \in Client, NEW w \in Wire, Holds(c, w)'
             PROVE  w = wire' /\ Dirty(c, w)' /\ exports'[c][w].ts = reg'[c][w]
  BY DEF SurrogatesHold, Holds
<1>1. CASE Holds(c, w) /\ reg'[c][w] = reg[c][w]
  <2>1. w = wire /\ Dirty(c, w) /\ exports[c][w].ts = reg[c][w]
    BY <1>1 DEF SurrogatesHold, Holds
  <2>2. /\ c \in alive
        /\ \A m \in dirties : m.from = c /\ m.w = w => EventLE(m.id, reg[c][w])
        /\ \A b \in Cleanings(c) : b.w = w => EventLE(b.id, reg[c][w])
    BY <1>1 DEF LatestOK, Holds
  <2>3. reg[c][w] \in Event /\ w \in listed[c]
    BY <2>1 DEF TypeOK, Dirty
  <2>4. ASSUME NEW m \in cleans, NEW b \in CleanElem,
               m.from = c, b \in Elems(m.batch), b.w = w,
               EventLT(exports[c][w].ts, b.id)
        PROVE  FALSE
    <3>1. EventLE(b.id, reg[c][w]) /\ b.id \in Event
      BY <2>2, <2>4 DEF Cleanings, CleanElem
    <3> QED  BY <2>1, <2>3, <2>4, <3>1, StrictEventOrder
  <2>5. ~DeadLocation(c)
    BY <1>1, <2>2, <2>3 DEF Holds, DeadLocation
  <2>6. w \in listed'[c]
    BY <2>3, <2>4, <2>5, EntryLeaves
  <2>7. Stays(c, w)
    <3>1. ~Granted(c, w)
      BY <2>1, <2>2, <2>3 DEF Granted, Refuses
    <3>2. ~Kept(c, w)
      BY <2>4 DEF Kept
    <3> QED  BY <2>6, <3>1, <3>2, EntriesStep
  <2>8. Dirty(c, w)' /\ exports'[c][w].ts = reg'[c][w]
    BY <1>1, <2>1, <2>6, <2>7 DEF Stays, Dirty
  <2>9. wire' = w
    BY <2>1, <2>8, KeepsName
  <2> QED  BY <2>8, <2>9
<1>2. ASSUME NEW m \in dirties, m.from = c, m.w = w, GrantedBy(m)
      PROVE  w = wire' /\ Dirty(c, w)' /\ exports'[c][w].ts = reg'[c][w]
  BY <1>2 DEF GrantedBy, Dirty
<1> QED  BY <1>1, <1>2, SurrogateStep

-----------------------------------------------------------------------------
(* The invariant, and what it is for.                                      *)

LEMMA InitHolds == Init => HoldInv
<1> SUFFICES ASSUME Init PROVE HoldInv
  OBVIOUS
<1>1. TypeOK
  BY InitTypes
<1>2. Elems(<<>>) = {} /\ NoCleaner.batch = <<>>
  BY EmptyQueue, IdleCleaners DEF NoCleaner
<1>3. \A c \in Client : Cleanings(c) = {}
  BY <1>2 DEF Init, Cleanings
<1>4. NamesOK
  BY DEF Init, NamesOK, NullT
<1>5. EventsOK
  BY <1>3 DEF Init, EventsOK, EventLE
<1>6. LatestOK
  BY DEF Init, LatestOK
<1>7. PinsCounted
  <2>1. {c \in Client : Dirty(c, wire)} = {} /\ Pinned = {}
    BY DEF Init, Dirty, Pinned
  <2>2. Cardinality({}) = 0
    BY FS_EmptySet
  <2>3. wire = NullT /\ pinCount = 0
    BY DEF Init
  <2>4. pinCount = Cardinality({c \in Client : Dirty(c, wire)})
                   + Cardinality(Pinned)
    <3> HIDE DEF Pinned
    <3> QED  BY <2>1, <2>2, <2>3
  <2> QED  BY <2>3, <2>4 DEF PinsCounted
<1>8. NeverDies
  BY DEF Init, NeverDies
<1>9. SurrogatesHold
  BY DEF Init, SurrogatesHold
<1> QED  BY <1>1, <1>4, <1>5, <1>6, <1>7, <1>8, <1>9 DEF HoldInv

LEMMA HoldStep == ASSUME HoldInv, [Next]_vars PROVE HoldInv'
<1>1. TypeOK'
  BY PinCountType, TypeStep DEF HoldInv
<1> QED
  BY <1>1, NamesStep, EventsStep, LatestStep, PinsStep, EntriesSound,
     SurrogatesStep
  DEF HoldInv

\* What the owner's table, the clients' tables and the calls under way have to
\* do with each other, whoever crashes and whatever is lost or late.
THEOREM HoldInvariant == Spec => []HoldInv
BY InitHolds, HoldStep, PTL DEF Spec

\* Every variable has its type.
THEOREM TypeCorrect == Spec => []TypeOK
<1> HoldInv => TypeOK
  BY DEF HoldInv
<1> QED  BY HoldInvariant, PTL

\* InsertAndPin, Unpin, AgentDirty, AgentClean and DeadLocation keep one pin
\* for each dirty location and for each marshalling under way, no more and no
\* less; the object is in the table just as long as there are any.
THEOREM PinsCorrect == Spec => []PinsCounted
<1>1. HoldInv => PinsCounted
  BY DEF HoldInv
<1> QED  BY <1>1, HoldInvariant, PTL

\* The ASSERT of AgentDirty holds and DeadLocation does not Die: an entry that
\* is dirty names an object in the table.
THEOREM EntriesCorrect == Spec => []NeverDies
<1>1. HoldInv => NeverDies
  BY DEF HoldInv
<1> QED  BY <1>1, HoldInvariant, PTL

\* However dirty and clean calls overtake each other, a program with a
\* surrogate whose dirty call was answered is in the owner's books with that
\* very call, unless the owner has taken it for dead.
THEOREM SurrogatesSafe == Spec => []SurrogatesHold
<1>1. HoldInv => SurrogatesHold
  BY DEF HoldInv
<1> QED  BY <1>1, HoldInvariant, PTL

-----------------------------------------------------------------------------
(* Refinement of RemoteObject.                                             *)

Held == {u \in (Client \X Wire) \ void : srgt[u[1]][u[2]] \in {"granted", "live"}}
Marshals == {<<p, xfer[p].w>> : p \in Pinned}

\* In a step at most one program loses what it counted on.
LEMMA OthersKeep ==
  ASSUME TypeOK, NamesOK, [Next]_vars
  PROVE  \/ Held \subseteq Held'
         \/ \E d \in Client : \A u \in Held : u[1] = d \/ u \in Held'
<1> DEFINE Goal == \/ Held \subseteq Held'
                   \/ \E d \in Client : \A u \in Held : u[1] = d \/ u \in Held'
<1>t. /\ srgt \in [Client -> [Wire ->
           {"none", "creating", "granted", "refused", "live", "dead"}]]
      /\ \A p \in Pairs : p[2] \in Client
  BY ClientAssumption DEF TypeOK
<1>u. ASSUME UNCHANGED srgt, void' \subseteq void PROVE Goal
  BY <1>u DEF Held
<1>o. ASSUME NEW d \in Client,
             \A s \in void' : s \in void \/ s[1] = d,
             \A c \in Client, w \in Wire : c # d => srgt'[c][w] = srgt[c][w]
      PROVE  Goal
  BY <1>o DEF Held
<1> HIDE DEF Goal
<1>1. ASSUME UNCHANGED vars PROVE Goal
  BY <1>1, <1>u DEF vars, client
<1>2. ASSUME NEW p \in Pairs, Marshal(p) \/ FindSurrogate(p) \/ FindWait(p)
      PROVE  Goal
  BY <1>2, <1>u DEF Marshal, InsertAndPin, SendSurrogate, Unpin, LoseReference,
                    FindSurrogate, FindWait, client
<1>3. ASSUME NEW p \in Pairs, FindCreate(p) PROVE Goal
  <2> DEFINE r == p[2]
             v == xfer[p].w
  <2>1. srgt' = [srgt EXCEPT ![r][v] = "creating"] /\ void' = void \ {<<r, v>>}
    BY <1>3 DEF FindCreate
  <2>2. r \in Client
    BY <1>t
  <2> HIDE DEF r, v
  <2>3. \A c \in Client, w \in Wire : c # r => srgt'[c][w] = srgt[c][w]
    BY <1>t, <2>1
  <2> QED  BY <1>o, <2>1, <2>2, <2>3
<1>4. ASSUME NEW d \in Client, NEW v \in Wire,
             \/ FindReturns(d, v) \/ FindRaises(d, v)
             \/ Drop(d, v) \/ CleanupSrgt(d, v) \/ CleanupStale(d, v)
      PROVE  Goal
  <2>1. UNCHANGED void
    BY <1>4 DEF FindReturns, FindRaises, Drop, CleanupSrgt, CleanupStale
  <2>2. \/ UNCHANGED srgt
        \/ \E a : srgt' = [srgt EXCEPT ![d][v] = a]
    BY <1>4 DEF FindReturns, FindRaises, Drop, CleanupSrgt, CleanupStale
  <2>3. \A c \in Client, w \in Wire : c # d => srgt'[c][w] = srgt[c][w]
    BY <1>t, <2>2
  <2> QED  BY <1>o, <2>1, <2>3
<1>5. ASSUME NEW m \in dirties, AgentDirty(m) PROVE Goal
  <2>1. UNCHANGED void /\ (srgt' = Answered(m, "refused") \/ srgt' = Answered(m, "granted"))
    BY <1>5 DEF AgentDirty
  <2>2. ASSUME NEW u \in Held PROVE u \in Held'
    <3>1. u[1] \in Client /\ u[2] \in Wire /\ srgt[u[1]][u[2]] # "creating"
      BY DEF Held
    <3>2. srgt'[u[1]][u[2]] = srgt[u[1]][u[2]]
      BY <2>1, <3>1, AnswerTypes
    <3> QED  BY <2>1, <3>2 DEF Held
  <2> QED  BY <2>2 DEF Goal
<1>6. ASSUME NEW m, LoseDirty(m) \/ LoseClean(m) \/ AgentClean(m) PROVE Goal
  BY <1>6, <1>u DEF LoseDirty, LoseClean, AgentClean, client
<1>7. ASSUME NEW d \in Client, Clean(d) \/ CleanerFails(d) PROVE Goal
  BY <1>7, <1>u DEF Clean, CleanerTake, CleanerExit, CleanerReturns, CleanerFails
<1>8. ASSUME NEW d \in Client, DeadLocation(d) PROVE Goal
  <2>1. UNCHANGED srgt /\ \A s \in void' : s \in void \/ s[1] = d
    BY <1>8 DEF DeadLocation, client
  <2> QED  BY <1>o, <2>1
<1>9. ASSUME NEW d \in Client, Crash(d) PROVE Goal
  <2>1. /\ srgt' = [srgt EXCEPT ![d] = [v \in Wire |-> "none"]]
        /\ void' \subseteq void
    BY <1>9 DEF Crash
  <2>2. \A c \in Client, w \in Wire : c # d => srgt'[c][w] = srgt[c][w]
    BY <1>t, <2>1
  <2> QED  BY <1>o, <2>1, <2>2
<1>10. Goal
  BY <1>1, <1>2, <1>3, <1>4, <1>5, <1>6, <1>7, <1>8, <1>9 DEF Next, Find
<1> QED  BY <1>10 DEF Goal

\* A program comes to count on the object when the owner grants its dirty call.
LEMMA HeldStep ==
  ASSUME HoldInv, [Next]_vars
  PROVE  \/ Held' = Held
         \/ \E u \in Held : Held' = Held \ {u}
         \/ \E m \in dirties :
              GrantedBy(m) /\ Held' = Held \cup {<<m.from, wire>>}
<1>t. TypeOK /\ NamesOK
  BY DEF HoldInv
<1>1. ASSUME NEW u \in Held' \ Held
      PROVE  \E m \in dirties : GrantedBy(m) /\ Held' = Held \cup {<<m.from, wire>>}
  <2>1. ASSUME NEW v \in Held' \ Held
        PROVE  \E m \in dirties : v = <<m.from, wire>> /\ GrantedBy(m)
    <3>1. /\ v = <<v[1], v[2]>> /\ v[1] \in Client /\ v[2] \in Wire
          /\ Holds(v[1], v[2])' /\ ~Holds(v[1], v[2])
      BY DEF Held, Holds
    <3>2. PICK m \in dirties : m.from = v[1] /\ m.w = v[2] /\ GrantedBy(m)
      BY <1>t, <3>1, SurrogateStep
    <3> QED  BY <3>1, <3>2 DEF GrantedBy
  <2>2. PICK m \in dirties : u = <<m.from, wire>> /\ GrantedBy(m)
    BY <2>1
  <2>3. ASSUME NEW n \in dirties, GrantedBy(n) PROVE n = m
    <3>1. dirties' = dirties \ {n} /\ dirties' = dirties \ {m}
      BY <2>2, <2>3 DEF GrantedBy, AgentDirty
    <3> QED  BY <3>1
  <2>4. \A v \in Held' : v \in Held \/ v = u
    BY <2>1, <2>2, <2>3
  <2>5. Held \subseteq Held'
    <3>1. UNCHANGED void /\ (srgt' = Answered(m, "refused") \/ srgt' = Answered(m, "granted"))
      BY <2>2 DEF AgentDirty, GrantedBy
    <3>2. ASSUME NEW v \in Held PROVE v \in Held'
      <4>1. v[1] \in Client /\ v[2] \in Wire /\ srgt[v[1]][v[2]] # "creating"
        BY DEF Held
      <4>2. srgt'[v[1]][v[2]] = srgt[v[1]][v[2]]
        BY <1>t, <3>1, <4>1, AnswerTypes
      <4> QED  BY <3>1, <4>2 DEF Held
    <3> QED  BY <3>2
  <2> QED  BY <2>2, <2>4, <2>5
<1>2. ASSUME Held' \subseteq Held, Held' # Held
      PROVE  \E u \in Held : Held' = Held \ {u}
  <2>1. PICK d \in Client : \A u \in Held : u[1] = d \/ u \in Held'
    BY <1>t, <1>2, OthersKeep
  <2>2. \A u \in Held : u = <<u[1], wire>>
    BY DEF Held, HoldInv, SurrogatesHold
  <2>3. \A u \in Held : u \in Held' \/ u = <<d, wire>>
    BY <2>1, <2>2
  <2>4. PICK u \in Held : u \notin Held'
    BY <1>2
  <2>5. u = <<d, wire>>
    BY <2>3, <2>4
  <2> HIDE DEF Held
  <2>6. Held' = Held \ {u}
    BY <1>2, <2>3, <2>4, <2>5
  <2> QED  BY <2>6
<1> HIDE DEF Held
<1> QED  BY <1>1, <1>2

\* The owner comes to count on it when it marshals a reference to it, until the
\* call is over.
LEMMA MarshalsJoin ==
  ASSUME TypeOK, NEW p \in Pairs, InsertAndPin(p)
  PROVE  Marshals' = Marshals \cup {<<p, wire'>>}
<1>t. xfer \in [Pairs -> [w : Wire \cup {NullT}, pinned : BOOLEAN, at : At]]
  BY DEF TypeOK
<1>1. /\ xfer' = [xfer EXCEPT ![p] = [w |-> wire', pinned |-> TRUE, at |-> "sent"]]
      /\ ~xfer[p].pinned /\ p[1] = Owner
  BY DEF InsertAndPin, Sends
<1>2. /\ xfer'[p].w = wire' /\ Pinned' = Pinned \cup {p}
      /\ \A q \in Pinned : q # p /\ xfer'[q].w = xfer[q].w
  BY <1>t, <1>1 DEF Pinned
<1> HIDE DEF Pinned
<1> QED  BY <1>2 DEF Marshals

LEMMA MarshalsStep ==
  ASSUME TypeOK, [Next]_vars
  PROVE  \/ Marshals' = Marshals
         \/ \E p \in Pairs : /\ p[1] = Owner /\ InsertAndPin(p)
                             /\ Marshals' = Marshals \cup {<<p, wire'>>}
         \/ \E p \in Pairs : /\ p[1] = Owner /\ Unpin(p) /\ <<p, xfer[p].w>> \in Marshals
                             /\ Marshals' = Marshals \ {<<p, xfer[p].w>>}
<1>t. xfer \in [Pairs -> [w : Wire \cup {NullT}, pinned : BOOLEAN, at : At]]
  BY DEF TypeOK
<1>1. CASE SamePins
  <2>1. Pinned' = Pinned /\ \A p \in Pinned : xfer'[p].w = xfer[p].w
    BY <1>1 DEF SamePins, Pinned
  <2> HIDE DEF Pinned
  <2> QED  BY <2>1 DEF Marshals
<1>2. ASSUME NEW p \in Pairs, p[1] = Owner, InsertAndPin(p)
      PROVE  Marshals' = Marshals \cup {<<p, wire'>>}
  BY <1>2, MarshalsJoin
<1>3. ASSUME NEW p \in Pairs, p[1] = Owner, Unpin(p)
      PROVE  /\ <<p, xfer[p].w>> \in Marshals
             /\ Marshals' = Marshals \ {<<p, xfer[p].w>>}
  <2>1. xfer' = [xfer EXCEPT ![p].pinned = FALSE] /\ xfer[p].pinned
    BY <1>3 DEF Unpin
  <2>2. /\ p \in Pinned /\ Pinned' = Pinned \ {p}
        /\ \A q \in Pinned' : xfer'[q].w = xfer[q].w
    BY <1>t, <1>3, <2>1 DEF Pinned
  <2> HIDE DEF Pinned
  <2> QED  BY <2>2 DEF Marshals
<1> QED  BY <1>1, <1>2, <1>3, PinsOfOthers

\* Only a marshalling gives the object a name.
LEMMA NameStep ==
  ASSUME [Next]_vars
  PROVE  \/ wire' \in {wire, NullT} /\ UNCHANGED made
         \/ \E p \in Pairs : InsertAndPin(p)
<1>1. ASSUME NEW p \in Pairs, Unpin(p) PROVE wire' \in {wire, NullT} /\ UNCHANGED made
  BY <1>1 DEF Unpin, CheckedRemove
<1>2. ASSUME NEW m, AgentDirty(m) PROVE wire' \in {wire, NullT} /\ UNCHANGED made
  BY <1>2 DEF AgentDirty
<1>3. ASSUME NEW m, AgentClean(m) PROVE wire' \in {wire, NullT} /\ UNCHANGED made
  BY <1>3 DEF AgentClean, CheckedRemove
<1>4. ASSUME NEW c, DeadLocation(c) PROVE wire' \in {wire, NullT} /\ UNCHANGED made
  BY <1>4 DEF DeadLocation, CheckedRemove
<1> QED  BY <1>1, <1>2, <1>3, <1>4, OwnerStep DEF owner

\* Nobody counts on an object that is not in the table.
LEMMA NobodyHolds == HoldInv /\ wire = NullT => Holders = {}
<1> SUFFICES ASSUME HoldInv, wire = NullT PROVE Holders = {}
  OBVIOUS
<1>1. Held = {}
  <2>1. \A w \in Wire : w # NullT
    BY DEF Wire, NullT
  <2> QED  BY <2>1 DEF Held, HoldInv, SurrogatesHold
<1>2. Pinned = {}
  <2>1. /\ Cardinality(DirtyAt(wire)) \in Nat /\ Cardinality(Pinned) \in Nat
    BY PinSets, FS_CardinalityType
  <2>2. pinCount = Cardinality(DirtyAt(wire)) + Cardinality(Pinned)
    BY DEF HoldInv, PinsCounted, DirtyAt
  <2>3. pinCount = 0
    BY DEF HoldInv, PinsCounted
  <2>4. Cardinality(Pinned) = 0
    BY <2>1, <2>2, <2>3
  <2> QED  BY <2>4, PinSets, FS_EmptySet
<1> QED  BY <1>1, <1>2 DEF Holders, Held

LEMMA HoldersAre ==
  Holders = Held \cup Marshals /\ Holders' = Held' \cup Marshals'
BY DEF Holders, Held, Marshals

\* A step of the runtime is one of RemoteObject, or none.
LEMMA RemoteStep ==
  ASSUME HoldInv, HoldInv', [Next]_vars
  PROVE  [Remote!Next]_(Remote!vars)
<1> DEFINE Goal == [Remote!Next]_(Remote!vars)
<1>t. wire' = NullT => Holders' = {}
  <2>1. (HoldInv /\ wire = NullT => Holders = {})'
    BY NobodyHolds, PTL
  <2> QED  BY <2>1 DEF HoldInv
<1>1. ASSUME wire' \in {wire, NullT}, UNCHANGED made, Holders' = Holders PROVE Goal
  <2>1. CASE wire' = wire
    BY <1>1, <2>1 DEF Remote!vars
  <2>2. CASE wire' = NullT
    <3>1. Remote!Withdraw
      BY <1>1, <1>t, <2>2 DEF Remote!Withdraw, Remote!LetGo, HoldInv, NullT
    <3> QED  BY <3>1 DEF Remote!Next
  <2> QED  BY <1>1, <2>1, <2>2
<1>2. ASSUME wire' \in {wire, NullT}, UNCHANGED made,
             NEW u \in Holders, Holders' = Holders \ {u}
      PROVE  Goal
  <2>1. UNCHANGED wire \/ Remote!LetGo
    BY <1>2, <1>t DEF Remote!LetGo, HoldInv, NullT
  <2>2. Remote!Leave(u)
    BY <1>2, <2>1 DEF Remote!Leave
  <2> QED  BY <2>2 DEF Remote!Next
<1>3. ASSUME NEW m \in dirties, GrantedBy(m), UNCHANGED made,
             Holders' = Holders \cup {<<m.from, wire>>}
      PROVE  Goal
  <2>1. m.from \in Client /\ wire # 0 /\ wire' = wire
    BY <1>3, BoundAssumption DEF GrantedBy, HoldInv, TypeOK, Wire
  <2>2. Remote!Join(m.from)
    BY <1>3, <2>1 DEF Remote!Join
  <2> QED  BY <2>1, <2>2 DEF Remote!Next
<1>4. ASSUME NEW p \in Pairs, p[1] = Owner, InsertAndPin(p),
             Holders' = Holders \cup {<<p, wire'>>}
      PROVE  Goal
  <2>1. \/ wire = 0 /\ wire' = made + 1 /\ made' = made + 1
        \/ wire # 0 /\ UNCHANGED <<wire, made>>
    BY <1>4 DEF InsertAndPin, NullT
  <2>2. Remote!Join(p)
    BY <1>4, <2>1 DEF Remote!Join
  <2> QED  BY <2>2 DEF Remote!Next
<1> HIDE DEF Goal
<1>5. ASSUME NEW p \in Pairs, p[1] = Owner, InsertAndPin(p) PROVE Held' = Held
  BY <1>5 DEF InsertAndPin, Held, client
<1>6. ASSUME NEW p \in Pairs, Unpin(p) PROVE Held' = Held
  BY <1>6 DEF Unpin, Held, client
<1>7. ASSUME NEW p \in Pairs, InsertAndPin(p) PROVE p[1] = Owner
  BY <1>7 DEF InsertAndPin
<1>8. ASSUME ~\E p \in Pairs : InsertAndPin(p) PROVE Goal
  <2>1. wire' \in {wire, NullT} /\ UNCHANGED made
    BY <1>8, NameStep
  <2>2. ASSUME Marshals' = Marshals PROVE Goal
    <3>1. ASSUME Held' = Held PROVE Goal
      BY <1>1, <2>1, <2>2, <3>1, HoldersAre
    <3>2. ASSUME NEW u \in Held, Held' = Held \ {u} PROVE Goal
      <4>1. Holders' = Holders \/ Holders' = Holders \ {u}
        BY <2>2, <3>2, HoldersAre
      <4>2. u \in Holders
        BY HoldersAre
      <4> QED  BY <1>1, <1>2, <2>1, <4>1, <4>2
    <3>3. ASSUME NEW m \in dirties, GrantedBy(m), Held' = Held \cup {<<m.from, wire>>}
          PROVE  Goal
      BY <1>3, <2>1, <2>2, <3>3, HoldersAre
    <3> QED  BY <3>1, <3>2, <3>3, HeldStep
  <2>3. ASSUME NEW p \in Pairs, Unpin(p), NEW u \in Marshals, Marshals' = Marshals \ {u}
        PROVE  Goal
    <3>1. Held' = Held
      BY <1>6, <2>3
    <3>2. Holders' = Holders \/ Holders' = Holders \ {u}
      BY <2>3, <3>1, HoldersAre
    <3>3. u \in Holders
      BY HoldersAre
    <3> QED  BY <1>1, <1>2, <2>1, <3>2, <3>3
  <2> QED  BY <1>8, <2>2, <2>3, MarshalsStep DEF HoldInv
<1>9. ASSUME NEW p \in Pairs, InsertAndPin(p) PROVE Goal
  <2>1. Marshals' = Marshals \cup {<<p, wire'>>}
    BY <1>9, MarshalsJoin DEF HoldInv
  <2> QED  BY <1>4, <1>5, <1>7, <1>9, <2>1, HoldersAre
<1> QED  BY <1>8, <1>9 DEF Goal

\* Whoever has a surrogate, or takes part in a call of the owner that passes a
\* reference, can count on the object: until he is done with it, it stays in
\* the owner's table and keeps its wire representation; one that was given up
\* does not come back.
THEOREM RemoteImplemented == Spec => ImplementsRemoteObject
<1>1. Init => Remote!Init
  BY DEF Init, Remote!Init, NullT, Holders, Pinned
<1>2. HoldInv /\ HoldInv' /\ [Next]_vars => [Remote!Next]_(Remote!vars)
  BY RemoteStep
<1> QED  BY <1>1, <1>2, HoldInvariant, PTL
         DEF Spec, ImplementsRemoteObject, Remote!Spec

-----------------------------------------------------------------------------
(* The order of the cleanings.                                             *)

\* What a program has to say last it says last, or it is lost.
LEMMA EnqueuedLast ==
  ASSUME TypeOK, EventsOK, QueuesOrdered, NEW c \in alive, NEW w \in Wire,
         NEW strong \in BOOLEAN, CleanerEnqueue(c, w, strong)
  PROVE  LET elem == NewElem(c, w, strong)
         IN /\ elem \in CleanElem /\ elem.w = w
            /\ \A e \in Event : EventLE(e, eCount[c]) => EventLT(e, elem.id)
            /\ \A d \in Client \ {c} : /\ queue'[d] = queue[d]
                                       /\ cleaner'[d] = cleaner[d]
            /\ Elems(queue[c]) \subseteq Elems(queue'[c])
            /\ elem \in Elems(queue'[c]) \/ EventLE(elem.id, lost'[c][w])
            /\ cleaner[c].st = "calling" => cleaner'[c] = cleaner[c]
            /\ Ordered(queue'[c]) /\ Ordered(cleaner'[c].batch)
            /\ \A x \in Elems(cleaner'[c].batch), y \in Elems(queue'[c]) :
                 EventLT(x.id, y.id)
<1> DEFINE elem == NewElem(c, w, strong)
<1>0. /\ c \in Client /\ Ordered(queue[c]) /\ Ordered(cleaner[c].batch)
      /\ \A x \in Elems(cleaner[c].batch), y \in Elems(queue[c]) : EventLT(x.id, y.id)
  BY DEF TypeOK, QueuesOrdered
<1>1. elem \in CleanElem /\ elem.w = w
  BY NextEvent DEF TypeOK, CleanElem, NewElem
<1>2. ASSUME NEW e \in Event, EventLE(e, eCount[c]) PROVE EventLT(e, elem.id)
  <2>1. eCount[c] \in Event /\ elem.id = NextEventID(eCount[c])
    BY DEF TypeOK, NewElem
  <2>2. EventLT(eCount[c], elem.id) /\ elem.id \in Event
    BY <2>1, NextEvent
  <2> HIDE DEF elem
  <2> QED  BY <1>2, <2>1, <2>2, StrictEventOrder
<1>3. /\ queue[c] \in Seq(CleanElem) /\ cleaner[c].batch \in Seq(CleanElem)
      /\ queue \in [Client -> Seq(CleanElem)]
      /\ cleaner \in [Client -> CleanerThread]
  BY DEF TypeOK, CleanerThread
<1>4. \/ queue' = [queue EXCEPT ![c] = Append(@, elem)]
      \/ UNCHANGED queue /\ lost' = Untraced(c, {elem})
  BY DEF CleanerEnqueue, NewElem
<1>5. \/ cleaner' = cleaner
      \/ cleaner' = [cleaner EXCEPT ![c] = NewCleaner] /\ cleaner[c].st = "none"
  BY DEF CleanerEnqueue
<1>6. NewCleaner \in CleanerThread /\ NewCleaner.batch = <<>>
  BY IdleCleaners DEF NewCleaner
<1>7. \A b \in Elems(queue[c]) \cup Elems(cleaner[c].batch) : EventLT(b.id, elem.id)
  <2>1. \A b \in Elems(queue[c]) \cup Elems(cleaner[c].batch) :
          b \in CleanElem /\ EventLE(b.id, eCount[c])
    BY <1>3, QueueFacts DEF EventsOK, Cleanings
  <2> HIDE DEF elem
  <2> QED  BY <1>2, <2>1 DEF CleanElem
<1> HIDE DEF elem
<1>8. /\ Append(queue[c], elem) \in Seq(CleanElem)
      /\ Elems(Append(queue[c], elem)) = Elems(queue[c]) \cup {elem}
      /\ Ordered(Append(queue[c], elem))
  BY <1>0, <1>1, <1>3, <1>7, AppendElems
<1>9. /\ \A d \in Client \ {c} : queue'[d] = queue[d]
      /\ queue'[c] = queue[c] \/ queue'[c] = Append(queue[c], elem)
  BY <1>3, <1>4
<1>10. /\ \A d \in Client \ {c} : cleaner'[d] = cleaner[d]
       /\ cleaner'[c] = cleaner[c] \/ cleaner'[c] = NewCleaner
       /\ cleaner[c].st = "calling" => cleaner'[c] = cleaner[c]
  BY <1>3, <1>5
<1>11. elem \in Elems(queue'[c]) \/ EventLE(elem.id, lost'[c][w])
  <2>1. CASE queue' = [queue EXCEPT ![c] = Append(@, elem)]
    BY <1>0, <1>3, <1>8, <2>1
  <2>2. CASE lost' = Untraced(c, {elem})
    <3>1. \A T \in SUBSET {elem} : IsFiniteSet({b.id : b \in T})
      BY <1>8, QueueFacts
    <3>2. EventLE(elem.id, Untraced(c, {elem})[c][elem.w])
      BY <1>0, <1>1, <3>1, Untraces
    <3> QED  BY <1>1, <2>2, <3>2
  <2> QED  BY <1>4, <2>1, <2>2
<1>12. Ordered(queue'[c]) /\ Ordered(cleaner'[c].batch)
  BY <1>0, <1>6, <1>8, <1>9, <1>10, EmptyQueue
<1>13. Elems(queue[c]) \subseteq Elems(queue'[c])
  BY <1>8, <1>9
<1>14. \A x \in Elems(cleaner'[c].batch), y \in Elems(queue'[c]) : EventLT(x.id, y.id)
  <2>1. Elems(cleaner'[c].batch) \subseteq Elems(cleaner[c].batch)
    BY <1>6, <1>10, EmptyQueue
  <2>2. \A y \in Elems(queue'[c]) : y \in Elems(queue[c]) \/ y = elem
    BY <1>8, <1>9
  <2> QED  BY <1>0, <1>7, <2>1, <2>2
<1> QED
  BY <1>1, <1>2, <1>9, <1>10, <1>11, <1>12, <1>13, <1>14 DEF elem

\* A cleaner keeps the order, and loses nothing without a trace.
LEMMA CleanersOrder ==
  ASSUME TypeOK, QueuesOrdered, NEW c \in Client, Clean(c) \/ CleanerFails(c)
  PROVE  /\ \A d \in Client \ {c} : queue'[d] = queue[d] /\ cleaner'[d] = cleaner[d]
         /\ Ordered(queue'[c]) /\ Ordered(cleaner'[c].batch)
         /\ \A x \in Elems(cleaner'[c].batch), y \in Elems(queue'[c]) :
              EventLT(x.id, y.id)
         /\ \A m \in cleans' : m \in cleans \/ Ordered(m.batch)
         /\ \A e \in Elems(queue[c]) :
              \/ e \in Elems(queue'[c])
              \/ cleaner'[c].st = "calling" /\ e \in Elems(cleaner'[c].batch)
              \/ EventLE(e.id, lost'[c][e.w])
         /\ cleaner[c].st = "calling" =>
              \A e \in Elems(cleaner[c].batch) :
                \/ cleaner'[c].st = "calling" /\ e \in Elems(cleaner'[c].batch)
                \/ EventLE(e.id, lost'[c][e.w])
<1>1. /\ queue \in [Client -> Seq(CleanElem)]
      /\ cleaner \in [Client -> CleanerThread]
  BY DEF TypeOK, CleanerThread
<1>2. /\ queue[c] \in Seq(CleanElem)
      /\ cleaner[c].batch \in Seq(CleanElem)
  BY <1>1 DEF CleanerThread
<1>3. \A q \in Seq(CleanElem) : \A e \in Elems(q) :
        EventLE(e.id, Untraced(c, Elems(q))[c][e.w])
  BY QueueFacts, Untraces
<1>4. /\ Ordered(queue[c]) /\ Ordered(cleaner[c].batch)
      /\ \A x \in Elems(cleaner[c].batch), y \in Elems(queue[c]) : EventLT(x.id, y.id)
  BY DEF QueuesOrdered
<1>5. Ordered(<<>>) /\ Elems(<<>>) = {}
  BY EmptyQueue
<1>6. ASSUME NEW batch, NEW strong, NEW try, Call(c, batch, strong, try)
      PROVE  /\ cleaner'[c].st = "calling" /\ cleaner'[c].batch = batch
             /\ \A d \in Client \ {c} : cleaner'[d] = cleaner[d]
             /\ \A m \in cleans' : m \in cleans \/ m.batch = batch
  BY <1>1, <1>6 DEF Call
<1>7. CASE CleanerTake(c)
  <2> DEFINE q == queue[c]
             n == Cardinality(Batches(q))
             b == SubSeq(q, 1, n)
             r == SubSeq(q, n + 1, Len(q))
  <2>1. /\ Call(c, b, q[1].strong, 1) /\ queue' = [queue EXCEPT ![c] = r]
        /\ cleaner[c].st # "calling"
    BY <1>7 DEF CleanerTake
  <2>2. n \in 0 .. Len(q)
    BY <1>2, BatchSize
  <2>3. /\ Elems(b) \cup Elems(r) = Elems(q) /\ Ordered(b) /\ Ordered(r)
        /\ \A x \in Elems(b), y \in Elems(r) : EventLT(x.id, y.id)
    BY <1>2, <1>4, <2>2, TakeElems
  <2> HIDE DEF b, r, n
  <2>4. /\ cleaner'[c].st = "calling" /\ cleaner'[c].batch = b
        /\ \A d \in Client \ {c} : cleaner'[d] = cleaner[d]
        /\ \A m \in cleans' : m \in cleans \/ m.batch = b
    BY <1>6, <2>1
  <2>5. queue'[c] = r /\ \A d \in Client \ {c} : queue'[d] = queue[d]
    BY <1>1, <2>1
  <2> QED  BY <2>1, <2>3, <2>4, <2>5
<1>8. CASE CleanerExit(c)
  <2>1. /\ cleaner' = [cleaner EXCEPT ![c] = NoCleaner] /\ UNCHANGED cleans
        /\ queue' = [queue EXCEPT ![c] = <<>>]
        /\ lost' = Untraced(c, Elems(queue[c]))
        /\ cleaner[c].st # "calling"
    BY <1>8 DEF CleanerExit
  <2>2. NoCleaner.batch = <<>>
    BY IdleCleaners DEF NoCleaner
  <2>3. /\ \A d \in Client \ {c} : queue'[d] = queue[d] /\ cleaner'[d] = cleaner[d]
        /\ queue'[c] = <<>> /\ cleaner'[c].batch = <<>>
    BY <1>1, <2>1, <2>2
  <2>4. \A e \in Elems(queue[c]) : EventLE(e.id, lost'[c][e.w])
    BY <1>2, <1>3, <2>1
  <2> QED  BY <1>5, <2>1, <2>3, <2>4
<1>9. CASE CleanerReturns(c)
  <2>1. /\ cleaner' = [cleaner EXCEPT ![c] = NewCleaner]
        /\ UNCHANGED <<queue, cleans, lost>> /\ cleaner[c].st # "calling"
    BY <1>9 DEF CleanerReturns
  <2>2. NewCleaner.batch = <<>>
    BY IdleCleaners DEF NewCleaner
  <2>3. /\ \A d \in Client \ {c} : cleaner'[d] = cleaner[d]
        /\ cleaner'[c].batch = <<>>
    BY <1>1, <2>1, <2>2
  <2> QED  BY <1>4, <1>5, <2>1, <2>3
<1>10. CASE CleanerFails(c)
  <2>1. UNCHANGED queue
    BY <1>10 DEF CleanerFails
  <2>2. CASE Call(c, cleaner[c].batch, cleaner[c].strong, cleaner[c].try + 1)
    <3>1. /\ cleaner'[c].st = "calling" /\ cleaner'[c].batch = cleaner[c].batch
          /\ \A d \in Client \ {c} : cleaner'[d] = cleaner[d]
          /\ \A m \in cleans' : m \in cleans \/ m.batch = cleaner[c].batch
      BY <1>6, <2>2
    <3> QED  BY <1>4, <2>1, <3>1
  <2>3. CASE /\ cleaner' = [cleaner EXCEPT ![c] = Uncalled("ready", FALSE)]
             /\ lost' = Untraced(c, Elems(cleaner[c].batch)) /\ UNCHANGED cleans
    <3>1. Uncalled("ready", FALSE).batch = <<>>
      BY IdleCleaners
    <3>2. /\ \A d \in Client \ {c} : cleaner'[d] = cleaner[d]
          /\ cleaner'[c].batch = <<>>
      BY <1>1, <2>3, <3>1
    <3>3. \A e \in Elems(cleaner[c].batch) : EventLE(e.id, lost'[c][e.w])
      BY <1>2, <1>3, <2>3
    <3> QED  BY <1>4, <1>5, <2>1, <2>3, <3>2, <3>3
  <2> QED  BY <1>10, <2>2, <2>3 DEF CleanerFails
<1> QED  BY <1>7, <1>8, <1>9, <1>10 DEF Clean

LEMMA QueuesStep ==
  ASSUME HoldInv, QueuesOrdered, [Next]_vars PROVE QueuesOrdered'
<1>t. /\ queue \in [Client -> Seq(CleanElem)]
      /\ cleaner \in [Client -> CleanerThread]
      /\ TypeOK /\ EventsOK
      /\ \A c \in Client, w \in Wire : srgt[c][w] # "none" => c \in alive
  BY DEF HoldInv, TypeOK, CleanerThread, LatestOK
<1>p. \A c \in Client :
        /\ Ordered(queue[c]) /\ Ordered(cleaner[c].batch)
        /\ \A x \in Elems(cleaner[c].batch), y \in Elems(queue[c]) :
             EventLT(x.id, y.id)
  BY DEF QueuesOrdered
<1>u. ASSUME UNCHANGED queue, cleans' \subseteq cleans,
             \A c \in Client : cleaner'[c].batch = cleaner[c].batch
      PROVE  QueuesOrdered'
  BY <1>u DEF QueuesOrdered
<1>q. ASSUME NEW c \in Client,
             \A d \in Client \ {c} : queue'[d] = queue[d] /\ cleaner'[d] = cleaner[d],
             Ordered(queue'[c]), Ordered(cleaner'[c].batch),
             \A x \in Elems(cleaner'[c].batch), y \in Elems(queue'[c]) :
               EventLT(x.id, y.id),
             \A m \in cleans' : m \in cleans \/ Ordered(m.batch)
      PROVE  QueuesOrdered'
  <2>1. \A m \in cleans' : Ordered(m.batch)
    BY <1>q DEF QueuesOrdered
  <2>2. ASSUME NEW d \in Client
        PROVE  /\ Ordered(queue'[d]) /\ Ordered(cleaner'[d].batch)
               /\ \A x \in Elems(cleaner'[d].batch), y \in Elems(queue'[d]) :
                    EventLT(x.id, y.id)
    <3>1. CASE d = c
      BY <1>q, <3>1
    <3>2. CASE d # c
      BY <1>p, <1>q, <3>2
    <3> QED  BY <3>1, <3>2
  <2> QED  BY <2>1, <2>2 DEF QueuesOrdered
<1>1. CASE UNCHANGED vars
  BY <1>1, <1>u DEF vars, client
<1>2. ASSUME NEW p \in Pairs, Marshal(p) \/ Find(p) PROVE QueuesOrdered'
  <2>1. UNCHANGED <<queue, cleaner, cleans>>
    BY <1>2 DEF Marshal, InsertAndPin, SendSurrogate, Unpin, LoseReference, Find,
                FindSurrogate, FindWait, FindCreate, client
  <2> QED  BY <1>u, <2>1
<1>3. ASSUME NEW c \in Client, NEW w \in Wire,
             FindReturns(c, w) \/ Drop(c, w) \/ CleanupStale(c, w)
      PROVE  QueuesOrdered'
  <2>1. UNCHANGED <<queue, cleaner, cleans>>
    BY <1>3 DEF FindReturns, Drop, CleanupStale
  <2> QED  BY <1>u, <2>1
<1>4. ASSUME NEW c \in Client, NEW w \in Wire, FindRaises(c, w) \/ CleanupSrgt(c, w)
      PROVE  QueuesOrdered'
  <2>1. /\ \E strong \in BOOLEAN : CleanerEnqueue(c, w, strong)
        /\ UNCHANGED cleans /\ c \in alive
    BY <1>4, <1>t DEF FindRaises, Creating, CleanupSrgt
  <2>2. /\ \A d \in Client \ {c} : queue'[d] = queue[d] /\ cleaner'[d] = cleaner[d]
        /\ Ordered(queue'[c]) /\ Ordered(cleaner'[c].batch)
        /\ \A x \in Elems(cleaner'[c].batch), y \in Elems(queue'[c]) :
             EventLT(x.id, y.id)
    BY <1>t, <2>1, EnqueuedLast
  <2> QED  BY <1>q, <2>1, <2>2
<1>5. ASSUME NEW m \in dirties, AgentDirty(m) \/ LoseDirty(m) PROVE QueuesOrdered'
  <2>1. UNCHANGED <<queue, cleaner, cleans>>
    BY <1>5 DEF AgentDirty, LoseDirty, client
  <2> QED  BY <1>u, <2>1
<1>6. ASSUME NEW m \in cleans, AgentClean(m) \/ LoseClean(m) PROVE QueuesOrdered'
  <2>1. /\ UNCHANGED queue /\ cleans' \subseteq cleans
        /\ \/ UNCHANGED cleaner
           \/ cleaner' = [cleaner EXCEPT ![m.from].st = "answered"]
    BY <1>6 DEF AgentClean, LoseClean, client
  <2>2. \A c \in Client : cleaner'[c].batch = cleaner[c].batch
    <3> SUFFICES ASSUME NEW c \in Client PROVE cleaner'[c].batch = cleaner[c].batch
      OBVIOUS
    <3>1. cleaner'[c] = cleaner[c] \/ cleaner'[c] = [cleaner[c] EXCEPT !.st = "answered"]
      BY <1>t, <2>1
    <3>2. cleaner[c] \in CleanerThread
      BY <1>t
    <3> QED  BY <3>1, <3>2 DEF CleanerThread
  <2> QED  BY <1>u, <2>1, <2>2
<1>7. ASSUME NEW c \in Client, Clean(c) \/ CleanerFails(c) PROVE QueuesOrdered'
  BY <1>7, <1>q, <1>t, CleanersOrder
<1>8. ASSUME NEW c \in Client, DeadLocation(c) PROVE QueuesOrdered'
  <2>1. UNCHANGED <<queue, cleaner, cleans>>
    BY <1>8 DEF DeadLocation, client
  <2> QED  BY <1>u, <2>1
<1>9. ASSUME NEW c \in Client, Crash(c) PROVE QueuesOrdered'
  <2>1. /\ queue' = [queue EXCEPT ![c] = <<>>]
        /\ cleaner' = [cleaner EXCEPT ![c] = NoCleaner] /\ UNCHANGED cleans
    BY <1>9 DEF Crash
  <2>2. /\ \A d \in Client \ {c} : queue'[d] = queue[d] /\ cleaner'[d] = cleaner[d]
        /\ queue'[c] = <<>> /\ cleaner'[c].batch = <<>>
    BY <1>t, <2>1, IdleCleaners DEF NoCleaner
  <2> QED  BY <1>q, <2>1, <2>2, EmptyQueue
<1> QED  BY <1>1, <1>2, <1>3, <1>4, <1>5, <1>6, <1>7, <1>8, <1>9 DEF Next

-----------------------------------------------------------------------------
(* What becomes of a cleaning.                                             *)

\* The trace of what is lost only grows.
LEMMA LostGrows ==
  ASSUME TypeOK, [Next]_vars, NEW c \in Client, NEW w \in Wire
  PROVE  EventLE(lost[c][w], lost'[c][w])
<1> DEFINE Goal == EventLE(lost[c][w], lost'[c][w])
<1>t. /\ lost \in [Client -> [Wire -> Event]] /\ lost[c][w] \in Event
      /\ queue \in [Client -> Seq(CleanElem)]
      /\ cleaner \in [Client -> CleanerThread]
      /\ \A m \in cleans : m.from \in Client /\ m.batch \in Seq(CleanElem)
  BY DEF TypeOK, CleanerThread
<1>u. ASSUME UNCHANGED lost PROVE Goal
  BY <1>t, <1>u, EventOrder
<1>s. ASSUME NEW d \in Client, NEW q \in Seq(CleanElem), NEW S \in SUBSET Elems(q),
             lost' = Untraced(d, S)
      PROVE  Goal
  <2>1. S \subseteq CleanElem /\ \A T \in SUBSET S : IsFiniteSet({b.id : b \in T})
    BY QueueFacts
  <2>2. /\ \A x \in Client \ {d} : lost'[x] = lost[x]
        /\ EventLE(lost[d][w], lost'[d][w])
    BY <1>s, <2>1, Untraces
  <2> QED  BY <1>t, <2>2, EventOrder
<1> HIDE DEF Goal
<1>1. ASSUME UNCHANGED vars PROVE Goal
  BY <1>1, <1>u DEF vars
<1>2. ASSUME NEW p \in Pairs, Marshal(p) \/ Find(p) PROVE Goal
  BY <1>2, <1>u DEF Marshal, InsertAndPin, SendSurrogate, Unpin, LoseReference,
                    Find, FindSurrogate, FindWait, FindCreate
<1>3. ASSUME NEW d \in Client, NEW v \in Wire,
             FindReturns(d, v) \/ Drop(d, v) \/ CleanupStale(d, v)
      PROVE  Goal
  BY <1>3, <1>u DEF FindReturns, Drop, CleanupStale
<1>4. ASSUME NEW d \in Client, NEW v \in Wire, FindRaises(d, v) \/ CleanupSrgt(d, v)
      PROVE  Goal
  <2>1. PICK strong \in BOOLEAN : CleanerEnqueue(d, v, strong)
    BY <1>4 DEF FindRaises, CleanupSrgt
  <2> DEFINE elem == NewElem(d, v, strong)
  <2>2. lost' = lost \/ lost' = Untraced(d, {elem})
    BY <2>1 DEF CleanerEnqueue, NewElem
  <2>3. elem \in CleanElem
    BY NextEvent DEF TypeOK, CleanElem, NewElem
  <2> HIDE DEF elem
  <2>4. <<>> \in Seq(CleanElem) /\ Append(<<>>, elem) \in Seq(CleanElem)
        /\ Elems(Append(<<>>, elem)) = {elem}
    BY <2>3, AppendElems, EmptyQueue
  <2> QED  BY <1>s, <1>u, <2>2, <2>4
<1>5. ASSUME NEW m, AgentDirty(m) \/ LoseDirty(m) \/ LoseClean(m) PROVE Goal
  BY <1>5, <1>u DEF AgentDirty, LoseDirty, LoseClean
<1>6. ASSUME NEW m \in cleans, AgentClean(m) PROVE Goal
  <2>1. PICK S \in SUBSET Elems(m.batch) : lost' = Untraced(m.from, S)
    BY <1>6 DEF AgentClean
  <2> QED  BY <1>s, <1>t, <2>1
<1>7. ASSUME NEW d \in Client, Clean(d) \/ CleanerFails(d) PROVE Goal
  <2>1. \/ UNCHANGED lost
        \/ lost' = Untraced(d, Elems(queue[d]))
        \/ lost' = Untraced(d, Elems(cleaner[d].batch))
    BY <1>7 DEF Clean, CleanerTake, CleanerExit, CleanerReturns, CleanerFails
  <2>2. queue[d] \in Seq(CleanElem) /\ cleaner[d].batch \in Seq(CleanElem)
    BY <1>t DEF CleanerThread
  <2> QED  BY <1>s, <1>u, <2>1, <2>2
<1>8. ASSUME NEW d \in Client, DeadLocation(d) PROVE Goal
  <2> DEFINE f == [v \in Wire |-> IF v \in listed[d]
                     THEN Later(lost[d][v], {exports[d][v].ts}) ELSE lost[d][v]]
  <2>1. lost' = [lost EXCEPT ![d] = f]
    BY <1>8 DEF DeadLocation
  <2>2. EventLE(lost[d][w], f[w])
    <3>1. lost[d][w] \in Event /\ exports[d][w].ts \in Event
      BY <1>t DEF TypeOK, DirtyElem
    <3>2. EventLE(lost[d][w], Later(lost[d][w], {exports[d][w].ts}))
      BY <3>1, FS_Singleton, LaterProperties
    <3> QED  BY <3>1, <3>2, EventOrder
  <2> HIDE DEF f
  <2>3. lost'[c] = IF c = d THEN f ELSE lost[c]
    BY <1>t, <2>1
  <2> QED  BY <1>t, <2>2, <2>3, EventOrder DEF Goal
<1>9. ASSUME NEW d \in Client, Crash(d) PROVE Goal
  BY <1>9, <1>u DEF Crash
<1>10. Goal
  BY <1>1, <1>2, <1>3, <1>4, <1>5, <1>6, <1>7, <1>8, <1>9 DEF Next
<1> QED  BY <1>10 DEF Goal

\* The owner has heard of an event of c for w, or it does not matter any more.
Heeded(c, w, id) ==
  \/ EventLE(id, lost[c][w])
  \/ w # wire
  \/ w \in listed[c] /\ EventLE(id, exports[c][w].ts)

\* After a clean call the owner has heard of every one of its elements, though
\* it handles only those that are fresh and keeps one event of them.
LEMMA AgentHeeds ==
  ASSUME TypeOK, NEW m \in cleans, AgentClean(m), Ordered(m.batch),
         NEW e \in Elems(m.batch)
  PROVE  Heeded(m.from, e.w, e.id)'
<1> DEFINE c == m.from
<1>t. /\ c \in Client /\ m.batch \in Seq(CleanElem) /\ e \in CleanElem
      /\ listed \in [Client -> SUBSET Wire]
      /\ exports \in [Client -> [Wire -> DirtyElem]]
  <2>1. m.from \in Client /\ m.batch \in Seq(CleanElem)
    BY DEF TypeOK
  <2>2. e \in CleanElem
    BY <2>1, QueueFacts
  <2> QED  BY <2>1, <2>2 DEF TypeOK
<1>e. e.id \in Event /\ e.w \in Wire
  BY <1>t DEF CleanElem
<1>1. CASE e.w \notin listed'[c]
  <2> DEFINE S == {b \in Elems(m.batch) : b.w \notin listed'[c]}
  <2>1. lost' = Untraced(c, S) /\ e \in S
    BY <1>1 DEF AgentClean
  <2>2. S \subseteq CleanElem /\ \A T \in SUBSET S : IsFiniteSet({b.id : b \in T})
    BY <1>t, QueueFacts
  <2> HIDE DEF S
  <2>3. EventLE(e.id, lost'[c][e.w])
    BY <1>t, <2>1, <2>2, Untraces
  <2> QED  BY <2>3 DEF Heeded
<1>2. CASE e.w # wire
  <2>1. wire' \in {wire, NullT} /\ NullT \notin Wire
    BY DEF AgentClean, CheckedRemove, Wire, NullT
  <2> QED  BY <1>2, <1>e, <2>1 DEF Heeded
<1>3. ASSUME e.w = wire, e.w \in listed'[c]
      PROVE  Heeded(c, e.w, e.id)'
  <2>1. wire \in listed[c] /\ wire \in Wire
    <3>1. CASE Fresh(m) = {}
      BY <1>3, <1>e, <3>1 DEF AgentClean
    <3>2. CASE Fresh(m) # {}
      BY <3>2, CleanHandled DEF CleanEffect
    <3> QED  BY <3>1, <3>2
  <2>2. PICK k \in DOMAIN m.batch : e = m.batch[k]
    BY DEF Elems
  <2>3. EventLE(e.id, exports[c][wire].ts) \/ k \in Fresh(m)
    BY <1>3, <2>1, <2>2 DEF Fresh
  <2>t. exports[c][wire].ts \in Event
    BY <1>t, <2>1 DEF DirtyElem
  <2>4. CASE Fresh(m) = {}
    <3>1. exports' = exports
      BY <2>4 DEF AgentClean
    <3> QED  BY <1>3, <2>3, <2>4, <3>1 DEF Heeded
  <2>5. CASE Fresh(m) # {}
    <3>1. PICK i \in Fresh(m) : CleanEffect(m, i)
      BY <2>5, CleanHandled
    <3>2. exports' = [exports EXCEPT ![c][wire] =
               [dirty |-> FALSE, keep |-> TRUE, ts |-> m.batch[i].id]]
      <4>1. listed' # [listed EXCEPT ![c] = @ \ {wire}]
        BY <1>t, <1>3
      <4> QED  BY <3>1, <4>1 DEF CleanEffect
    <3>3. exports'[c][wire].ts = m.batch[i].id
      <4> DEFINE de == [dirty |-> FALSE, keep |-> TRUE, ts |-> m.batch[i].id]
      <4>1. exports' = [exports EXCEPT ![c][wire] = de] /\ de.ts = m.batch[i].id
        BY <3>2
      <4> HIDE DEF de
      <4>2. exports'[c][wire] = de
        BY <1>t, <2>1, <4>1
      <4> QED  BY <4>1, <4>2
    <3>4. /\ m.batch[i].id \in Event
          /\ EventLT(exports[c][wire].ts, m.batch[i].id)
      BY <3>1 DEF CleanEffect, CleanElem
    <3>5. CASE exports[c][wire].dirty /\ pinCount = 1
      <4>1. wire' = NullT
        BY <3>1, <3>5 DEF CleanEffect, CheckedRemove
      <4> QED  BY <1>3, <2>1, <4>1 DEF Heeded, Wire, NullT
    <3>6. CASE EventLE(e.id, exports[c][wire].ts)
      BY <1>3, <1>e, <2>t, <3>3, <3>4, <3>6, EventOrder DEF Heeded, EventLT
    <3>7. CASE k \in Fresh(m) /\ \A j \in Fresh(m) : j <= i
      <4>1. k <= i
        BY <3>7
      <4>2. k \in Nat /\ i \in Nat /\ i \in DOMAIN m.batch
        <5>1. DOMAIN m.batch = 1 .. Len(m.batch) /\ Len(m.batch) \in Nat
          BY <1>t, QueueFacts
        <5>2. i \in DOMAIN m.batch
          BY DEF Fresh
        <5> QED  BY <5>1, <5>2
      <4>3. EventLE(e.id, m.batch[i].id)
        <5>1. CASE k = i
          BY <1>e, <2>2, <5>1, EventOrder
        <5>2. CASE k < i
          BY <2>2, <4>2, <5>2 DEF Ordered, EventLT
        <5> QED  BY <4>1, <4>2, <5>1, <5>2
      <4> QED  BY <1>3, <3>3, <4>3 DEF Heeded
    <3> QED  BY <2>3, <3>1, <3>5, <3>6, <3>7 DEF CleanEffect
  <2> QED  BY <2>4, <2>5
<1> QED  BY <1>1, <1>2, <1>3

\* What the owner has heard of an object it does not forget.
LEMMA HeededStays ==
  ASSUME HoldInv, [Next]_vars, NEW c \in Client, NEW w \in Wire, w <= made,
         NEW id \in Event
  PROVE  /\ EventLT(id, lost[c][w]) => EventLT(id, lost'[c][w])
         /\ w # wire => w # wire'
         /\ w \in listed[c] /\ EventLT(id, exports[c][w].ts) =>
              \/ w \in listed'[c] /\ EventLT(id, exports'[c][w].ts)
              \/ EventLT(id, lost'[c][w])
<1>t. /\ TypeOK /\ TypeOK'
      /\ lost[c][w] \in Event /\ lost'[c][w] \in Event
      /\ exports[c][w].ts \in Event /\ exports'[c][w].ts \in Event
      /\ listed \in [Client -> SUBSET Wire]
      /\ \A m \in dirties : m.from \in Client /\ m.id \in Event
  <2>1. TypeOK /\ TypeOK'
    BY HoldStep DEF HoldInv
  <2>2. lost \in [Client -> [Wire -> Event]] /\ lost' \in [Client -> [Wire -> Event]]
    BY <2>1 DEF TypeOK
  <2>3. /\ exports \in [Client -> [Wire -> DirtyElem]]
        /\ exports' \in [Client -> [Wire -> DirtyElem]]
        /\ listed \in [Client -> SUBSET Wire]
        /\ dirties \subseteq [from : Client, w : Wire, id : Event]
    BY <2>1 DEF TypeOK
  <2> QED  BY <2>1, <2>2, <2>3 DEF DirtyElem
<1>1. ASSUME EventLT(id, lost[c][w]) PROVE EventLT(id, lost'[c][w])
  BY <1>t, <1>1, LostGrows, StrictEventOrder
<1>2. ASSUME w # wire PROVE w # wire'
  <2>1. CASE wire' \in {wire, NullT}
    BY <1>2, <2>1 DEF Wire, NullT
  <2>2. ASSUME NEW p \in Pairs, InsertAndPin(p) PROVE w # wire'
    <3>1. made \in Nat
      BY <1>t DEF TypeOK
    <3> QED  BY <1>2, <2>2, <3>1 DEF InsertAndPin, Wire
  <2> QED  BY <2>1, <2>2, NameStep
<1>3. ASSUME w \in listed[c], EventLT(id, exports[c][w].ts)
      PROVE  \/ w \in listed'[c] /\ EventLT(id, exports'[c][w].ts)
             \/ EventLT(id, lost'[c][w])
  <2>1. CASE w \in listed'[c]
    <3>1. CASE Stays(c, w)
      BY <1>3, <2>1, <3>1 DEF Stays
    <3>2. CASE Granted(c, w)
      <4>1. PICK m \in dirties : exports'[c][w].ts = m.id /\ ~Refuses(c, w, m.id)
        BY <3>2 DEF Granted
      <4>2. ~EventLE(m.id, exports[c][w].ts)
        BY <1>3, <4>1 DEF Refuses
      <4>3. EventLE(exports[c][w].ts, m.id) /\ m.id \in Event
        BY <1>t, <4>2, EventOrder
      <4> QED  BY <1>t, <1>3, <2>1, <4>1, <4>3, StrictEventOrder
    <3>3. CASE Kept(c, w)
      <4>1. EventLT(exports[c][w].ts, exports'[c][w].ts)
        BY <3>3 DEF Kept
      <4> QED  BY <1>t, <1>3, <2>1, <4>1, StrictEventOrder DEF EventLT
    <3> QED  BY <1>t, <2>1, <3>1, <3>2, <3>3, EntriesStep
  <2>2. CASE w \notin listed'[c]
    <3>1. CASE DeadLocation(c)
      <4> DEFINE f == [v \in Wire |-> IF v \in listed[c]
                         THEN Later(lost[c][v], {exports[c][v].ts}) ELSE lost[c][v]]
      <4>1. lost' = [lost EXCEPT ![c] = f]
        BY <3>1 DEF DeadLocation
      <4>2. f[w] = Later(lost[c][w], {exports[c][w].ts})
        BY <1>3
      <4> HIDE DEF f
      <4>3. lost'[c][w] = Later(lost[c][w], {exports[c][w].ts})
        BY <1>t, <4>1, <4>2 DEF TypeOK
      <4>4. EventLE(exports[c][w].ts, lost'[c][w])
        <5> DEFINE ts == exports[c][w].ts
        <5>1. ts \in Event /\ lost[c][w] \in Event
          BY <1>t
        <5> HIDE DEF ts
        <5>2. IsFiniteSet({ts}) /\ {ts} \subseteq Event
          BY <5>1, FS_Singleton
        <5>3. EventLE(ts, Later(lost[c][w], {ts}))
          BY <5>1, <5>2, LaterProperties
        <5> QED  BY <4>3, <5>3 DEF ts
      <4> QED  BY <1>t, <1>3, <4>4, StrictEventOrder
    <3>2. ASSUME NEW m \in cleans, AgentClean(m), Fresh(m) # {}
          PROVE  EventLT(id, lost'[c][w])
      <4>1. PICK i \in Fresh(m) : CleanEffect(m, i)
        BY <1>t, <3>2, CleanHandled
      <4>2. listed' = [listed EXCEPT ![m.from] = @ \ {wire}]
        BY <1>3, <2>2, <4>1 DEF CleanEffect
      <4>3. c = m.from /\ w = wire
        BY <1>t, <1>3, <2>2, <4>2 DEF TypeOK
      <4> DEFINE b == m.batch[i]
                 S == {x \in Elems(m.batch) : x.w \notin listed'[c]}
      <4>4. /\ b \in Elems(m.batch) /\ b \in CleanElem /\ b.w = w
            /\ EventLT(exports[c][w].ts, b.id)
        BY <4>1, <4>3 DEF CleanEffect
      <4>5. lost' = Untraced(c, S) /\ b \in S
        BY <2>2, <3>2, <4>3, <4>4 DEF AgentClean
      <4>6. S \subseteq CleanElem /\ \A T \in SUBSET S : IsFiniteSet({x.id : x \in T})
        <5>1. m.batch \in Seq(CleanElem)
          BY <1>t DEF TypeOK
        <5> QED  BY <5>1, QueueFacts
      <4> HIDE DEF S, b
      <4>7. EventLE(b.id, lost'[c][w])
        BY <1>t, <4>4, <4>5, <4>6, Untraces
      <4> QED  BY <1>t, <1>3, <4>4, <4>7, StrictEventOrder DEF EventLT, CleanElem
    <3>3. ASSUME UNCHANGED owner PROVE FALSE
      BY <1>3, <2>2, <3>3 DEF owner
    <3>4. ASSUME NEW p \in Pairs, InsertAndPin(p) \/ Unpin(p) PROVE FALSE
      BY <1>3, <2>2, <3>4 DEF InsertAndPin, Unpin
    <3>5. ASSUME NEW m \in dirties, AgentDirty(m) PROVE FALSE
      <4>1. UNCHANGED listed \/ listed' = [listed EXCEPT ![m.from] = @ \cup {m.w}]
        BY <3>5 DEF AgentDirty
      <4> HIDE DEF TypeOK
      <4> QED  BY <1>t, <1>3, <2>2, <4>1
    <3>6. ASSUME NEW d \in Client, DeadLocation(d) PROVE d = c
      <4>1. listed' = [listed EXCEPT ![d] = {}]
        BY <3>6 DEF DeadLocation
      <4> QED  BY <1>t, <1>3, <2>2, <4>1 DEF TypeOK
    <3> QED  BY <3>1, <3>2, <3>3, <3>4, <3>5, <3>6, OwnerStep
  <2> QED  BY <2>1, <2>2
<1> QED  BY <1>1, <1>2, <1>3

-----------------------------------------------------------------------------
(* No location stays dirty without a reason.                               *)

\* A cleaning that a program has to say, or is saying, goes on to be said, or
\* the owner hears of it, or it leaves its trace.
LEMMA CleaningGoes ==
  ASSUME HoldInv, QueuesOrdered, [Next]_vars, NEW c \in Client, c \in alive',
         NEW e, \/ e \in Elems(queue[c])
                \/ cleaner[c].st = "calling" /\ e \in Elems(cleaner[c].batch)
  PROVE  \/ e \in Elems(queue'[c])
         \/ cleaner'[c].st = "calling" /\ e \in Elems(cleaner'[c].batch)
         \/ Heeded(c, e.w, e.id)'
<1> DEFINE Goal == \/ e \in Elems(queue'[c])
                   \/ cleaner'[c].st = "calling" /\ e \in Elems(cleaner'[c].batch)
                   \/ Heeded(c, e.w, e.id)'
<1>t. /\ queue \in [Client -> Seq(CleanElem)]
      /\ cleaner \in [Client -> CleanerThread]
      /\ TypeOK /\ EventsOK
      /\ \A d \in Client, w \in Wire : srgt[d][w] # "none" => d \in alive
  BY DEF HoldInv, TypeOK, CleanerThread, LatestOK
<1>u. ASSUME queue'[c] = queue[c], cleaner'[c] = cleaner[c] PROVE Goal
  BY <1>u
<1> HIDE DEF Goal
<1>1. ASSUME UNCHANGED vars PROVE Goal
  BY <1>1, <1>u DEF vars, client
<1>2. ASSUME NEW p \in Pairs, Marshal(p) \/ Find(p) PROVE Goal
  <2>1. UNCHANGED <<queue, cleaner>>
    BY <1>2 DEF Marshal, InsertAndPin, SendSurrogate, Unpin, LoseReference, Find,
                FindSurrogate, FindWait, FindCreate, client
  <2> QED  BY <1>u, <2>1
<1>3. ASSUME NEW d \in Client, NEW w \in Wire,
             FindReturns(d, w) \/ Drop(d, w) \/ CleanupStale(d, w)
      PROVE  Goal
  <2>1. UNCHANGED <<queue, cleaner>>
    BY <1>3 DEF FindReturns, Drop, CleanupStale
  <2> QED  BY <1>u, <2>1
<1>4. ASSUME NEW d \in Client, NEW w \in Wire, FindRaises(d, w) \/ CleanupSrgt(d, w)
      PROVE  Goal
  <2>1. (\E strong \in BOOLEAN : CleanerEnqueue(d, w, strong)) /\ d \in alive
    BY <1>4, <1>t DEF FindRaises, Creating, CleanupSrgt
  <2>2. /\ \A x \in Client \ {d} : queue'[x] = queue[x] /\ cleaner'[x] = cleaner[x]
        /\ Elems(queue[d]) \subseteq Elems(queue'[d])
        /\ cleaner[d].st = "calling" => cleaner'[d] = cleaner[d]
    BY <1>t, <2>1, EnqueuedLast
  <2>3. CASE c = d
    BY <2>2, <2>3 DEF Goal
  <2>4. CASE c # d
    BY <1>u, <2>2, <2>4
  <2> QED  BY <2>3, <2>4
<1>5. ASSUME NEW m, AgentDirty(m) \/ LoseDirty(m) \/ LoseClean(m) PROVE Goal
  <2>1. UNCHANGED <<queue, cleaner>>
    BY <1>5 DEF AgentDirty, LoseDirty, LoseClean, client
  <2> QED  BY <1>u, <2>1
<1>6. ASSUME NEW m \in cleans, AgentClean(m) PROVE Goal
  <2>1. /\ UNCHANGED queue
        /\ cleaner' = IF Awaits(m) THEN [cleaner EXCEPT ![m.from].st = "answered"]
                      ELSE cleaner
    BY <1>6 DEF AgentClean
  <2>2. CASE Awaits(m) /\ c = m.from
    <3>1. cleaner[c].batch = m.batch
      BY <2>2 DEF Awaits
    <3>2. CASE e \in Elems(queue[c])
      BY <2>1, <3>2 DEF Goal
    <3>3. CASE e \in Elems(m.batch)
      <4>1. Ordered(m.batch)
        BY DEF QueuesOrdered
      <4>2. Heeded(m.from, e.w, e.id)'
        BY <1>6, <1>t, <3>3, <4>1, AgentHeeds
      <4> QED  BY <2>2, <4>2 DEF Goal
    <3> QED  BY <3>1, <3>2, <3>3
  <2>3. CASE ~(Awaits(m) /\ c = m.from)
    <3>1. cleaner'[c] = cleaner[c]
      BY <1>t, <2>1, <2>3
    <3> QED  BY <1>u, <2>1, <3>1
  <2> QED  BY <2>2, <2>3
<1>7. ASSUME NEW d \in Client, Clean(d) \/ CleanerFails(d) PROVE Goal
  <2>1. CASE c = d
    BY <1>7, <1>t, <2>1, CleanersOrder DEF Goal, Heeded
  <2>2. CASE c # d
    <3>1. queue'[c] = queue[c] /\ cleaner'[c] = cleaner[c]
      BY <1>7, <1>t, <2>2, CleanersOrder
    <3> QED  BY <1>u, <3>1
  <2> QED  BY <2>1, <2>2
<1>8. ASSUME NEW d \in Client, DeadLocation(d) PROVE Goal
  <2>1. UNCHANGED <<queue, cleaner>>
    BY <1>8 DEF DeadLocation, client
  <2> QED  BY <1>u, <2>1
<1>9. ASSUME NEW d \in Client, Crash(d) PROVE Goal
  <2>1. /\ queue' = [queue EXCEPT ![d] = <<>>]
        /\ cleaner' = [cleaner EXCEPT ![d] = NoCleaner] /\ alive' = alive \ {d}
    BY <1>9 DEF Crash
  <2>2. queue'[c] = queue[c] /\ cleaner'[c] = cleaner[c]
    BY <1>t, <2>1
  <2> QED  BY <1>u, <2>2
<1>10. Goal
  BY <1>1, <1>2, <1>3, <1>4, <1>5, <1>6, <1>7, <1>8, <1>9 DEF Next
<1> QED  BY <1>10 DEF Goal

\* What has been outdone remains outdone.
LEMMA OutdoneStays ==
  ASSUME HoldInv, QueuesOrdered, [Next]_vars, NEW c \in Client, c \in alive',
         NEW w \in Wire, w <= made, NEW id \in Event, Outdone(c, w, id)
  PROVE  Outdone(c, w, id)'
<1>1. /\ EventLT(id, lost[c][w]) => EventLT(id, lost'[c][w])
      /\ w # wire => w # wire'
      /\ w \in listed[c] /\ EventLT(id, exports[c][w].ts) =>
           \/ w \in listed'[c] /\ EventLT(id, exports'[c][w].ts)
           \/ EventLT(id, lost'[c][w])
  BY HeededStays
<1>2. ASSUME NEW e, e.w = w, EventLT(id, e.id),
             \/ e \in Elems(queue[c])
             \/ cleaner[c].st = "calling" /\ e \in Elems(cleaner[c].batch)
      PROVE  Outdone(c, w, id)'
  <2>1. CASE \/ e \in Elems(queue'[c])
             \/ cleaner'[c].st = "calling" /\ e \in Elems(cleaner'[c].batch)
    BY <1>2, <2>1 DEF Outdone
  <2>2. CASE Heeded(c, w, e.id)'
    <3>1. e.id \in Event /\ TypeOK'
      <4>1. queue[c] \in Seq(CleanElem) /\ cleaner[c].batch \in Seq(CleanElem)
        BY DEF HoldInv, TypeOK
      <4>2. e \in CleanElem
        BY <1>2, <4>1, QueueFacts
      <4> QED  BY <4>2, HoldStep DEF CleanElem, HoldInv
    <3>2. lost'[c][w] \in Event
      BY <3>1 DEF TypeOK
    <3>3. exports'[c][w].ts \in Event
      BY <3>1 DEF TypeOK, DirtyElem
    <3> QED  BY <1>2, <2>2, <3>1, <3>2, <3>3, StrictEventOrder DEF Heeded, Outdone
  <2> QED  BY <1>2, <2>1, <2>2, CleaningGoes
<1> QED  BY <1>1, <1>2 DEF Outdone

\* A program that gives up an object says so.
LEMMA GivenUp ==
  ASSUME HoldInv, QueuesOrdered, [Next]_vars, NEW c \in Client, c \in alive',
         NEW w \in Wire, srgt[c][w] # "none", srgt'[c][w] = "none",
         NEW id \in Event, EventLE(id, eCount[c])
  PROVE  Outdone(c, w, id)'
<1> DEFINE Goal == Outdone(c, w, id)'
<1>t. /\ srgt \in [Client -> [Wire ->
           {"none", "creating", "granted", "refused", "live", "dead"}]]
      /\ TypeOK /\ EventsOK
      /\ \A p \in Pairs : p[2] \in Client
      /\ \A d \in Client, v \in Wire : srgt[d][v] # "none" => d \in alive
  BY ClientAssumption DEF HoldInv, TypeOK, LatestOK
<1> HIDE DEF Goal
<1>1. ASSUME UNCHANGED srgt PROVE FALSE
  BY <1>1
<1>2. ASSUME NEW p \in Pairs, FindCreate(p) PROVE FALSE
  <2> DEFINE r == p[2]
             v == xfer[p].w
  <2>1. srgt' = [srgt EXCEPT ![r][v] = "creating"]
    BY <1>2 DEF FindCreate
  <2> HIDE DEF r, v
  <2> QED  BY <1>t, <2>1
<1>3. ASSUME NEW d \in Client, NEW v \in Wire, FindReturns(d, v) \/ Drop(d, v)
      PROVE  FALSE
  <2>1. \/ srgt' = [srgt EXCEPT ![d][v] = "live"]
        \/ srgt' = [srgt EXCEPT ![d][v] = "dead"]
    BY <1>3 DEF FindReturns, Drop
  <2> QED  BY <1>t, <2>1
<1>4. ASSUME NEW d \in Client, NEW v \in Wire, FindRaises(d, v) \/ CleanupSrgt(d, v)
      PROVE  Goal
  <2>1. srgt' = [srgt EXCEPT ![d][v] = "none"]
    BY <1>4 DEF FindRaises, CleanupSrgt
  <2>2. c = d /\ w = v
    BY <1>t, <2>1
  <2>3. PICK strong \in BOOLEAN : CleanerEnqueue(c, w, strong)
    BY <1>4, <2>2 DEF FindRaises, CleanupSrgt
  <2> DEFINE elem == NewElem(c, w, strong)
  <2>4. c \in alive
    BY <1>t
  <2>5. /\ elem \in CleanElem /\ elem.w = w /\ EventLT(id, elem.id)
        /\ elem \in Elems(queue'[c]) \/ EventLE(elem.id, lost'[c][w])
    BY <1>t, <2>3, <2>4, EnqueuedLast
  <2>6. lost'[c][w] \in Event
    <3>1. TypeOK'
      BY HoldStep DEF HoldInv
    <3>2. lost' \in [Client -> [Wire -> Event]]
      BY <3>1 DEF TypeOK
    <3> QED  BY <3>2
  <2> HIDE DEF elem
  <2>7. CASE elem \in Elems(queue'[c])
    BY <2>5, <2>7 DEF Goal, Outdone
  <2>8. CASE EventLE(elem.id, lost'[c][w])
    <3>1. elem.id \in Event
      BY <2>5 DEF CleanElem
    <3> QED  BY <2>5, <2>6, <2>8, <3>1, StrictEventOrder DEF Goal, Outdone
  <2> QED  BY <2>5, <2>7, <2>8
<1>5. ASSUME NEW m \in dirties, AgentDirty(m) PROVE FALSE
  <2>1. srgt' = Answered(m, "refused") \/ srgt' = Answered(m, "granted")
    BY <1>5 DEF AgentDirty
  <2> QED  BY <1>t, <2>1, AnswerTypes
<1>6. ASSUME NEW d \in Client, Crash(d) PROVE FALSE
  <2>1. srgt' = [srgt EXCEPT ![d] = [v \in Wire |-> "none"]] /\ alive' = alive \ {d}
    BY <1>6 DEF Crash
  <2> QED  BY <1>t, <2>1
<1>7. \/ UNCHANGED srgt
      \/ \E p \in Pairs : FindCreate(p)
      \/ \E d \in Client, v \in Wire :
           \/ FindReturns(d, v) \/ Drop(d, v)
           \/ FindRaises(d, v) \/ CleanupSrgt(d, v)
      \/ \E m \in dirties : AgentDirty(m)
      \/ \E d \in Client : Crash(d)
  BY DEF Next, vars, client, Marshal, InsertAndPin, SendSurrogate, Unpin,
         LoseReference, Find, FindSurrogate, FindWait, CleanupStale, LoseDirty,
         LoseClean, AgentClean, Clean, CleanerTake, CleanerExit, CleanerReturns,
         CleanerFails, DeadLocation
<1> QED  BY <1>1, <1>2, <1>3, <1>4, <1>5, <1>6, <1>7 DEF Goal

LEMMA DirtiesStep ==
  ASSUME HoldInv, QueuesOrdered, DirtiesOutdone, [Next]_vars
  PROVE  DirtiesOutdone'
<1> SUFFICES ASSUME NEW m \in dirties', m.from \in alive',
                    srgt'[m.from][m.w] = "none"
             PROVE  Outdone(m.from, m.w, m.id)'
  BY DEF DirtiesOutdone
<1>t. /\ TypeOK /\ NamesOK /\ EventsOK /\ LatestOK
      /\ dirties' \subseteq [from : Client, w : Wire, id : Event]
      /\ srgt \in [Client -> [Wire ->
           {"none", "creating", "granted", "refused", "live", "dead"}]]
  BY HoldStep DEF HoldInv, TypeOK
<1>1. m.from \in Client /\ m.w \in Wire /\ m.id \in Event
  BY <1>t
<1>2. m.from \in alive /\ Goes(m.from)
  BY <1>t, <1>1, ProgramsStep
<1>3. m \in dirties
  <2>1. ASSUME NEW v \in Wire, Begins(m.from, v) PROVE m \in dirties
    <3>1. srgt'[m.from][v] = "creating"
      BY <1>t, <1>1, <2>1 DEF Begins
    <3>2. m.w # v
      BY <3>1
    <3> QED  BY <2>1, <3>2 DEF Begins
  <2> QED  BY <1>2, <2>1 DEF Goes, Continues, Ends
<1>4. m.w <= made
  BY <1>3, <1>t DEF NamesOK
<1>5. CASE srgt[m.from][m.w] = "none"
  <2>1. Outdone(m.from, m.w, m.id)
    BY <1>2, <1>3, <1>5 DEF DirtiesOutdone
  <2> QED  BY <1>1, <1>4, <2>1, OutdoneStays
<1>6. CASE srgt[m.from][m.w] # "none"
  <2>1. EventLE(m.id, eCount[m.from])
    BY <1>t, <1>2, <1>3 DEF EventsOK
  <2> QED  BY <1>1, <1>6, <2>1, GivenUp
<1> QED  BY <1>5, <1>6

LEMMA ReasonStep ==
  ASSUME LeakInv, [Next]_vars
  PROVE  DirtyHasReason'
<1> SUFFICES ASSUME NEW c \in Client, NEW w \in Wire, Dirty(c, w)',
                    c \in alive', srgt'[c][w] = "none"
             PROVE  Pending(c, w)' \/ EventLT(exports'[c][w].ts, lost'[c][w])
  BY DEF DirtyHasReason, HasReason
<1>i. HoldInv /\ QueuesOrdered /\ DirtiesOutdone /\ DirtyHasReason
  BY DEF LeakInv
<1>t. /\ TypeOK /\ NamesOK /\ EventsOK /\ LatestOK /\ TypeOK' /\ NeverDies'
      /\ listed \in [Client -> SUBSET Wire]
      /\ exports \in [Client -> [Wire -> DirtyElem]]
      /\ exports' \in [Client -> [Wire -> DirtyElem]]
      /\ \A m \in dirties : m.from \in Client /\ m.w \in Wire /\ m.id \in Event
  <2>1. HoldInv'
    BY <1>i, HoldStep
  <2> QED  BY <1>i, <2>1 DEF HoldInv, TypeOK
<1>1. w \in listed'[c] /\ exports'[c][w].dirty /\ w = wire'
  BY <1>t DEF Dirty, NeverDies
<1>2. PICK ts \in Event : exports'[c][w].ts = ts
  BY <1>t DEF DirtyElem
<1>3. SUFFICES Outdone(c, w, ts)'
  BY <1>1, <1>2 DEF Outdone, Pending, EventLT
<1>4. c \in alive /\ Goes(c)
  BY <1>t, ProgramsStep
<1>5. CASE Stays(c, w)
  <2>1. Dirty(c, w) /\ exports[c][w].ts = ts
    BY <1>1, <1>2, <1>5 DEF Stays, Dirty
  <2>2. w <= made
    BY <2>1, <1>t DEF NamesOK, Dirty
  <2>3. CASE srgt[c][w] = "none"
    <3>1. Pending(c, w) \/ EventLT(ts, lost[c][w])
      BY <1>i, <1>4, <2>1, <2>3 DEF DirtyHasReason, HasReason
    <3>2. Outdone(c, w, ts)
      BY <2>1, <3>1 DEF Pending, Outdone
    <3> QED  BY <1>i, <2>2, <3>2, OutdoneStays
  <2>4. CASE srgt[c][w] # "none"
    <3>1. EventLE(ts, eCount[c])
      BY <1>t, <1>4, <2>1 DEF EventsOK, Dirty
    <3> QED  BY <1>i, <2>4, <3>1, GivenUp
  <2> QED  BY <2>3, <2>4
<1>6. CASE Granted(c, w)
  <2>1. PICK m \in dirties : m.from = c /\ m.w = w /\ m.id = ts /\ AgentDirty(m)
    BY <1>2, <1>6 DEF Granted
  <2>2. srgt[c][w] = "none"
    <3>1. srgt' = Answered(m, "refused") \/ srgt' = Answered(m, "granted")
      BY <2>1 DEF AgentDirty
    <3>2. \A a \in {"granted", "refused"} :
            Answered(m, a)[c][w] = srgt[c][w] \/ Answered(m, a)[c][w] = a
      BY <1>t, <2>1, AnswerTypes
    <3>3. srgt'[c][w] = srgt[c][w] \/ srgt'[c][w] \in {"granted", "refused"}
      BY <3>1, <3>2
    <3> QED  BY <3>3
  <2>3. Outdone(c, w, ts)
    BY <1>i, <1>4, <2>1, <2>2 DEF DirtiesOutdone
  <2>4. w <= made
    BY <1>t, <2>1 DEF NamesOK
  <2> QED  BY <1>i, <2>3, <2>4, OutdoneStays
<1>7. ~Kept(c, w)
  BY <1>1 DEF Kept
<1> QED  BY <1>1, <1>5, <1>6, <1>7, <1>t, EntriesStep

LEMMA InitLeaks == Init => LeakInv
<1> SUFFICES ASSUME Init PROVE LeakInv
  OBVIOUS
<1>1. NoCleaner.batch = <<>> /\ Ordered(<<>>) /\ Elems(<<>>) = {}
  BY EmptyQueue, IdleCleaners DEF NoCleaner
<1>2. QueuesOrdered
  BY <1>1 DEF Init, QueuesOrdered
<1>3. DirtiesOutdone /\ DirtyHasReason
  BY DEF Init, DirtiesOutdone, DirtyHasReason, Dirty
<1> QED  BY <1>2, <1>3, InitHolds DEF LeakInv

LEMMA LeakStep == ASSUME LeakInv, [Next]_vars PROVE LeakInv'
<1> QED  BY HoldStep, QueuesStep, DirtiesStep, ReasonStep DEF LeakInv

\* While a location is dirty its program has a surrogate, or has a clean call
\* to make that is later than the entry, or has crashed - or a cleaning later
\* than the entry was dropped, or came before it.  What is handled late, twice
\* or after a batch was cut short leaves no other way to a leak.
THEOREM ReasonsCorrect == Spec => []DirtyHasReason
<1> LeakInv => DirtyHasReason
  BY DEF LeakInv
<1> QED  BY InitLeaks, LeakStep, PTL DEF Spec
=============================================================================
