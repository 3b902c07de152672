------------------------------ MODULE NetObjRT ------------------------------
(***************************************************************************)
(* The runtime of network objects (netobj/src/netobjrt/NetObjRT.m3): how   *)
(* the owner of an object knows which programs hold surrogates for it.     *)
(*                                                                         *)
(* One owner has one object.  Each client is a program instance, which the *)
(* owner knows as a location.  A program that unmarshals a reference to    *)
(* the object makes a surrogate once its dirty call has returned; when its *)
(* collector finds the surrogate unreachable, its cleaner tells the owner  *)
(* by a clean call.  Calls travel on connections of their own: they arrive *)
(* in any order, their callers may give them up, and a call given up may   *)
(* still be carried out or never arrive.                                   *)
(***************************************************************************)
EXTENDS Integers, Sequences, FiniteSets

CONSTANTS
  Client,       \* the programs that may hold surrogates
  Owner,        \* the program that has the object
  Pairs,        \* <<sender, receiver>> of the references that are marshalled
  Mortal,       \* the clients that may crash
  LastInt32,    \* LAST(Int32)
  BatchLen,     \* DefaultBatchLen, the most elements of one clean call
  Tries,        \* CleanerApply's tries
  MaxEvent,     \* bound: [c -> the last event at which c begins a dirty call]
  MaxWires,     \* bound: how often the object is exported
  MaxFailures,  \* bound: calls that fail or are given up by their callers, not
                \* counting a clean call's tries after the first
  MaxDeaths     \* bound: times the owner takes a live client for dead

ASSUME ClientAssumption ==
  /\ IsFiniteSet(Client) /\ Owner \notin Client /\ Mortal \subseteq Client
  /\ Pairs \subseteq {p \in (Client \cup {Owner}) \X Client : p[1] # p[2]}

ASSUME BoundAssumption ==
  /\ LastInt32 \in Nat \ {0} /\ BatchLen \in Nat \ {0} /\ Tries \in Nat \ {0}
  /\ MaxEvent \in [Client -> Nat]
  /\ MaxWires \in Nat /\ MaxFailures \in Nat /\ MaxDeaths \in Nat

Wire == 1 .. MaxWires   \* WireRep.New() gives a number not given before
NullT == 0              \* WireRep.NullT
Event == (0 .. LastInt32) \X Nat   \* EventID, least significant word first

VARIABLES
  wire,      \* the wire representation of the object, in objTbl iff not NullT
  made,      \* how many wire representations it has had
  pinCount,  \* ExportInfo.pinCount
  listed,    \* [c -> the wire representations in exports of location c]
  exports,   \* [c -> [w -> DirtyElem.T]], defined for those listed
  srgt,      \* [c -> [w -> objTbl's entry at c and its surrogate's state]]
  reg,       \* [c -> [w -> the event of the last dirty call]]
  stale,     \* surrogates whose entry is gone and whose cleanup is to come
  eCount,    \* [c -> the last event]
  queue,     \* [c -> the queue that c's cleaner sees]
  cleaner,   \* [c -> c's cleaner thread]
  xfer,      \* [p -> the reference that is marshalled from p[1] to p[2]]
  dirties,   \* dirty calls that have not been carried out
  cleans,    \* clean calls that have not been carried out
  alive,     \* the clients that have not crashed
  failures, deaths,
  void,      \* history: surrogates whose owner took the client for dead
  lost       \* history: [c -> cleanings that the owner has not heard of]

owner == <<wire, made, pinCount, listed, exports>>
client == <<srgt, reg, stale, eCount, queue, cleaner>>
vars == <<owner, client, xfer, dirties, cleans, alive, failures, deaths,
          void, lost>>

-----------------------------------------------------------------------------
(* Events.                                                                 *)

\* Fault: only the less significant words are compared.
EventLELow(e1, e2) == e1[1] <= e2[1]

EventLE(e1, e2) ==
  IF e1[2] = e2[2] THEN e1[1] <= e2[1] ELSE e1[2] < e2[2]

Ordinal(e) == e[1] + e[2] * (LastInt32 + 1)

EventLT(e1, e2) == EventLE(e1, e2) /\ e1 # e2

\* Fault: the less significant word is never reset.
NextEventIDNoCarry(e) == <<e[1] + 1, e[2]>>

NextEventID(e) ==
  IF e[1] = LastInt32 THEN <<0, e[2] + 1>> ELSE <<e[1] + 1, e[2]>>

-----------------------------------------------------------------------------
(* Initial states.                                                         *)

DirtyElem == [dirty : BOOLEAN, keep : BOOLEAN, ts : Event]
CleanElem == [w : Wire, id : Event, strong : BOOLEAN]
Uncalled(st, ok) ==
  [st |-> st, batch |-> <<>>, strong |-> FALSE, try |-> 0, ok |-> ok]
NoCleaner == Uncalled("none", TRUE)
NewCleaner == Uncalled("ready", TRUE)

Init ==
  /\ wire = NullT /\ made = 0 /\ pinCount = 0
  /\ listed = [c \in Client |-> {}]
  /\ exports = [c \in Client |-> [w \in Wire |->
                  [dirty |-> FALSE, keep |-> FALSE, ts |-> <<0, 0>>]]]
  /\ srgt = [c \in Client |-> [w \in Wire |-> "none"]]
  /\ reg = [c \in Client |-> [w \in Wire |-> <<0, 0>>]]
  /\ stale = {}
  /\ eCount = [c \in Client |-> <<0, 0>>]
  /\ queue = [c \in Client |-> <<>>]
  /\ cleaner = [c \in Client |-> NoCleaner]
  /\ xfer = [p \in Pairs |-> [w |-> NullT, pinned |-> FALSE, at |-> "idle"]]
  /\ dirties = {} /\ cleans = {}
  /\ alive = Client /\ failures = 0 /\ deaths = 0
  /\ void = {} /\ lost = [c \in Client |-> [w \in Wire |-> <<0, 0>>]]

-----------------------------------------------------------------------------
(* What a location knows, and calls under way.                             *)

Dirty(c, w) == w \in listed[c] /\ exports[c][w].dirty

\* The entry has ready = FALSE: the dirty call is under way, or its answer is.
Creating(c, w) == srgt[c][w] \in {"creating", "granted", "refused"}

Awaits(m) ==
  /\ cleaner[m.from].st = "calling"
  /\ cleaner[m.from].batch = m.batch /\ cleaner[m.from].try = m.try

\* The answer of a dirty call that its caller has given up is discarded.
Answered(m, a) ==
  IF srgt[m.from][m.w] = "creating" /\ reg[m.from][m.w] = m.id
  THEN [srgt EXCEPT ![m.from][m.w] = a] ELSE srgt

\* The latest event of c for w that the owner has no trace of.
Later(e, S) ==
  IF \A f \in S : EventLE(f, e) THEN e
  ELSE CHOOSE f \in S : \A g \in S : EventLE(g, f)
Untraced(c, S) ==
  [lost EXCEPT ![c] =
     [w \in Wire |-> Later(@[w], {b.id : b \in {x \in S : x.w = w}})]]

Elems(q) == {q[i] : i \in DOMAIN q}

-----------------------------------------------------------------------------
(* Marshalling: InsertAndPin and Unpin.                                    *)

\* Fault: an object that is in the table already is not pinned again.
PinOnce(n) == IF n = 0 THEN 1 ELSE n
Pin(n) == n + 1

\* The object leaves the table when its pin count becomes zero.
CheckedRemove == wire' = IF pinCount' = 0 THEN NullT ELSE wire

Sends(p, w) ==
  /\ p[2] \in alive
  /\ ~xfer[p].pinned /\ xfer[p].at = "idle"
  /\ xfer' = [xfer EXCEPT ![p] = [w |-> w, pinned |-> TRUE, at |-> "sent"]]

\* The owner marshals the object.
InsertAndPin(p) ==
  /\ p[1] = Owner
  /\ \/ /\ wire = NullT /\ made < MaxWires
        /\ wire' = made + 1 /\ made' = made + 1
     \/ /\ wire # NullT
        /\ UNCHANGED <<wire, made>>
  /\ pinCount' = Pin(pinCount)
  /\ Sends(p, wire')
  /\ UNCHANGED <<listed, exports, client, dirties, cleans, alive, failures,
                 deaths, void, lost>>

\* A client marshals its surrogate, which the connection's stack keeps alive.
SendSurrogate(p, w) ==
  /\ p[1] \in alive /\ srgt[p[1]][w] = "live"
  /\ Sends(p, w)
  /\ UNCHANGED <<owner, client, dirties, cleans, alive, failures, deaths,
                 void, lost>>

\* The sender's call ends, or the sender gives it up.
Unpin(p) ==
  /\ xfer[p].pinned
  /\ xfer' = [xfer EXCEPT ![p].pinned = FALSE]
  /\ \/ xfer[p].at = "idle" /\ UNCHANGED failures
     \/ /\ xfer[p].at # "idle" /\ failures < MaxFailures
        /\ failures' = failures + 1
  /\ IF p[1] = Owner THEN pinCount' = pinCount - 1 /\ CheckedRemove
     ELSE UNCHANGED <<pinCount, wire>>
  /\ UNCHANGED <<made, listed, exports, client, dirties, cleans, alive, deaths,
                 void, lost>>

\* The reference never arrives.
LoseReference(p) ==
  /\ xfer[p].at = "sent" /\ failures < MaxFailures
  /\ xfer' = [xfer EXCEPT ![p].at = "idle"]
  /\ failures' = failures + 1
  /\ UNCHANGED <<owner, client, dirties, cleans, alive, deaths, void, lost>>

-----------------------------------------------------------------------------
(* Unmarshalling: Find.                                                    *)

Reader(p) == p[2] \in alive /\ xfer[p].at = "sent"

FindSurrogate(p) ==
  /\ Reader(p) /\ srgt[p[2]][xfer[p].w] = "live"
  /\ xfer' = [xfer EXCEPT ![p].at = "idle"]
  /\ UNCHANGED <<owner, client, dirties, cleans, alive, failures, deaths,
                 void, lost>>

\* Another thread is making the surrogate: wait for its Broadcast.
FindWait(p) ==
  /\ Reader(p) /\ Creating(p[2], xfer[p].w)
  /\ xfer' = [xfer EXCEPT ![p].at = "asleep"]
  /\ UNCHANGED <<owner, client, dirties, cleans, alive, failures, deaths,
                 void, lost>>

\* There is no surrogate, or a dead one whose cleanup has not begun.
FindCreate(p) ==
  LET r == p[2]
      w == xfer[p].w
      ts == NextEventID(eCount[r])
  IN /\ Reader(p) /\ srgt[r][w] \in {"none", "dead"}
     /\ Ordinal(ts) <= MaxEvent[r]
     /\ eCount' = [eCount EXCEPT ![r] = ts]
     /\ srgt' = [srgt EXCEPT ![r][w] = "creating"]
     /\ reg' = [reg EXCEPT ![r][w] = ts]
     /\ stale' = IF srgt[r][w] = "dead" THEN stale \cup {<<r, w>>} ELSE stale
     /\ dirties' = dirties \cup {[from |-> r, w |-> w, id |-> ts]}
     /\ xfer' = [xfer EXCEPT ![p].at = "finding"]
     /\ void' = void \ {<<r, w>>}
     /\ UNCHANGED <<owner, queue, cleaner, cleans, alive, failures, deaths,
                    lost>>

\* Fault: the threads that wait are not woken.
Forget(r, w) ==
  [p \in Pairs |-> IF p[2] = r /\ xfer[p].at = "finding" /\ xfer[p].w = w
                   THEN [xfer[p] EXCEPT !.at = "idle"] ELSE xfer[p]]

\* The thread that made the call returns or raises; Broadcast wakes the others.
Broadcast(r, w) ==
  [p \in Pairs |->
     CASE p[2] = r /\ xfer[p].at = "finding" /\ xfer[p].w = w ->
            [xfer[p] EXCEPT !.at = "idle"]
       [] p[2] = r /\ xfer[p].at = "asleep" -> [xfer[p] EXCEPT !.at = "sent"]
       [] OTHER -> xfer[p]]

\* Fault: the caller of a dirty call that failed does not clean up after it.
EnqueueNothing(r, w, strong) == UNCHANGED <<eCount, queue, cleaner, lost>>

\* An element that joins an empty queue is linked behind one that the cleaner
\* has taken: the cleaner does not see it.
CleanerEnqueue(r, w, strong) ==
  LET elem == [w |-> w, id |-> NextEventID(eCount[r]), strong |-> strong]
      idle == cleaner[r].st = "none"
      seen == idle \/ queue[r] # <<>>
  IN /\ eCount' = [eCount EXCEPT ![r] = elem.id]
     /\ cleaner' = IF idle THEN [cleaner EXCEPT ![r] = NewCleaner] ELSE cleaner
     /\ queue' = IF seen THEN [queue EXCEPT ![r] = Append(@, elem)] ELSE queue
     /\ lost' = IF seen THEN lost ELSE Untraced(r, {elem})

FindReturns(r, w) ==
  /\ srgt[r][w] = "granted"
  /\ srgt' = [srgt EXCEPT ![r][w] = "live"]
  /\ xfer' = Broadcast(r, w)
  /\ UNCHANGED <<owner, reg, stale, eCount, queue, cleaner, dirties, cleans,
                 alive, failures, deaths, void, lost>>

\* The dirty call was refused, failed, or was given up.
FindRaises(r, w) ==
  /\ Creating(r, w)
  /\ \/ srgt[r][w] = "refused" /\ UNCHANGED failures
     \/ /\ srgt[r][w] # "refused" /\ failures < MaxFailures
        /\ failures' = failures + 1
  /\ srgt' = [srgt EXCEPT ![r][w] = "none"]
  /\ CleanerEnqueue(r, w, TRUE)
  /\ xfer' = Broadcast(r, w)
  /\ UNCHANGED <<owner, reg, stale, dirties, cleans, alive, deaths, void>>

-----------------------------------------------------------------------------
(* The owner: AgentDirty, AgentClean, DeadLocation.                        *)

\* A dirty call that comes after a later event of its location is refused.
Refuses(c, w, id) ==
  \/ w # wire
  \/ w \in listed[c] /\ EventLE(id, exports[c][w].ts)

AgentDirty(m) ==
  LET c == m.from
      w == m.w
  IN /\ dirties' = dirties \ {m}
     /\ \/ /\ Refuses(c, w, m.id)
           /\ srgt' = Answered(m, "refused")
           /\ UNCHANGED <<pinCount, listed, exports>>
        \/ /\ ~Refuses(c, w, m.id)
           /\ srgt' = Answered(m, "granted")
           /\ pinCount' = IF Dirty(c, w) THEN pinCount ELSE Pin(pinCount)
           /\ listed' = [listed EXCEPT ![c] = @ \cup {w}]
           /\ exports' = [exports EXCEPT ![c][w] =
                [dirty |-> TRUE, keep |-> w \in listed[c] /\ @.keep,
                 ts |-> m.id]]
     /\ UNCHANGED <<wire, made, reg, stale, eCount, queue, cleaner, xfer,
                    cleans, alive, failures, deaths, void, lost>>

\* The elements of the batch that are not beaten by a dirty call.
Fresh(m) ==
  {i \in DOMAIN m.batch : LET elem == m.batch[i] IN
     /\ elem.w = wire /\ elem.w \in listed[m.from]
     /\ ~EventLE(elem.id, exports[m.from][elem.w].ts)}

\* The last of them that is handled: once the object is not in the table the
\* rest of the batch is ignored.
LastHandled(m, removed) ==
  CHOOSE i \in Fresh(m) :
    \A j \in Fresh(m) : IF removed THEN i <= j ELSE j <= i

\* Fault: a weak clean call takes the keep mark away.
CleanedWeakly(m, removed) ==
  LET c == m.from
      de == exports[c][wire]
  IN IF m.strong \/ de.keep
     THEN /\ exports' = [exports EXCEPT ![c][wire] =
               [dirty |-> FALSE, keep |-> m.strong,
                ts |-> m.batch[LastHandled(m, TRUE)].id]]
          /\ UNCHANGED listed
     ELSE /\ listed' = [listed EXCEPT ![c] = @ \ {wire}]
          /\ UNCHANGED exports

Cleaned(m, removed) ==
  LET c == m.from
      de == exports[c][wire]
  IN IF m.strong \/ de.keep
     THEN /\ exports' = [exports EXCEPT ![c][wire] =
               [dirty |-> FALSE, keep |-> TRUE,
                ts |-> m.batch[LastHandled(m, removed)].id]]
          /\ UNCHANGED listed
     ELSE /\ listed' = [listed EXCEPT ![c] = @ \ {wire}]
          /\ UNCHANGED exports

AgentClean(m) ==
  LET c == m.from
      de == exports[c][wire]
  IN /\ cleans' = cleans \ {m}
     /\ \/ /\ Fresh(m) = {}
           /\ UNCHANGED <<wire, pinCount, listed, exports>>
        \/ /\ Fresh(m) # {}
           /\ Cleaned(m, de.dirty /\ pinCount = 1)
           /\ IF de.dirty THEN pinCount' = pinCount - 1 /\ CheckedRemove
              ELSE UNCHANGED <<pinCount, wire>>
     /\ cleaner' = IF Awaits(m) THEN [cleaner EXCEPT ![c].st = "answered"]
                   ELSE cleaner
     /\ lost' = Untraced(c, {b \in Elems(m.batch) : b.w \notin listed'[c]})
     /\ UNCHANGED <<made, srgt, reg, stale, eCount, queue, xfer, dirties,
                    alive, failures, deaths, void>>

\* Fault: a dead location's objects stay pinned.
DeadLocationPins(c) ==
  /\ listed[c] # {} /\ c \notin alive
  /\ listed' = [listed EXCEPT ![c] = {}]
  /\ UNCHANGED <<wire, made, pinCount, exports, client, xfer, dirties, cleans,
                 alive, failures, deaths, void, lost>>

\* The transport takes the client for dead, which need not be so.
DeadLocation(c) ==
  /\ listed[c] # {}
  /\ \/ c \notin alive /\ UNCHANGED <<deaths, void>>
     \/ /\ c \in alive /\ deaths < MaxDeaths
        /\ deaths' = deaths + 1
        /\ void' = void \cup {<<c, w>> : w \in
             {v \in listed[c] : srgt[c][v] \in {"granted", "live", "dead"}}}
  /\ pinCount' =
       pinCount - Cardinality({w \in listed[c] : exports[c][w].dirty})
  /\ IF \E w \in listed[c] : exports[c][w].dirty THEN CheckedRemove
     ELSE UNCHANGED wire
  /\ listed' = [listed EXCEPT ![c] = {}]
  /\ lost' = [lost EXCEPT ![c] = [w \in Wire |->
       IF w \in listed[c] THEN Later(@[w], {exports[c][w].ts}) ELSE @[w]]]
  /\ UNCHANGED <<made, exports, client, xfer, dirties, cleans, alive, failures>>

\* A call that its caller has given up need not arrive.
LoseDirty(m) ==
  /\ ~(srgt[m.from][m.w] = "creating" /\ reg[m.from][m.w] = m.id)
  /\ dirties' = dirties \ {m}
  /\ UNCHANGED <<owner, client, xfer, cleans, alive, failures, deaths, void,
                 lost>>

LoseClean(m) ==
  /\ ~Awaits(m)
  /\ cleans' = cleans \ {m}
  /\ UNCHANGED <<owner, client, xfer, dirties, alive, failures, deaths, void,
                 lost>>

-----------------------------------------------------------------------------
(* The client: its collector, CleanupSrgt and CleanerApply.                *)

\* The collector finds the surrogate unreachable: WeakRef.ToRef gives NIL.
Drop(c, w) ==
  /\ c \in alive /\ srgt[c][w] = "live"
  /\ \A p \in Pairs : p[1] = c /\ xfer[p].w = w => ~xfer[p].pinned
  /\ srgt' = [srgt EXCEPT ![c][w] = "dead"]
  /\ UNCHANGED <<owner, reg, stale, eCount, queue, cleaner, xfer, dirties,
                 cleans, alive, failures, deaths, void, lost>>

CleanupSrgt(c, w) ==
  /\ srgt[c][w] = "dead"
  /\ srgt' = [srgt EXCEPT ![c][w] = "none"]
  /\ CleanerEnqueue(c, w, FALSE)
  /\ UNCHANGED <<owner, reg, stale, xfer, dirties, cleans, alive, failures,
                 deaths, void>>

\* Fault: the cleanup does not look whether the entry is its surrogate's.
CleanupAny(c, w) ==
  /\ <<c, w>> \in stale
  /\ stale' = stale \ {<<c, w>>}
  /\ CleanerEnqueue(c, w, FALSE)
  /\ UNCHANGED <<owner, srgt, reg, xfer, dirties, cleans, alive, failures,
                 deaths, void>>

\* Beaten by a fresh unmarshal: there is no entry, or it is another's.
CleanupStale(c, w) ==
  /\ <<c, w>> \in stale
  /\ stale' = stale \ {<<c, w>>}
  /\ UNCHANGED <<owner, srgt, reg, eCount, queue, cleaner, xfer, dirties,
                 cleans, alive, failures, deaths, void, lost>>

Call(c, batch, strong, try) ==
  /\ cleaner' = [cleaner EXCEPT ![c] = [st |-> "calling", batch |-> batch,
                   strong |-> strong, try |-> try, ok |-> TRUE]]
  /\ cleans' = cleans \cup
       {[from |-> c, batch |-> batch, strong |-> strong, try |-> try]}

\* A batch is the longest run of elements that are alike, up to its limit.
Batches(q) ==
  {n \in 1 .. Len(q) : /\ n <= BatchLen
                       /\ \A i \in 1 .. n : q[i].strong = q[1].strong}

CleanerTake(c) ==
  LET q == queue[c]
      n == Cardinality(Batches(q))
  IN /\ cleaner[c].st = "ready" /\ cleaner[c].ok /\ q # <<>>
     /\ Call(c, SubSeq(q, 1, n), q[1].strong, 1)
     /\ queue' = [queue EXCEPT ![c] = SubSeq(q, n + 1, Len(q))]
     /\ UNCHANGED <<owner, srgt, reg, stale, eCount, xfer, dirties, alive,
                    failures, deaths, void, lost>>

\* After a call that failed to the end, whatever the queue holds is dropped.
CleanerExit(c) ==
  /\ cleaner[c].st = "ready" /\ (~cleaner[c].ok \/ queue[c] = <<>>)
  /\ cleaner' = [cleaner EXCEPT ![c] = NoCleaner]
  /\ queue' = [queue EXCEPT ![c] = <<>>]
  /\ lost' = Untraced(c, Elems(queue[c]))
  /\ UNCHANGED <<owner, srgt, reg, stale, eCount, xfer, dirties, cleans, alive,
                 failures, deaths, void>>

CleanerReturns(c) ==
  /\ cleaner[c].st = "answered"
  /\ cleaner' = [cleaner EXCEPT ![c] = NewCleaner]
  /\ UNCHANGED <<owner, srgt, reg, stale, eCount, queue, xfer, dirties, cleans,
                 alive, failures, deaths, void, lost>>

\* The call, or its answer, is lost: try again, or give up.
CleanerFails(c) ==
  LET cl == cleaner[c]
  IN /\ cl.st \in {"calling", "answered"}
     /\ \/ cl.try > 1 /\ UNCHANGED failures
        \/ /\ cl.try = 1 /\ failures < MaxFailures
           /\ failures' = failures + 1
     /\ \/ /\ cl.try < Tries
           /\ Call(c, cl.batch, cl.strong, cl.try + 1)
           /\ UNCHANGED lost
        \/ /\ cl.try = Tries
           /\ cleaner' = [cleaner EXCEPT ![c] = Uncalled("ready", FALSE)]
           /\ lost' = Untraced(c, Elems(cl.batch))
           /\ UNCHANGED cleans
     /\ UNCHANGED <<owner, srgt, reg, stale, eCount, queue, xfer, dirties,
                    alive, deaths, void>>

\* The owner's calls to it stay pinned until they end; its own are cut off.
Crash(c) ==
  /\ c \in Mortal \cap alive
  /\ alive' = alive \ {c}
  /\ srgt' = [srgt EXCEPT ![c] = [w \in Wire |-> "none"]]
  /\ reg' = [reg EXCEPT ![c] = [w \in Wire |-> <<0, 0>>]]
  /\ stale' = {s \in stale : s[1] # c}
  /\ eCount' = [eCount EXCEPT ![c] = <<0, 0>>]
  /\ queue' = [queue EXCEPT ![c] = <<>>]
  /\ cleaner' = [cleaner EXCEPT ![c] = NoCleaner]
  /\ xfer' = [p \in Pairs |->
       [w |-> xfer[p].w, pinned |-> xfer[p].pinned /\ p[1] # c,
        at |-> IF p[2] = c THEN "idle" ELSE xfer[p].at]]
  /\ void' = {s \in void : s[1] # c}
  /\ UNCHANGED <<owner, dirties, cleans, failures, deaths, lost>>

-----------------------------------------------------------------------------
Marshal(p) ==
  \/ InsertAndPin(p)
  \/ \E w \in Wire : SendSurrogate(p, w)
  \/ Unpin(p)
  \/ LoseReference(p)

Find(p) == FindSurrogate(p) \/ FindWait(p) \/ FindCreate(p)

Clean(c) == CleanerTake(c) \/ CleanerExit(c) \/ CleanerReturns(c)

Next ==
  \/ \E p \in Pairs : Marshal(p) \/ Find(p)
  \/ \E c \in Client, w \in Wire :
       \/ FindReturns(c, w) \/ FindRaises(c, w)
       \/ Drop(c, w) \/ CleanupSrgt(c, w) \/ CleanupStale(c, w)
  \/ \E m \in dirties : AgentDirty(m) \/ LoseDirty(m)
  \/ \E m \in cleans : AgentClean(m) \/ LoseClean(m)
  \/ \E c \in Client :
       \/ Clean(c) \/ CleanerFails(c)
       \/ DeadLocation(c) \/ Crash(c)

Spec == Init /\ [][Next]_vars

\* The threads of a program, the owner's servers of its calls, and its calls
\* do not stop for ever; the transport finds out which program has crashed.
Runs(c) ==
  \/ \E w \in Wire : \/ FindReturns(c, w) \/ CleanupSrgt(c, w)
                     \/ srgt[c][w] = "refused" /\ FindRaises(c, w)
  \/ Clean(c)

Served(c) ==
  \/ \E m \in dirties : m.from = c /\ AgentDirty(m)
  \/ \E m \in cleans : m.from = c /\ AgentClean(m)

Fairness ==
  /\ \A p \in Pairs : WF_vars(Unpin(p)) /\ WF_vars(Find(p))
  /\ \A c \in Client : /\ WF_vars(Runs(c)) /\ WF_vars(Served(c))
                        /\ WF_vars(c \notin alive /\ DeadLocation(c))

FairSpec == Spec /\ Fairness

-----------------------------------------------------------------------------
(* Properties.                                                             *)

At == {"idle", "sent", "asleep", "finding"}

TypeOK ==
  /\ wire \in Wire \cup {NullT} /\ made \in 0 .. MaxWires /\ pinCount \in Nat
  /\ listed \in [Client -> SUBSET Wire]
  /\ exports \in [Client -> [Wire -> DirtyElem]]
  /\ srgt \in [Client -> [Wire ->
       {"none", "creating", "granted", "refused", "live", "dead"}]]
  /\ reg \in [Client -> [Wire -> Event]]
  /\ stale \subseteq Client \X Wire
  /\ eCount \in [Client -> Event]
  /\ queue \in [Client -> Seq(CleanElem)]
  /\ cleaner \in [Client ->
       [st : {"none", "ready", "calling", "answered"}, batch : Seq(CleanElem),
        strong : BOOLEAN, try : 0 .. Tries, ok : BOOLEAN]]
  /\ xfer \in [Pairs -> [w : Wire \cup {NullT}, pinned : BOOLEAN, at : At]]
  /\ dirties \subseteq [from : Client, w : Wire, id : Event]
  /\ cleans \subseteq [from : Client, batch : Seq(CleanElem), strong : BOOLEAN,
                       try : 1 .. Tries]
  /\ alive \subseteq Client /\ failures \in 0 .. MaxFailures
  /\ deaths \in 0 .. MaxDeaths
  /\ void \subseteq Client \X Wire /\ lost \in [Client -> [Wire -> Event]]

\* The pin count is the number of dirty locations and of marshallings under
\* way, and the object is in the table just when that is not zero.
Pinned == {p \in Pairs : p[1] = Owner /\ xfer[p].pinned}
PinsCounted ==
  /\ pinCount = Cardinality({c \in Client : Dirty(c, wire)})
                + Cardinality(Pinned)
  /\ (wire = NullT) = (pinCount = 0)

\* What a client that has a surrogate counts on: the owner still has the
\* object, under the name the client knows, and has the client's dirty call
\* in its books - unless it has taken the client for dead.
SurrogatesHold ==
  \A c \in Client, w \in Wire :
    srgt[c][w] \in {"granted", "live"} /\ <<c, w>> \notin void
      => w = wire /\ Dirty(c, w) /\ exports[c][w].ts = reg[c][w]

\* The owner's table, the surrogates and the owner's marshallings implement
\* RemoteObject: the object does not leave the table, and does not change its
\* name, while somebody counts on it.
Holders ==
  {u \in (Client \X Wire) \ void : srgt[u[1]][u[2]] \in {"granted", "live"}}
  \cup {<<p, xfer[p].w>> : p \in Pinned}
Remote == INSTANCE RemoteObject WITH
  User <- Client \cup Pairs, name <- wire, names <- made, users <- Holders
ImplementsRemoteObject == Remote!Spec

\* The ASSERT of AgentDirty and the Die of DeadLocation are not reached: an
\* entry that is dirty names an object in the table, and one that is not
\* dirty is there to be kept.
NeverDies ==
  \A c \in Client : \A w \in listed[c] :
    IF exports[c][w].dirty THEN w = wire ELSE exports[c][w].keep

\* A clean call for w that c has still to make, or to get through.
Pending(c, w) ==
  \/ \E e \in Elems(queue[c]) :
       e.w = w /\ EventLT(exports[c][w].ts, e.id)
  \/ /\ cleaner[c].st = "calling"
     /\ \E e \in Elems(cleaner[c].batch) :
          e.w = w /\ EventLT(exports[c][w].ts, e.id)
HasReason(c, w) == c \notin alive \/ srgt[c][w] # "none" \/ Pending(c, w)

\* A location stays dirty only for a program that has a surrogate, or will
\* say that it has none, or has crashed - or else what it had to say was
\* dropped, or came before the dirty call and left no trace.
DirtyHasReason ==
  \A c \in Client, w \in Wire :
    Dirty(c, w) => \/ HasReason(c, w)
                   \/ EventLT(exports[c][w].ts, lost[c][w])

\* SpecialObj.i3: the clean call tells the owner that a surrogate no longer
\* exists.  Where no call fails and nobody dies, no location would stay dirty
\* without a surrogate.
NothingLeaks ==
  \A c \in Client, w \in Wire : Dirty(c, w) => HasReason(c, w)

\* A thread that waits in Find, for its dirty call or for another thread's,
\* does not wait for ever.
Waits(p) == xfer[p].at \in {"finding", "asleep"}
FindEnds ==
  \A p \in Pairs : Waits(p) ~> ~Waits(p)

\* Once nobody has a surrogate or a reference under way, and every cleaning
\* has left its trace, the owner lets its object go.
Unused ==
  /\ \A c \in Client, w \in Wire :
       /\ srgt[c][w] \in {"none", "dead"}
       /\ Dirty(c, w) => EventLE(lost[c][w], exports[c][w].ts)
  /\ \A p \in Pairs : xfer[p].at = "idle"
Collected == []<>(Unused => wire = NullT)

-----------------------------------------------------------------------------
(* An inductive invariant for these properties.                            *)

\* The cleanings that c has said, is saying or is going to say.
Cleanings(c) ==
  Elems(queue[c]) \cup Elems(cleaner[c].batch)
    \cup UNION {Elems(m.batch) : m \in {n \in cleans : n.from = c}}

\* A reference that is under way has a name; names are used up in their order.
NamesOK ==
  /\ wire # NullT => wire = made
  /\ \A p \in Pairs : xfer[p].at # "idle" => xfer[p].w \in 1 .. made
  /\ \A m \in dirties : m.w <= made
  /\ \A c \in Client :
       /\ \A w \in listed[c] : w <= made
       /\ \A w \in Wire : srgt[c][w] # "none" => w <= made

\* Of what a program did, its last event is the latest.
EventsOK ==
  \A c \in alive :
    /\ \A m \in dirties : m.from = c => EventLE(m.id, eCount[c])
    /\ \A b \in Cleanings(c) : EventLE(b.id, eCount[c])
    /\ \A w \in Wire : EventLE(reg[c][w], eCount[c])
    /\ \A w \in listed[c] : EventLE(exports[c][w].ts, eCount[c])

\* Of what a program said of an object it has in its table, the dirty call for
\* its surrogate is the latest.
LatestOK ==
  \A c \in Client, w \in Wire :
    srgt[c][w] # "none" =>
      /\ c \in alive
      /\ \A m \in dirties : m.from = c /\ m.w = w => EventLE(m.id, reg[c][w])
      /\ \A b \in Cleanings(c) : b.w = w => EventLE(b.id, reg[c][w])

\* SurrogatesHold, and what it rests on.
HoldInv ==
  /\ TypeOK /\ NamesOK /\ EventsOK /\ LatestOK
  /\ PinsCounted /\ NeverDies /\ SurrogatesHold

\* Cleanings are queued and called in the order of their events.
Ordered(q) ==
  \A i, j \in DOMAIN q : i < j => EventLT(q[i].id, q[j].id)

QueuesOrdered ==
  /\ \A m \in cleans : Ordered(m.batch)
  /\ \A c \in Client :
       /\ Ordered(queue[c]) /\ Ordered(cleaner[c].batch)
       /\ \A b \in Elems(cleaner[c].batch), e \in Elems(queue[c]) :
            EventLT(b.id, e.id)

\* An event of c for w that the owner will hear of a later one for, has heard
\* of one, or has lost one; or that comes too late for any answer but no.
Outdone(c, w, id) ==
  \/ \E e \in Elems(queue[c]) : e.w = w /\ EventLT(id, e.id)
  \/ /\ cleaner[c].st = "calling"
     /\ \E e \in Elems(cleaner[c].batch) : e.w = w /\ EventLT(id, e.id)
  \/ EventLT(id, lost[c][w])
  \/ w # wire
  \/ w \in listed[c] /\ EventLT(id, exports[c][w].ts)

\* A dirty call under way for an object that its program has not in its table
\* has been overtaken.
DirtiesOutdone ==
  \A m \in dirties :
    m.from \in alive /\ srgt[m.from][m.w] = "none"
      => Outdone(m.from, m.w, m.id)

LeakInv == HoldInv /\ QueuesOrdered /\ DirtiesOutdone /\ DirtyHasReason
=============================================================================
