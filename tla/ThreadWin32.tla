---------------------------- MODULE ThreadWin32 ----------------------------
(***************************************************************************)
(* The kernel threads of m3core (thread/WIN32/ThreadWin32.m3), which run   *)
(* truly in parallel.  What happens under the critical section cm is one   *)
(* action, since cm is held only for short stretches that never block; so  *)
(* is what happens under threadMu up to the next wait, but taking threadMu *)
(* is a step of its own, because it is a Mutex like those of the clients.  *)
(*                                                                         *)
(* A thread is named by its T.  When a T has finished, its kernel thread,  *)
(* with its semaphore and condition, goes on to a new T (next_self), which *)
(* waits in the list of idle threads until Fork hands it out.  A semaphore *)
(* and a condition are named by the T they were created for.               *)
(***************************************************************************)
EXTENDS Integers, FiniteSets, SequencesExt

CONSTANTS
  Thread,          \* the Ts, in use or not yet
  Main,            \* the T of the main program
  Mutex, Cond,     \* the mutexes and conditions the clients share
  threadMu,        \* the library's own mutex
  Nil,
  MainOps, Ops,    \* what of Thread the main program and the others call
  CSectCacheSize,  \* of the code: 20
  LastSlot         \* LAST(slots^): in the code 19 at first

AllOps == {"Fork", "Exit", "Join", "AlertJoin", "Wait", "AlertWait",
           "Acquire", "Release", "Signal", "Broadcast", "Alert", "TestAlert",
           "AlertPause", "Collect"}

ASSUME MainAssumption == Main \in Thread
ASSUME FiniteAssumption == IsFiniteSet(Thread) /\ IsFiniteSet(Mutex)
ASSUME NilAssumption == Nil \notin Thread \cup Mutex \cup Cond \cup Nat
ASSUME NamesAssumption == Thread \cap Cond = {} /\ threadMu \notin Mutex
ASSUME OpsAssumption == MainOps \cup Ops \subseteq AllOps
ASSUME BoundsAssumption ==
  CSectCacheSize \in Nat /\ LastSlot \in Nat \ {0}

VARIABLES
  cs,           \* Mutex.cs
  held,         \* Mutex.held
  csOwner,      \* who has entered each critical section
  cSectCache,   \* the critical sections of mutexes that were collected
  waiters,      \* Condition.waiters
  sema,         \* the count of each semaphore
  alertable,    \* T.alertable
  alerted,      \* T.alerted
  waitSema,     \* T.waitSema
  cond,         \* T.cond
  completed,    \* T.completed
  joined,       \* T.joined
  idleThreads,  \* the list of idle threads; nIdle is its length
  slots,        \* the Ts that have a slot
  heap,         \* who has the allocator's lock
  pc,           \* where each thread is
  call,         \* the locals of the call in progress
  signalled,    \* whose wait a DequeueHead has ended (history)
  fatal         \* the error that ended the program

mutexVars  == <<cs, held, csOwner, cSectCache>>
waitVars   == <<waiters, sema, alertable, alerted, signalled>>
threadVars == <<waitSema, cond, completed, joined, idleThreads, slots>>
callVars   == <<pc, call>>
vars == <<mutexVars, waitVars, threadVars, callVars, heap, fatal>>

Lock == Mutex \cup {threadMu}
Waitable == Cond \cup Thread
CSect == 1 .. Cardinality(Lock) + CSectCacheSize + Cardinality(Thread)

Unborn  == {"none", "made", "promised"}
InLock  == {"alloc", "new", "enter"}
InWait  == {"unlock", "sema", "waited", "return", "raise"}
Returns == {"run", "waited", "fork", "forkNew", "start", "finish", "exit",
            "join", "collect"}
Labels  == Unborn \cup InLock \cup InWait \cup Returns
             \cup {"create", "rouse", "newSelf", "bcast", "idle", "gone",
                   "finally", "pause", "pausing", "paused"}
Errors  == {"none", "relock", "assert", "choke", "unslotted"}

\* m and c are the operands; ret is where LockMutex returns to, on the T that
\* is joined, forked or taken over, and back where a collection returns to.
Call(m, c, ret, on, alert, back) ==
  [m |-> m, c |-> c, ret |-> ret, on |-> on, alert |-> alert, back |-> back]
NoCall == Call(Nil, Nil, "run", Nil, FALSE, "run")
ThreadCall(ret, on) == Call(threadMu, Nil, ret, on, FALSE, "run")

CallType == [m : Lock \cup {Nil}, c : Waitable \cup {Nil}, ret : Returns,
             on : Thread \cup {Nil}, alert : BOOLEAN,
             back : {"run", "create", "newSelf"}]

TypeOK ==
  /\ cs \in [Lock -> CSect \cup {Nil}]
  /\ held \in [Lock -> BOOLEAN]
  /\ csOwner \in [CSect -> Thread \cup {Nil}]
  /\ cSectCache \in Seq(CSect) /\ Len(cSectCache) <= CSectCacheSize
  /\ waiters \in [Waitable -> Seq(Thread)]
  /\ sema \in [Thread -> {0, 1}]
  /\ alertable \in [Thread -> BOOLEAN] /\ alerted \in [Thread -> BOOLEAN]
  /\ waitSema \in [Thread -> Thread] /\ cond \in [Thread -> Thread]
  /\ completed \in [Thread -> BOOLEAN] /\ joined \in [Thread -> BOOLEAN]
  /\ idleThreads \in Seq(Thread) /\ slots \subseteq Thread
  /\ heap \in Thread \cup {Nil}
  /\ pc \in [Thread -> Labels] /\ call \in [Thread -> CallType]
  /\ signalled \subseteq Thread
  /\ fatal \in Errors

Init ==
  /\ cs = [m \in Lock |-> IF m = threadMu THEN 1 ELSE Nil]
  /\ held = [m \in Lock |-> FALSE]
  /\ csOwner = [s \in CSect |-> Nil]
  /\ cSectCache = <<>>
  /\ waiters = [c \in Waitable |-> <<>>]
  /\ sema = [t \in Thread |-> 0]
  /\ alertable = [t \in Thread |-> FALSE]
  /\ alerted = [t \in Thread |-> FALSE]
  /\ waitSema = [t \in Thread |-> t]
  /\ cond = [t \in Thread |-> t]
  /\ completed = [t \in Thread |-> FALSE]
  /\ joined = [t \in Thread |-> FALSE]
  /\ idleThreads = <<>>
  /\ slots = {Main}
  /\ heap = Nil
  /\ pc = [t \in Thread |-> IF t = Main THEN "run" ELSE "none"]
  /\ call = [t \in Thread |-> NoCall]
  /\ signalled = {}
  /\ fatal = "none"

-----------------------------------------------------------------------------
(* Mutexes.                                                                *)

Calls(t) == IF t = Main THEN MainOps ELSE Ops

Client(t, op) == pc[t] = "run" /\ op \in Calls(t)

Holds(t, m) == held[m] /\ cs[m] # Nil /\ csOwner[cs[m]] = t

Waits(t) == \E c \in Waitable : Contains(waiters[c], t)

\* LockMutex up to its test of m.cs.
LockMutex(t, r) ==
  /\ pc' = [pc EXCEPT ![t] = IF cs[r.m] = Nil THEN "alloc" ELSE "enter"]
  /\ call' = [call EXCEPT ![t] = r]

UnlockMutex(m) ==
  /\ held' = [held EXCEPT ![m] = FALSE]
  /\ csOwner' = [csOwner EXCEPT ![cs[m]] = Nil]
  /\ UNCHANGED <<cs, cSectCache>>

Acquire(t, m) ==
  /\ Client(t, "Acquire") /\ ~Holds(t, m)
  /\ LockMutex(t, Call(m, Nil, "run", Nil, FALSE, "run"))
  /\ UNCHANGED <<mutexVars, waitVars, threadVars, heap, fatal>>

\* AllocCSect: from the cache, or NEW outside of cm and a second look at m.cs.
AllocCSect(t) ==
  /\ pc[t] = "alloc"
  /\ IF cSectCache = <<>>
     THEN /\ pc' = [pc EXCEPT ![t] = "new"]
          /\ UNCHANGED <<cs, cSectCache>>
     ELSE /\ pc' = [pc EXCEPT ![t] = "enter"]
          /\ cs' = [cs EXCEPT ![call[t].m] = Last(cSectCache)]
          /\ cSectCache' = Front(cSectCache)
  /\ UNCHANGED <<held, csOwner, waitVars, threadVars, call, heap, fatal>>

\* NEW finds one: CSect has more of them than locks, cache and threads use.
NotMade == {s \in CSect : /\ csOwner[s] = Nil /\ ~Contains(cSectCache, s)
                          /\ \A m \in Lock : cs[m] # s}
NewCSect == CHOOSE s \in NotMade : TRUE

InstallCSect(t) ==
  /\ pc[t] = "new" /\ heap = Nil /\ NotMade # {}
  /\ pc' = [pc EXCEPT ![t] = "enter"]
  /\ cs' = [cs EXCEPT ![call[t].m] = IF @ = Nil THEN NewCSect ELSE @]
  /\ UNCHANGED <<held, csOwner, cSectCache, waitVars, threadVars, call, heap,
                 fatal>>

\* EnterCriticalSection, which lets its owner pass, and the test of held.
EnterCSect(t) ==
  LET r == call[t] IN
  /\ pc[t] = "enter" /\ csOwner[cs[r.m]] \in {Nil, t}
  /\ held' = [held EXCEPT ![r.m] = TRUE]
  /\ csOwner' = [csOwner EXCEPT ![cs[r.m]] = t]
  /\ fatal' = IF held[r.m] THEN "relock" ELSE fatal
  /\ pc' = [pc EXCEPT ![t] = r.ret]
  /\ call' = [call EXCEPT ![t] =
       IF r.ret = "run" THEN NoCall
       ELSE IF r.ret = "waited" THEN r ELSE [r EXCEPT !.c = Nil]]
  /\ UNCHANGED <<cs, cSectCache, waitVars, threadVars, heap>>

Release(t, m) ==
  /\ Client(t, "Release") /\ Holds(t, m)
  /\ UnlockMutex(m)
  /\ UNCHANGED <<waitVars, threadVars, callVars, heap, fatal>>

-----------------------------------------------------------------------------
(* Conditions and alerts.                                                  *)

\* ReleaseSemaphore for each of woken; the semaphores are binary.
ReleaseSemaphores(woken) ==
  LET named == {waitSema[t] : t \in woken} IN
  /\ sema' = [s \in Thread |-> IF s \in named THEN 1 ELSE sema[s]]
  /\ fatal' = IF \E s \in named : sema[s] = 1 THEN "choke" ELSE fatal

\* InnerWait until it leaves cm.
InnerWait(t, r) ==
  /\ waiters' = [waiters EXCEPT ![r.c] = <<t>> \o @]
  /\ pc' = [pc EXCEPT ![t] = "unlock"]
  /\ call' = [call EXCEPT ![t] = r]
  /\ fatal' = IF Waits(t) THEN "assert" ELSE fatal
  /\ UNCHANGED <<sema, alerted, signalled>>

\* The first part of AlertWait, under cm: InnerTestAlert raises, at ifRaised,
\* or the thread is made alertable and waits.
AlertEnter(t, r, ifRaised) ==
  IF alerted[t]
  THEN /\ alerted' = [alerted EXCEPT ![t] = FALSE]
       /\ pc' = [pc EXCEPT ![t] = ifRaised]
       /\ UNCHANGED <<waiters, sema, alertable, signalled, call, fatal>>
  ELSE /\ alertable' = [alertable EXCEPT ![t] = TRUE]
       /\ InnerWait(t, r)

Wait(t, m, c) ==
  /\ Client(t, "Wait") /\ Holds(t, m)
  /\ InnerWait(t, Call(m, c, "run", Nil, FALSE, "run"))
  /\ UNCHANGED <<mutexVars, alertable, threadVars, heap>>

AlertWait(t, m, c) ==
  /\ Client(t, "AlertWait") /\ Holds(t, m)
  /\ AlertEnter(t, Call(m, c, "waited", Nil, TRUE, "run"), "run")
  /\ UNCHANGED <<mutexVars, threadVars, heap>>

\* InnerWait goes on: unlock m, block, lock m.
WaitUnlock(t) ==
  /\ pc[t] = "unlock"
  /\ UnlockMutex(call[t].m)
  /\ pc' = [pc EXCEPT ![t] = "sema"]
  /\ UNCHANGED <<waitVars, threadVars, call, heap, fatal>>

SemaWait(t) ==
  /\ pc[t] = "sema" /\ sema[waitSema[t]] = 1
  /\ sema' = [sema EXCEPT ![waitSema[t]] = 0]
  /\ signalled' = IF call[t].alert THEN signalled ELSE signalled \ {t}
  /\ LockMutex(t, call[t])
  /\ UNCHANGED <<mutexVars, waiters, alertable, alerted, threadVars, heap,
                 fatal>>

\* Fault: no second InnerTestAlert.
WaitTestsOnce(t) ==
  /\ pc[t] = "waited"
  /\ signalled' = signalled \ {t}
  /\ pc' = [pc EXCEPT ![t] = "return"]
  /\ UNCHANGED <<mutexVars, waiters, sema, alertable, alerted, threadVars,
                 call, heap, fatal>>

\* AlertWait after InnerWait: the second InnerTestAlert, under cm.
WaitTest(t) ==
  /\ pc[t] = "waited"
  /\ alerted' = [alerted EXCEPT ![t] = FALSE]
  /\ signalled' = signalled \ {t}
  /\ pc' = [pc EXCEPT ![t] = IF alerted[t] THEN "raise" ELSE "return"]
  /\ UNCHANGED <<mutexVars, waiters, sema, alertable, threadVars, call, heap,
                 fatal>>

\* ... and its return, or its exception: to the client or to AlertJoin.
WaitReturns(t) ==
  /\ pc[t] \in {"return", "raise"}
  /\ IF call[t].on = Nil
     THEN /\ pc' = [pc EXCEPT ![t] = "run"]
          /\ call' = [call EXCEPT ![t] = NoCall]
     ELSE /\ pc' = [pc EXCEPT ![t] =
                      IF @ = "return" THEN "join" ELSE "finally"]
          /\ call' = [call EXCEPT ![t].c = Nil]
  /\ UNCHANGED <<mutexVars, waitVars, threadVars, heap, fatal>>

\* DequeueHead, n times.
DequeueHead(c, n) ==
  LET woken == ToSet(SubSeq(waiters[c], 1, n)) IN
  /\ waiters' = [waiters EXCEPT ![c] = SubSeq(@, n + 1, Len(@))]
  /\ alertable' = [t \in Thread |-> alertable[t] /\ t \notin woken]
  /\ signalled' = signalled \cup woken
  /\ ReleaseSemaphores(woken)
  /\ UNCHANGED alerted

Signal(t, c) ==
  /\ Client(t, "Signal") /\ waiters[c] # <<>>
  /\ DequeueHead(c, 1)
  /\ UNCHANGED <<mutexVars, threadVars, callVars, heap>>

Broadcast(t, c) ==
  /\ Client(t, "Broadcast") /\ waiters[c] # <<>>
  /\ DequeueHead(c, Len(waiters[c]))
  /\ UNCHANGED <<mutexVars, threadVars, callVars, heap>>

\* The handle of u has come out of Fork.
Known(u) ==
  \/ pc[u] = "gone"
  \/ u \in slots /\ ~\E t \in Thread : pc[t] = "rouse" /\ call[t].on = u

Unlinked(u) == [c \in Waitable |->
  IF Contains(waiters[c], u)
  THEN RemoveAt(waiters[c], CHOOSE i \in DOMAIN waiters[c] : waiters[c][i] = u)
  ELSE waiters[c]]

Alert(t, u) ==
  /\ Client(t, "Alert") /\ Known(u) /\ ~completed[u]
  /\ alerted' = [alerted EXCEPT ![u] = TRUE]
  /\ waiters' = IF alertable[u] THEN Unlinked(u) ELSE waiters
  /\ alertable' = [alertable EXCEPT ![u] = FALSE]
  /\ ReleaseSemaphores(IF alertable[u] THEN {u} ELSE {})
  /\ UNCHANGED <<mutexVars, signalled, threadVars, callVars, heap>>

TestAlert(t) ==
  /\ Client(t, "TestAlert") /\ alerted[t]
  /\ alerted' = [alerted EXCEPT ![t] = FALSE]
  /\ UNCHANGED <<mutexVars, waiters, sema, alertable, signalled, threadVars,
                 callVars, heap, fatal>>

\* The first part of a turn of AlertPause's loop, under cm.
PauseTurn(t) ==
  /\ IF alerted[t]
     THEN /\ alerted' = [alerted EXCEPT ![t] = FALSE]
          /\ pc' = [pc EXCEPT ![t] = "run"]
          /\ UNCHANGED <<alertable, fatal>>
     ELSE /\ alertable' = [alertable EXCEPT ![t] = TRUE]
          /\ pc' = [pc EXCEPT ![t] = "pausing"]
          /\ fatal' = IF Waits(t) THEN "assert" ELSE fatal
          /\ UNCHANGED alerted
  /\ UNCHANGED <<mutexVars, waiters, sema, signalled, threadVars, call, heap>>

AlertPause(t) == Client(t, "AlertPause") /\ PauseTurn(t)
PauseAgain(t) == pc[t] = "pause" /\ PauseTurn(t)

\* The wait with a timeout: it takes the semaphore's count, if there is one.
PauseWakes(t) ==
  /\ pc[t] = "pausing"
  /\ sema' = [sema EXCEPT ![waitSema[t]] = 0]
  /\ pc' = [pc EXCEPT ![t] = "paused"]
  /\ UNCHANGED <<mutexVars, waiters, alertable, alerted, signalled,
                 threadVars, call, heap, fatal>>

\* Fault: the count is not taken away.
PauseEndsEarly(t) ==
  /\ pc[t] = "paused"
  /\ alertable' = [alertable EXCEPT ![t] = FALSE]
  /\ alerted' = [alerted EXCEPT ![t] = FALSE]
  /\ pc' = [pc EXCEPT ![t] = "run"]
  /\ UNCHANGED <<mutexVars, waiters, sema, signalled, threadVars, call, heap,
                 fatal>>

\* The rest of the turn, under cm: an alert that came after the timeout has
\* left a count on the semaphore, which is taken away.
PauseEnds(t) ==
  /\ pc[t] = "paused"
  /\ alertable' = [alertable EXCEPT ![t] = FALSE]
  /\ alerted' = [alerted EXCEPT ![t] = FALSE]
  /\ sema' = IF alerted[t] THEN [sema EXCEPT ![waitSema[t]] = 0] ELSE sema
  /\ \E next \in {"run"} \cup (IF alerted[t] THEN {} ELSE {"pause"}) :
       pc' = [pc EXCEPT ![t] = next]
  /\ UNCHANGED <<mutexVars, waiters, signalled, threadVars, call, heap, fatal>>

-----------------------------------------------------------------------------
(* Fork, the life of a thread, Join.                                       *)

Fork(t) ==
  /\ Client(t, "Fork")
  /\ LockMutex(t, ThreadCall("fork", Nil))
  /\ UNCHANGED <<mutexVars, waitVars, threadVars, heap, fatal>>

\* AssignSlot.  The NEW of ExpandSlots may collect, and the collector locks
\* threadMu, which the caller has.
AssignSlot(u) ==
  /\ slots' = slots \cup {u}
  /\ fatal' \in {fatal} \cup
       (IF Cardinality(slots) = LastSlot /\ "Collect" \in MainOps \cup Ops
        THEN {"relock"} ELSE {})

ForkIdle(t) ==
  /\ pc[t] = "fork" /\ idleThreads # <<>>
  /\ idleThreads' = Tail(idleThreads)
  /\ AssignSlot(Head(idleThreads))
  /\ UnlockMutex(threadMu)
  /\ pc' = [pc EXCEPT ![t] = "rouse"]
  /\ call' = [call EXCEPT ![t].on = Head(idleThreads)]
  /\ UNCHANGED <<waitVars, waitSema, cond, completed, joined, heap>>

ForkNone(t) ==
  /\ pc[t] = "fork" /\ idleThreads = <<>>
  /\ UnlockMutex(threadMu)
  /\ pc' = [pc EXCEPT ![t] = "create"]
  /\ UNCHANGED <<waitVars, threadVars, call, heap, fatal>>

\* CreateT, without a collection; u is the new object.
CreateT(t, u) ==
  /\ pc[t] = "create" /\ pc[u] = "none" /\ heap = Nil
  /\ pc' = [pc EXCEPT ![t] = "enter", ![u] = "made"]
  /\ call' = [call EXCEPT ![t] = ThreadCall("forkNew", u)]
  /\ UNCHANGED <<mutexVars, waitVars, threadVars, heap, fatal>>

ForkNew(t) ==
  /\ pc[t] = "forkNew"
  /\ AssignSlot(call[t].on)
  /\ UnlockMutex(threadMu)
  /\ pc' = [pc EXCEPT ![t] = "rouse"]
  /\ UNCHANGED <<waitVars, waitSema, cond, completed, joined, idleThreads,
                 call, heap>>

\* The end of Fork: ResumeThread, or ReleaseSemaphore.
Rouse(t) ==
  LET u == call[t].on IN
  /\ pc[t] = "rouse"
  /\ IF pc[u] = "made"
     THEN /\ pc' = [pc EXCEPT ![t] = "run", ![u] = "enter"]
          /\ call' = [call EXCEPT ![t] = NoCall,
                                  ![u] = ThreadCall("start", Nil)]
          /\ UNCHANGED <<sema, fatal>>
     ELSE /\ pc' = [pc EXCEPT ![t] = "run"]
          /\ call' = [call EXCEPT ![t] = NoCall]
          /\ ReleaseSemaphores({u})
  /\ UNCHANGED <<mutexVars, waiters, alertable, alerted, signalled,
                 threadVars, heap>>

\* ThreadMain: SetSelf, and the look at self.closure under threadMu.
Start(t) ==
  /\ pc[t] = "start"
  /\ UnlockMutex(threadMu)
  /\ pc' = [pc EXCEPT ![t] = "run"]
  /\ call' = [call EXCEPT ![t] = NoCall]
  /\ fatal' = IF t \in slots THEN fatal ELSE "unslotted"
  /\ UNCHANGED <<waitVars, threadVars, heap>>

\* cl.apply has returned.  Whether nIdle < MaxIdle (20) is left open: it
\* depends on idle threads beyond those of the model, and on a read of nIdle
\* without threadMu.
Exit(t) ==
  /\ Client(t, "Exit") /\ t # Main /\ \A m \in Mutex : ~Holds(t, m)
  /\ \/ pc' = [pc EXCEPT ![t] = "newSelf"] /\ UNCHANGED call
     \/ LockMutex(t, ThreadCall("finish", Nil))
  /\ UNCHANGED <<mutexVars, waitVars, threadVars, heap, fatal>>

NewSelf(t, u) ==
  /\ pc[t] = "newSelf" /\ pc[u] = "none" /\ heap = Nil
  /\ pc' = [pc EXCEPT ![t] = "enter", ![u] = "promised"]
  /\ call' = [call EXCEPT ![t] = ThreadCall("finish", u)]
  /\ UNCHANGED <<mutexVars, waitVars, threadVars, heap, fatal>>

\* Fault: next_self gets no condition.
FinishWithoutCond(t) ==
  LET u == call[t].on IN
  /\ pc[t] = "finish"
  /\ completed' = [completed EXCEPT ![t] = TRUE]
  /\ IF u = Nil THEN UNCHANGED <<waitSema, cond, idleThreads>>
     ELSE /\ waitSema' = [waitSema EXCEPT ![u] = waitSema[t]]
          /\ cond' = [cond EXCEPT ![u] = Nil]
          /\ idleThreads' = <<u>> \o idleThreads
  /\ UnlockMutex(threadMu)
  /\ pc' = [pc EXCEPT ![t] = "bcast"]
  /\ UNCHANGED <<waitVars, joined, slots, call, heap, fatal>>

\* completed is set, and the guts of self go into next_self.
Finish(t) ==
  LET u == call[t].on IN
  /\ pc[t] = "finish"
  /\ completed' = [completed EXCEPT ![t] = TRUE]
  /\ IF u = Nil THEN UNCHANGED <<waitSema, cond, idleThreads>>
     ELSE /\ waitSema' = [waitSema EXCEPT ![u] = waitSema[t]]
          /\ cond' = [cond EXCEPT ![u] = cond[t]]
          /\ idleThreads' = <<u>> \o idleThreads
  /\ UnlockMutex(threadMu)
  /\ pc' = [pc EXCEPT ![t] = "bcast"]
  /\ UNCHANGED <<waitVars, joined, slots, call, heap, fatal>>

\* Fault: no Broadcast by a thread that is to be reborn.
BroadcastAtEndOnly(t) ==
  LET u == call[t].on IN
  /\ pc[t] = "bcast"
  /\ IF u = Nil
     THEN /\ DequeueHead(cond[t], Len(waiters[cond[t]]))
          /\ LockMutex(t, ThreadCall("exit", Nil))
     ELSE /\ pc' = [pc EXCEPT ![t] = "gone", ![u] = "idle"]
          /\ call' = [call EXCEPT ![t] = NoCall]
          /\ UNCHANGED <<waitVars, fatal>>
  /\ UNCHANGED <<mutexVars, threadVars, heap>>

\* Broadcast(self.cond); then next_self waits for rebirth, or self goes on to
\* remove itself.
BroadcastEnd(t) ==
  LET u == call[t].on IN
  /\ pc[t] = "bcast"
  /\ DequeueHead(cond[t], Len(waiters[cond[t]]))
  /\ IF u = Nil
     THEN LockMutex(t, ThreadCall("exit", Nil))
     ELSE /\ pc' = [pc EXCEPT ![t] = "gone", ![u] = "idle"]
          /\ call' = [call EXCEPT ![t] = NoCall]
  /\ UNCHANGED <<mutexVars, threadVars, heap>>

Reborn(t) ==
  /\ pc[t] = "idle" /\ sema[waitSema[t]] = 1
  /\ sema' = [sema EXCEPT ![waitSema[t]] = 0]
  /\ LockMutex(t, ThreadCall("start", Nil))
  /\ UNCHANGED <<mutexVars, waiters, alertable, alerted, signalled,
                 threadVars, heap, fatal>>

Ends(t) ==
  /\ pc[t] = "exit"
  /\ slots' = slots \ {t}
  /\ UnlockMutex(threadMu)
  /\ pc' = [pc EXCEPT ![t] = "gone"]
  /\ call' = [call EXCEPT ![t] = NoCall]
  /\ UNCHANGED <<waitVars, waitSema, cond, completed, joined, idleThreads,
                 heap, fatal>>

\* A client joins a thread once, which Thread.i3 asks for.
Joining(t, u) == call[t].on = u /\ (call[t].ret = "join" \/ call[t].alert)

Join(t, u, a) ==
  /\ Client(t, IF a THEN "AlertJoin" ELSE "Join") /\ t # u /\ Known(u)
  /\ ~joined[u] /\ ~\E s \in Thread : Joining(s, u)
  /\ LockMutex(t, Call(threadMu, Nil, "join", u, a, "run"))
  /\ UNCHANGED <<mutexVars, waitVars, threadVars, heap, fatal>>

JoinDone(t) ==
  /\ pc[t] = "join" /\ completed[call[t].on]
  /\ joined' = [joined EXCEPT ![call[t].on] = TRUE]
  /\ UnlockMutex(threadMu)
  /\ pc' = [pc EXCEPT ![t] = "run"]
  /\ call' = [call EXCEPT ![t] = NoCall]
  /\ UNCHANGED <<waitVars, waitSema, cond, completed, idleThreads, slots, heap,
                 fatal>>

\* Join, or AlertJoin, waits for t.cond; both look at completed again.
JoinWaits(t) ==
  LET u == call[t].on
      r == [call[t] EXCEPT !.c = cond[u]]
  IN
  /\ pc[t] = "join" /\ ~completed[u]
  /\ IF r.alert
     THEN AlertEnter(t, [r EXCEPT !.ret = "waited"], "finally")
     ELSE InnerWait(t, r) /\ UNCHANGED alertable
  /\ UNCHANGED <<mutexVars, threadVars, heap>>

JoinFinally(t) ==
  /\ pc[t] = "finally"
  /\ UnlockMutex(threadMu)
  /\ pc' = [pc EXCEPT ![t] = "run"]
  /\ call' = [call EXCEPT ![t] = NoCall]
  /\ UNCHANGED <<waitVars, threadVars, heap, fatal>>

-----------------------------------------------------------------------------
(* The collector, which a NEW may start: SuspendOthers until ResumeOthers. *)

CollectBegins(t) ==
  /\ "Collect" \in Calls(t) /\ pc[t] \in {"run", "create", "newSelf"}
  /\ heap = Nil /\ heap' = t
  /\ LockMutex(t, Call(threadMu, Nil, "collect", Nil, FALSE, pc[t]))
  /\ UNCHANGED <<mutexVars, waitVars, threadVars, fatal>>

Unused(m) ==
  /\ cs[m] # Nil /\ ~held[m]
  /\ \A t \in Thread : call[t].m # m

\* FreeCSect for the mutexes that are found dead.
FreeCSect(dead) ==
  LET freed == cSectCache \o SetToSeq({cs[m] : m \in dead}) IN
  /\ cs' = [m \in Lock |-> IF m \in dead THEN Nil ELSE cs[m]]
  /\ cSectCache' =
       IF Len(freed) > CSectCacheSize THEN SubSeq(freed, 1, CSectCacheSize)
       ELSE freed

\* With the others suspended nothing else happens until ResumeOthers.  A
\* mutex that dies is replaced by a new one, of the same name.
Collect(t) ==
  /\ pc[t] = "collect"
  /\ \E dead \in SUBSET {m \in Mutex : Unused(m)} : FreeCSect(dead)
  /\ held' = [held EXCEPT ![threadMu] = FALSE]
  /\ csOwner' = [csOwner EXCEPT ![cs[threadMu]] = Nil]
  /\ heap' = Nil
  /\ pc' = [pc EXCEPT ![t] = call[t].back]
  /\ call' = [call EXCEPT ![t] = NoCall]
  /\ UNCHANGED <<waitVars, threadVars, fatal>>

-----------------------------------------------------------------------------

ClientStep(t) ==
  \/ \E m \in Mutex : Acquire(t, m) \/ Release(t, m)
  \/ \E m \in Mutex, c \in Cond : Wait(t, m, c) \/ AlertWait(t, m, c)
  \/ \E c \in Cond : Signal(t, c) \/ Broadcast(t, c)
  \/ \E u \in Thread : Alert(t, u)
  \/ \E u \in Thread, a \in BOOLEAN : Join(t, u, a)
  \/ TestAlert(t) \/ AlertPause(t) \/ Fork(t) \/ Exit(t) \/ CollectBegins(t)

LibraryStep(t) ==
  \/ AllocCSect(t) \/ InstallCSect(t)
  \/ WaitUnlock(t) \/ SemaWait(t) \/ WaitTest(t) \/ WaitReturns(t)
  \/ PauseAgain(t) \/ PauseWakes(t) \/ PauseEnds(t)
  \/ ForkIdle(t) \/ ForkNone(t) \/ ForkNew(t) \/ Rouse(t)
  \/ \E u \in Thread : CreateT(t, u) \/ NewSelf(t, u)
  \/ Start(t) \/ Finish(t) \/ BroadcastEnd(t) \/ Reborn(t) \/ Ends(t)
  \/ JoinDone(t) \/ JoinWaits(t) \/ JoinFinally(t) \/ Collect(t)

Next == /\ fatal = "none"
        /\ \E t \in Thread : ClientStep(t) \/ LibraryStep(t) \/ EnterCSect(t)

Spec == Init /\ [][Next]_vars

-----------------------------------------------------------------------------
(* Correctness.                                                            *)

\* The library never ends the program: no mutex is locked a second time, no
\* semaphore released twice, and no thread waits that is still in a list.
NeverDies == fatal = "none"

\* No join is lost: who waits for a thread that has completed will be woken by
\* its Broadcast, which is still to come.  completed is set before, and outside
\* of cm; the condition may by then belong to another T as well.
JoinersWoken ==
  \A t, u \in Thread :
    Joining(t, u) /\ completed[u] /\ Contains(waiters[cond[u]], t)
      => pc[u] = "bcast"

-----------------------------------------------------------------------------
(* Refinement of ThreadSpec.  A thread that Alert took off a list counts   *)
(* as waiting until its InnerTestAlert; one that has relocked its mutex    *)
(* counts as holding it when AlertWait returns.                            *)

InInnerWait(t) ==
  \/ pc[t] \in InWait
  \/ pc[t] = "enter" /\ call[t].c # Nil

holderBar == [m \in Lock |->
  LET owner == IF held[m] /\ cs[m] # Nil THEN csOwner[cs[m]] ELSE Nil
  IN IF owner # Nil /\ InInnerWait(owner) /\ call[owner].m = m THEN Nil
     ELSE owner]

Phase(t) ==
  IF ~InInnerWait(t) THEN "client"
  ELSE IF pc[t] = "raise" THEN "raises"
  ELSE IF pc[t] = "return" \/ (pc[t] = "enter" /\ ~call[t].alert)
       THEN "returns"
  ELSE IF call[t].alert THEN "alertWait" ELSE "wait"

phaseBar == [t \in Thread |-> Phase(t)]

onBar == [t \in Thread |-> IF InInnerWait(t) THEN call[t].m ELSE Nil]

waitingBar ==
  LET waits == {t \in Thread : /\ Phase(t) \in {"wait", "alertWait"}
                               /\ t \notin signalled}
  IN [c \in Waitable |-> {t \in waits : call[t].c = c}]

Larch == INSTANCE ThreadSpec WITH
  Mutex <- Lock, Cond <- Waitable, holder <- holderBar,
  waiting <- waitingBar, pendingAlerts <- {t \in Thread : alerted[t]},
  phase <- phaseBar, on <- onBar

\* Like the POSIX threads, and with the same exception for alerts that
\* overtake a signal, this is what Thread.lm3 promises of mutexes, conditions
\* and alerts; also for the library's own threadMu and the conditions of Join.
ImplementsThread == Larch!Spec
=============================================================================
