---------------------------- MODULE ThreadPosix ----------------------------
(***************************************************************************)
(* The user-level threads of m3core (thread/POSIX/ThreadPosix.m3).  All    *)
(* threads share one kernel thread.  The library's critical sections       *)
(* (RT0u.inCritical > 0) exclude the SIGVTALRM handler, the only source of *)
(* preemption, so each is one atomic action here; every point between two  *)
(* critical sections is a value of pc, where the handler may strike.       *)
(*                                                                         *)
(* The circular list of threads is a sequence that starts at self.next and *)
(* ends with self; while InternalYield runs it starts at its "from".  The  *)
(* waiting lists of mutexes and conditions are sequences, newest first.    *)
(* A thread's endCondition is named by the thread itself.                  *)
(***************************************************************************)
EXTENDS Integers, FiniteSets, SequencesExt

CONSTANTS
  Thread,          \* thread handles, forked or not yet
  Main,            \* the thread of the main program
  Mutex, Cond,     \* the mutexes and conditions the clients share
  Nil,
  Ops,             \* the procedures of Thread the clients call
  Preemption,      \* FALSE under the "nopreemption" runtime parameter
  ForkYieldRatio,  \* Fork yields once in so many calls
  MaxSuspend       \* bound on nested SuspendOthers / DisableSwitching

AllOps == {"Fork", "Exit", "Join", "AlertJoin", "Wait", "AlertWait",
           "Acquire", "Release", "Signal", "Broadcast", "Alert", "TestAlert",
           "Yield", "Pause", "AlertPause", "IOWait", "IOAlertWait", "Suspend"}

ASSUME MainAssumption == Main \in Thread
ASSUME NilAssumption == Nil \notin Thread \cup Mutex \cup Cond
ASSUME NamesAssumption == Thread \cap Cond = {}
ASSUME OpsAssumption == Ops \subseteq AllOps
ASSUME PreemptionAssumption == Preemption \in BOOLEAN
ASSUME RatioAssumption == ForkYieldRatio \in Nat \ {0}
ASSUME SuspendAssumption == MaxSuspend \in Nat

VARIABLES
  self,          \* the running thread
  ring,          \* the circular list of threads
  scan,          \* the locals of the InternalYield in progress
  state,         \* T.state ("none": not forked)
  alertable,     \* T.alertable
  alertPending,  \* T.alertPending
  due,           \* T.waitingForTime has passed, or T.select has an answer
  holder,        \* Mutex.holder
  mutexQ,        \* Mutex.waitingForMe
  condQ,         \* Condition.waitingForMe
  pc,            \* where each thread is between two critical sections
  mu, cv,        \* the operands of the call in progress
  preempted,     \* suspended by the handler, not by a call of InternalYield
  raising,       \* Alerted is on its way, through XWait's FINALLY perhaps
  alertCall,     \* the call in progress is an Alert... one (history)
  held,          \* LL: the mutexes the client has locked (Thread.i3's SPEC)
  inCritical,    \* critical sections a client holds open
  nForks,        \* stats.n_forks modulo ForkYieldRatio
  fatal          \* the checked runtime error that ended the program

schedVars  == <<self, ring, scan>>
threadVars == <<state, alertable, alertPending, due>>
lockVars   == <<holder, mutexQ, condQ>>
callVars   == <<pc, mu, cv, preempted, raising, alertCall>>
ghostVars  == <<held>>
globalVars == <<inCritical, nForks, fatal>>
vars == <<schedVars, threadVars, lockVars, callVars, ghostVars, globalVars>>

States == {"none", "alive", "waiting", "locking", "pausing", "blocking",
           "dying", "dead"}
YieldPoints == {"yield", "forkYield", "lockYield", "waitYield", "joinYield",
                "pauseYield", "ioYield", "dieYield"}
Labels == YieldPoints \cup {"run", "fork", "lock", "alertWait", "enter",
                            "join", "io"}
Errors == {"none", "reacquire", "unhandled", "nil", "assert", "deadlock"}
Waitable == Cond \cup Thread

NoScan == [on |-> FALSE, at |-> 1, scanned |-> FALSE, blocking |-> FALSE,
           pausing |-> FALSE, deleted |-> FALSE]
FirstPass == [NoScan EXCEPT !.on = TRUE]

ScanType == [on : BOOLEAN, at : Nat \ {0}, scanned : BOOLEAN,
             blocking : BOOLEAN, pausing : BOOLEAN, deleted : BOOLEAN]

SchedOK ==
  /\ self \in Thread
  /\ ring \in Seq(Thread)
  /\ scan \in ScanType

ThreadsOK ==
  /\ state \in [Thread -> States]
  /\ alertable \in [Thread -> BOOLEAN]
  /\ alertPending \in [Thread -> BOOLEAN]
  /\ due \in [Thread -> BOOLEAN]

LocksOK ==
  /\ holder \in [Mutex -> Thread \cup {Nil}]
  /\ mutexQ \in [Mutex -> Seq(Thread)]
  /\ condQ \in [Waitable -> Seq(Thread)]

CallsOK ==
  /\ pc \in [Thread -> Labels]
  /\ mu \in [Thread -> Mutex \cup {Nil}]
  /\ cv \in [Thread -> Waitable \cup {Nil}]
  /\ preempted \in [Thread -> BOOLEAN]
  /\ raising \in [Thread -> BOOLEAN]
  /\ alertCall \in [Thread -> BOOLEAN]

GlobalsOK ==
  /\ held \in [Thread -> SUBSET Mutex]
  /\ inCritical \in 0 .. MaxSuspend
  /\ nForks \in 0 .. ForkYieldRatio - 1
  /\ fatal \in Errors

TypeOK == SchedOK /\ ThreadsOK /\ LocksOK /\ CallsOK /\ GlobalsOK

Init ==
  /\ self = Main
  /\ ring = <<Main>>
  /\ scan = NoScan
  /\ state = [t \in Thread |-> IF t = Main THEN "alive" ELSE "none"]
  /\ alertable = [t \in Thread |-> FALSE]
  /\ alertPending = [t \in Thread |-> FALSE]
  /\ due = [t \in Thread |-> FALSE]
  /\ holder = [m \in Mutex |-> Nil]
  /\ mutexQ = [m \in Mutex |-> <<>>]
  /\ condQ = [c \in Waitable |-> <<>>]
  /\ pc = [t \in Thread |-> "run"]
  /\ mu = [t \in Thread |-> Nil]
  /\ cv = [t \in Thread |-> Nil]
  /\ preempted = [t \in Thread |-> t # Main]
  /\ raising = [t \in Thread |-> FALSE]
  /\ alertCall = [t \in Thread |-> FALSE]
  /\ held = [t \in Thread |-> {}]
  /\ inCritical = 0
  /\ nForks = 0
  /\ fatal = "none"

-----------------------------------------------------------------------------
(* Helpers.                                                                *)

MultipleThreads == \E t \in Thread \ {Main} : state[t] # "none"
Gone(t) == state[t] \in {"dying", "dead"}
Unborn == {t \in Thread : state[t] = "none"}
Forking == {t \in Thread : pc[t] \in {"fork", "forkYield"}}

\* The thread self executes at label l, outside every critical section.
At(l) == fatal = "none" /\ ~scan.on /\ pc[self] = l

\* The client code of self calls op.
Calls(op) == op \in Ops /\ At("run")

\* A fatal error stops the process: only the verdict changes.
Die(error) ==
  /\ fatal' = error
  /\ UNCHANGED <<schedVars, threadVars, lockVars, callVars, ghostVars,
                 inCritical, nForks>>

\* self enters a library call at label l with its operands.
Enter(l, m, c, alert) ==
  /\ pc' = [pc EXCEPT ![self] = l]
  /\ mu' = [mu EXCEPT ![self] = m]
  /\ cv' = [cv EXCEPT ![self] = c]
  /\ alertCall' = [alertCall EXCEPT ![self] = alert]
  /\ UNCHANGED <<preempted, raising>>

\* Thread t's call returns to its client.
Return(t) ==
  /\ pc' = [pc EXCEPT ![t] = "run"]
  /\ mu' = [mu EXCEPT ![t] = Nil]
  /\ cv' = [cv EXCEPT ![t] = Nil]
  /\ raising' = [raising EXCEPT ![t] = FALSE]
  /\ alertCall' = [alertCall EXCEPT ![t] = FALSE]

Goto(l) ==
  /\ pc' = [pc EXCEPT ![self] = l]
  /\ UNCHANGED <<mu, cv, preempted, raising, alertCall>>

\* CanRun for a set of threads, after self takes newState.
Wake(woken, newState) ==
  state' = [t \in Thread |->
              IF t \in woken THEN "alive"
              ELSE IF t = self THEN newState ELSE state[t]]

SetAlertable(b) == alertable' = [alertable EXCEPT ![self] = b]

-----------------------------------------------------------------------------
(* Mutexes.                                                                *)

\* The client may not ask for a mutex it has (REQUIRES of Acquire).
Acquire(m) ==
  /\ Calls("Acquire")
  /\ m \notin held[self]
  /\ Enter("lock", m, Nil, FALSE)
  /\ UNCHANGED <<schedVars, threadVars, lockVars, ghostVars, globalVars>>

LockMutex ==
  LET m == mu[self] IN
  /\ At("lock")
  /\ \/ /\ holder[m] = Nil
        /\ holder' = [holder EXCEPT ![m] = self]
        /\ held' = [held EXCEPT ![self] = @ \cup {m}]
        /\ Return(self)
        /\ UNCHANGED <<preempted, threadVars, mutexQ, condQ,
                       schedVars, globalVars>>
     \/ /\ holder[m] \notin {Nil, self}
        /\ mutexQ' = [mutexQ EXCEPT ![m] = <<self>> \o @]
        /\ Wake({}, "locking")
        /\ SetAlertable(FALSE)
        /\ Goto("lockYield")
        /\ UNCHANGED <<alertPending, due, holder, condQ, ghostVars,
                       schedVars, globalVars>>
     \/ holder[m] = self /\ Die("reacquire")

\* Fault: the unlock wakes nobody.
NoWaiter(m) == {}

\* XRelease frees m and wakes the thread that has waited for it longest.
LongestWaiter(m) == IF mutexQ[m] = <<>> THEN {} ELSE {Last(mutexQ[m])}

\* Fault: the mutex is handed to the waiter, which tries again all the same.
XReleaseHandsOver(m) ==
  /\ holder' = [holder EXCEPT ![m] = IF mutexQ[m] = <<>> THEN Nil
                                     ELSE Last(mutexQ[m])]
  /\ mutexQ' = [mutexQ EXCEPT ![m] = Front(@)]
  /\ held' = [held EXCEPT ![self] = @ \ {m}]

XRelease(m) ==
  /\ holder' = [holder EXCEPT ![m] = Nil]
  /\ mutexQ' = [mutexQ EXCEPT ![m] = Front(@)]
  /\ held' = [held EXCEPT ![self] = @ \ {m}]

Release(m) ==
  /\ Calls("Release")
  /\ m \in held[self]
  /\ XRelease(m)
  /\ Wake(LongestWaiter(m), state[self])
  /\ Goto(IF LongestWaiter(m) = {} THEN "run" ELSE "yield")
  /\ UNCHANGED <<alertable, alertPending, due, condQ, schedVars,
                 globalVars>>

-----------------------------------------------------------------------------
(* Conditions.                                                             *)

WaitCall(op, l, alert, m, c) ==
  /\ Calls(op)
  /\ m \in held[self]
  /\ SetAlertable(alert)
  /\ Enter(l, m, c, alert)
  /\ UNCHANGED <<state, alertPending, due, schedVars, lockVars, ghostVars,
                 globalVars>>

Wait(m, c)      == WaitCall("Wait", "enter", FALSE, m, c)
AlertWait(m, c) == WaitCall("AlertWait", "alertWait", TRUE, m, c)

\* AlertWait has set alertable and calls XWait, which enters its TRY.
CallXWait ==
  /\ At("alertWait")
  /\ Goto("enter")
  /\ UNCHANGED <<schedVars, threadVars, lockVars, ghostVars, globalVars>>

XWait ==
  /\ At("enter")
  /\ XRelease(mu[self])
  /\ Wake(LongestWaiter(mu[self]), "waiting")
  /\ condQ' = [condQ EXCEPT ![cv[self]] = <<self>> \o @]
  /\ Goto("waitYield")
  /\ UNCHANGED <<alertable, alertPending, due, schedVars, globalVars>>

Signal(c) ==
  /\ Calls("Signal")
  /\ condQ[c] # <<>>
  /\ condQ' = [condQ EXCEPT ![c] = Tail(@)]
  /\ Wake({Head(condQ[c])}, state[self])
  /\ UNCHANGED <<alertable, alertPending, due, holder, mutexQ, callVars,
                 ghostVars, schedVars, globalVars>>

Broadcast(c) ==
  /\ Calls("Broadcast")
  /\ condQ[c] # <<>>
  /\ condQ' = [condQ EXCEPT ![c] = <<>>]
  /\ Wake(ToSet(condQ[c]), state[self])
  /\ UNCHANGED <<alertable, alertPending, due, holder, mutexQ, callVars,
                 ghostVars, schedVars, globalVars>>

-----------------------------------------------------------------------------
(* Fork, termination and Join.                                             *)

\* Fault: the count of forks is not taken modulo ForkYieldRatio.
CallForkUncapped ==
  /\ Calls("Fork")
  /\ Cardinality(Forking) < Cardinality(Unborn)
  /\ nForks' = nForks + 1
  /\ Goto("fork")
  /\ UNCHANGED <<schedVars, threadVars, lockVars, ghostVars, inCritical, fatal>>

\* As many threads may be on their way through Fork as there are to fork.
CallFork ==
  /\ Calls("Fork")
  /\ Cardinality(Forking) < Cardinality(Unborn)
  /\ nForks' = (nForks + 1) % ForkYieldRatio
  /\ Goto(IF nForks' = 0 THEN "forkYield" ELSE "fork")
  /\ UNCHANGED <<schedVars, threadVars, lockVars, ghostVars, inCritical, fatal>>

\* The new thread is linked right after self in the ring.
Fork(t) ==
  /\ At("fork")
  /\ t \in Unborn
  /\ ring' = <<t>> \o ring
  /\ state' = [state EXCEPT ![t] = "alive"]
  /\ Goto("run")
  /\ UNCHANGED <<self, scan, alertable, alertPending, due, lockVars,
                 ghostVars, globalVars>>

\* Fault: a thread ends without a Broadcast of its endCondition.
ExitSilently ==
  /\ Calls("Exit")
  /\ self # Main
  /\ held[self] = {}
  /\ Wake({}, "dying")
  /\ Goto("dieYield")
  /\ UNCHANGED <<alertable, alertPending, due, lockVars, ghostVars, schedVars,
                 globalVars>>

\* closure.apply returns in a forked thread, which has released its mutexes.
Exit ==
  /\ Calls("Exit")
  /\ self # Main
  /\ held[self] = {}
  /\ condQ' = [condQ EXCEPT ![self] = <<>>]
  /\ Wake(ToSet(condQ[self]), "dying")
  /\ Goto("dieYield")
  /\ UNCHANGED <<alertable, alertPending, due, holder, mutexQ, ghostVars,
                 schedVars, globalVars>>

JoinCall(op, alert, t) ==
  /\ Calls(op)
  /\ t # self /\ state[t] # "none"
  /\ SetAlertable(alert)
  /\ Enter("join", Nil, t, alert)
  /\ UNCHANGED <<state, alertPending, due, schedVars, lockVars, ghostVars,
                 globalVars>>

Join(t)      == JoinCall("Join", FALSE, t)
AlertJoin(t) == JoinCall("AlertJoin", TRUE, t)

\* Only Fork makes an endCondition: there is none to wait for in a join of the
\* main program.
JoinMain ==
  /\ At("join")
  /\ cv[self] = Main /\ ~Gone(Main)
  /\ Die("nil")

XJoin ==
  LET t == cv[self] IN
  /\ At("join")
  /\ \/ /\ Gone(t)
        /\ state' = [state EXCEPT ![t] = "dead"]
        /\ Return(self)
        /\ UNCHANGED <<preempted, condQ>>
     \/ /\ ~Gone(t) /\ t # Main
        /\ condQ' = [condQ EXCEPT ![t] = <<self>> \o @]
        /\ Wake({}, "waiting")
        /\ Goto("joinYield")
  /\ UNCHANGED <<alertable, alertPending, due, holder, mutexQ, ghostVars,
                 schedVars, globalVars>>

-----------------------------------------------------------------------------
(* Alerts, pauses and I/O waits.                                           *)

Alert(t) ==
  /\ Calls("Alert")
  /\ state[t] # "none"
  /\ alertPending' = [alertPending EXCEPT ![t] = TRUE]
  /\ UNCHANGED <<state, alertable, due, schedVars, lockVars, callVars,
                 ghostVars, globalVars>>

TestAlert ==
  /\ Calls("TestAlert")
  /\ alertPending' = [alertPending EXCEPT ![self] = FALSE]
  /\ UNCHANGED <<state, alertable, due, schedVars, lockVars, callVars,
                 ghostVars, globalVars>>

XPause(op, alert) ==
  /\ Calls(op)
  /\ SetAlertable(alert)
  /\ Wake({}, "pausing")
  /\ due' = [due EXCEPT ![self] = FALSE]
  /\ Enter("pauseYield", Nil, Nil, alert)
  /\ UNCHANGED <<alertPending, schedVars, lockVars, ghostVars, globalVars>>

Pause      == XPause("Pause", FALSE)
AlertPause == XPause("AlertPause", TRUE)

IOCall(op, alert) ==
  /\ Calls(op)
  /\ SetAlertable(alert)
  /\ Enter("io", Nil, Nil, alert)
  /\ UNCHANGED <<state, alertPending, due, schedVars, lockVars, ghostVars,
                 globalVars>>

IOWait      == IOCall("IOWait", FALSE)
IOAlertWait == IOCall("IOAlertWait", TRUE)

\* A program with one thread calls select itself and returns its answer.
XIOWait ==
  /\ At("io")
  /\ \/ /\ ~MultipleThreads
        /\ SetAlertable(FALSE)
        /\ Return(self)
        /\ UNCHANGED <<state, due, preempted>>
     \/ /\ MultipleThreads
        /\ Wake({}, "blocking")
        /\ due' = [due EXCEPT ![self] = FALSE]
        /\ Goto("ioYield")
        /\ UNCHANGED alertable
  /\ UNCHANGED <<alertPending, schedVars, lockVars, ghostVars, globalVars>>

-----------------------------------------------------------------------------
(* The collector's and the scheduler's clients keep the others off.        *)

SuspendOthers ==
  /\ Calls("Suspend")
  /\ inCritical < MaxSuspend
  /\ inCritical' = inCritical + 1
  /\ UNCHANGED <<schedVars, threadVars, lockVars, callVars, ghostVars,
                 nForks, fatal>>

ResumeOthers ==
  /\ Calls("Suspend")
  /\ inCritical > 0
  /\ inCritical' = inCritical - 1
  /\ UNCHANGED <<schedVars, threadVars, lockVars, callVars, ghostVars,
                 nForks, fatal>>

-----------------------------------------------------------------------------
(* InternalYield: entry.                                                   *)

Yield ==
  /\ Calls("Yield")
  /\ Goto("yield")
  /\ UNCHANGED <<schedVars, threadVars, lockVars, ghostVars, globalVars>>

\* self calls InternalYield.  Yield and UnlockMutex clear alertable first;
\* the assertion inCritical = 1 fails inside SuspendOthers.
CallInternalYield ==
  /\ \E l \in YieldPoints : At(l)
  /\ \/ /\ inCritical = 0
        /\ scan' = FirstPass
        /\ alertable' = [alertable EXCEPT
             ![self] = @ /\ pc[self] \notin {"yield", "forkYield"}]
        /\ UNCHANGED <<self, ring, state, alertPending, due, lockVars,
                       callVars, ghostVars, globalVars>>
     \/ inCritical > 0 /\ Die("assert")

\* Fault: the handler does not test inCritical.
PreemptAnywhere ==
  /\ Preemption /\ MultipleThreads
  /\ fatal = "none" /\ ~scan.on
  /\ scan' = FirstPass
  /\ preempted' = [preempted EXCEPT ![self] = TRUE]
  /\ UNCHANGED <<self, ring, threadVars, lockVars, pc, mu, cv, raising,
                 alertCall, ghostVars, globalVars>>

\* switch_thread: the timer signal finds the program outside every critical
\* section.  The timer runs once there is a second thread.
Preempt ==
  /\ Preemption /\ MultipleThreads
  /\ fatal = "none" /\ ~scan.on /\ inCritical = 0
  /\ scan' = FirstPass
  /\ preempted' = [preempted EXCEPT ![self] = TRUE]
  /\ UNCHANGED <<self, ring, threadVars, lockVars, pc, mu, cv, raising,
                 alertCall, ghostVars, globalVars>>

-----------------------------------------------------------------------------
(* InternalYield: the inner loop visits the ring from its "from" and stops *)
(* at the first thread that can run.                                       *)

\* Faults: alerts reach threads that are not alertable; or not those that wait.
AlertedAnyway(t) == alertPending[t]
AlertedAwake(t) == alertable[t] /\ alertPending[t] /\ state[t] # "waiting"

Alerted(t) == alertable[t] /\ alertPending[t]

\* Fault: the clock is not compared with a pausing thread's time.
ReadyToRead(t) == due[t] /\ state[t] = "blocking" /\ scan.scanned

\* The time, or the descriptor, that t waits for has come.
Ready(t) ==
  /\ due[t]
  /\ \/ state[t] = "pausing"
     \/ state[t] = "blocking" /\ scan.scanned

Visits(t) ==
  /\ fatal = "none" /\ scan.on
  /\ scan.at \in 1 .. Len(ring)
  /\ t = ring[scan.at]

\* An alerted thread leaves the list of the condition it waits for; nothing
\* can keep Alerted from being raised when it is resumed.
VisitAlertedWaiter(t) ==
  /\ Visits(t)
  /\ state[t] = "waiting" /\ Alerted(t)
  /\ \E i \in 1 .. Len(condQ[cv[t]]) :
       /\ condQ[cv[t]][i] = t
       /\ condQ' = [condQ EXCEPT ![cv[t]] = RemoveAt(@, i)]
  /\ state' = [state EXCEPT ![t] = "alive"]
  /\ raising' = [raising EXCEPT ![t] = TRUE]
  /\ UNCHANGED <<schedVars, alertable, alertPending, due, holder, mutexQ, pc,
                 mu, cv, preempted, alertCall, ghostVars, globalVars>>

VisitReady(t) ==
  /\ Visits(t)
  /\ state[t] \in {"pausing", "blocking"}
  /\ Alerted(t) \/ Ready(t)
  /\ state' = [state EXCEPT ![t] = "alive"]
  /\ UNCHANGED <<schedVars, alertable, alertPending, due, lockVars,
                 callVars, ghostVars, globalVars>>

VisitBlocked(t) ==
  /\ Visits(t)
  /\ \/ state[t] = "locking"
     \/ /\ state[t] \in {"waiting", "pausing", "blocking"}
        /\ ~Alerted(t) /\ ~Ready(t)
  /\ scan' = [scan EXCEPT
       !.at = @ + 1,
       !.pausing = @ \/ state[t] = "pausing",
       !.blocking = @ \/ (state[t] = "blocking" /\ ~scan.scanned)]
  /\ UNCHANGED <<self, ring, threadVars, lockVars, callVars, ghostVars,
                 globalVars>>

\* A terminated thread leaves the ring.  If the walk started from it, the
\* walk now ends where it used to end: at its predecessor, the new "from".
VisitGone(t) ==
  /\ Visits(t)
  /\ Gone(t)
  /\ IF scan.at = 1
     THEN /\ ring' = <<Last(ring)>> \o Front(Tail(ring))
          /\ scan' = [scan EXCEPT !.at = 2, !.deleted = TRUE]
     ELSE /\ ring' = RemoveAt(ring, scan.at)
          /\ scan' = [scan EXCEPT !.deleted = TRUE]
  /\ UNCHANGED <<self, threadVars, lockVars, callVars, ghostVars, globalVars>>

-----------------------------------------------------------------------------
(* InternalYield: what follows the inner loop.                             *)

\* The thread the inner loop stopped at: back at "from" if at none.
Cursor == IF scan.at \in 1 .. Len(ring) THEN ring[scan.at] ELSE ring[1]

LoopEnded ==
  /\ fatal = "none" /\ scan.on
  /\ scan.at \in 1 .. Len(ring) => state[Cursor] = "alive"

CanTransfer ==
  /\ state[Cursor] = "alive"
  /\ scan.scanned \/ ~scan.blocking

\* Faults: self is left out of the list; or the list turns round each time.
RotateShort(s, i) == SubSeq(s, i + 1, Len(s)) \o SubSeq(s, 1, i - 1)
RotateBackwards(s, i) == Reverse(RemoveAt(s, i)) \o <<s[i]>>

\* The ring as seen from its i-th thread, which becomes the last.
RotateTo(s, i) == SubSeq(s, i + 1, Len(s)) \o SubSeq(s, 1, i)

CursorIndex == IF scan.at \in 1 .. Len(ring) THEN scan.at ELSE 1

\* Where a thread goes on when its own call of InternalYield returns.
After(l) ==
  CASE l \in {"waitYield", "lockYield"} -> "lock"
    [] l = "forkYield" -> "fork"
    [] l = "joinYield" -> "join"
    [] OTHER -> l

\* InternalYield returns in t, in the handler or in the call t made.
ResumeNormally(t) ==
  IF preempted[t]
  THEN UNCHANGED <<pc, mu, cv, raising, alertCall>>
  ELSE IF pc[t] \in {"yield", "pauseYield", "ioYield"}
       THEN Return(t)
       ELSE /\ pc' = [pc EXCEPT ![t] = After(@)]
            /\ UNCHANGED <<mu, cv, raising, alertCall>>

\* Fault: XWait has no TRY ... FINALLY.
RaiseAlertedUnlocked(t) == Return(t)

\* InternalYield raises Alerted in t: XWait's FINALLY relocks the mutex, the
\* other alertable procedures pass the exception to the client.
RaiseAlerted(t) ==
  IF pc[t] \in {"enter", "waitYield"}
  THEN /\ pc' = [pc EXCEPT ![t] = "lock"]
       /\ raising' = [raising EXCEPT ![t] = TRUE]
       /\ UNCHANGED <<mu, cv, alertCall>>
  ELSE Return(t)

\* Procedures that do not list Alerted in RAISES end the program.
Unhandled(t) ==
  pc[t] \in {"lock", "lockYield", "yield", "fork", "forkYield"}

Transfer(t) ==
  /\ LoopEnded /\ CanTransfer /\ t = Cursor
  /\ self' = t
  /\ ring' = RotateTo(ring, CursorIndex)
  /\ scan' = NoScan
  /\ alertable' = [alertable EXCEPT ![t] = FALSE]
  /\ preempted' = [preempted EXCEPT ![t] = FALSE]
  /\ \/ /\ ~Alerted(t)
        /\ ResumeNormally(t)
        /\ UNCHANGED <<alertPending, fatal>>
     \/ /\ Alerted(t) /\ ~Unhandled(t)
        /\ alertPending' = [alertPending EXCEPT ![t] = FALSE]
        /\ RaiseAlerted(t)
        /\ UNCHANGED fatal
     \/ /\ Alerted(t) /\ Unhandled(t)
        /\ alertPending' = [alertPending EXCEPT ![t] = FALSE]
        /\ fatal' = "unhandled"
        /\ UNCHANGED <<pc, mu, cv, raising, alertCall>>
  /\ UNCHANGED <<state, due, lockVars, ghostVars, inCritical, nForks>>

\* Run through the ring once more after threads were removed from it.
Rescan ==
  /\ LoopEnded /\ ~CanTransfer
  /\ scan.deleted
  /\ scan' = FirstPass
  /\ UNCHANGED <<self, ring, threadVars, lockVars, callVars, ghostVars,
                 globalVars>>

\* select polls if some thread can run, else it waits for the first event.
Select ==
  /\ LoopEnded /\ ~CanTransfer
  /\ ~scan.deleted
  /\ scan.pausing \/ scan.blocking
  /\ \/ state[Cursor] = "alive"
     \/ \E t \in Thread : due[t] /\ state[t] \in {"pausing", "blocking"}
  /\ scan' = [FirstPass EXCEPT !.scanned = TRUE]
  /\ UNCHANGED <<self, ring, threadVars, lockVars, callVars, ghostVars,
                 globalVars>>

\* Fault: pausing and blocking threads do not count.
DeadlockTooSoon ==
  /\ LoopEnded /\ ~CanTransfer
  /\ ~scan.deleted
  /\ Die("deadlock")

Deadlock ==
  /\ LoopEnded /\ ~CanTransfer
  /\ ~scan.deleted /\ ~scan.pausing /\ ~scan.blocking
  /\ Die("deadlock")

-----------------------------------------------------------------------------
(* The environment, and the program's end.                                 *)

\* Time passes, or a descriptor becomes ready, for t.  InternalYield looks
\* at the clock when it starts and at the descriptors when it selects.
Due(t) ==
  /\ fatal = "none"
  /\ state[t] \in {"pausing", "blocking"} /\ ~due[t]
  /\ ~scan.on \/ (LoopEnded /\ ~CanTransfer)
  /\ due' = [due EXCEPT ![t] = TRUE]
  /\ UNCHANGED <<state, alertable, alertPending, schedVars, lockVars,
                 callVars, ghostVars, globalVars>>

Halted ==
  /\ fatal # "none"
  /\ UNCHANGED vars

-----------------------------------------------------------------------------

\* The steps of the library that the running thread takes on its own.
Library ==
  \/ LockMutex \/ CallXWait \/ XWait \/ XJoin \/ JoinMain \/ XIOWait \/ CallInternalYield
  \/ \E t \in Thread : Fork(t)

Scheduler ==
  \/ \E t \in Thread :
       \/ VisitAlertedWaiter(t) \/ VisitReady(t) \/ VisitBlocked(t)
       \/ VisitGone(t) \/ Transfer(t)
  \/ Rescan \/ Select \/ Deadlock

Client ==
  \/ \E m \in Mutex : Acquire(m) \/ Release(m)
  \/ \E m \in Mutex, c \in Cond : Wait(m, c) \/ AlertWait(m, c)
  \/ \E c \in Cond : Signal(c) \/ Broadcast(c)
  \/ \E t \in Thread : Join(t) \/ AlertJoin(t) \/ Alert(t)
  \/ CallFork \/ Exit \/ TestAlert \/ Yield
  \/ Pause \/ AlertPause \/ IOWait \/ IOAlertWait
  \/ SuspendOthers \/ ResumeOthers

Next ==
  \/ Client \/ Library \/ Scheduler \/ Preempt \/ Halted
  \/ \E t \in Thread : Due(t)

Spec == Init /\ [][Next]_vars
-----------------------------------------------------------------------------
(* Fairness.  Client code may do anything or nothing.  The timer strikes   *)
(* every 100 ms of processor time, so a thread that is resumed inside the  *)
(* library again and again gets through a critical section; time passes.   *)

LibraryStep(t) == self = t /\ Library

Fairness ==
  /\ WF_vars(Scheduler) /\ WF_vars(Preempt)
  /\ \A t \in Thread : SF_vars(LibraryStep(t))
  /\ \A t \in Thread : SF_vars(state[t] = "pausing" /\ Due(t))

FairSpec == Spec /\ Fairness

-----------------------------------------------------------------------------
(* Safety.                                                                 *)

\* LOCK excludes: what a client believes to have locked (LL of Thread.i3's
\* specification) is what Mutex.holder says, so no two clients have the same
\* mutex and no mutex stays locked by a thread that is not aware of it.
LockedByHolder ==
  \A m \in Mutex, t \in Thread : m \in held[t] <=> holder[m] = t

\* A released mutex that others wait for is on its way to one of them: some
\* thread that can run is about to try for it again (UnlockMutex wakes only
\* one thread and does not hand the mutex over).
NoLostUnlock ==
  \A m \in Mutex :
    holder[m] = Nil /\ mutexQ[m] # <<>> =>
      \E t \in Thread : /\ state[t] = "alive" /\ mu[t] = m
                        /\ pc[t] \in {"lock", "lockYield"}

OnceIn(s, t) == \E i \in DOMAIN s : \A j \in DOMAIN s : s[j] = t <=> j = i
NotIn(s, t) == \A i \in DOMAIN s : s[i] # t

\* A thread that waits is in the list of what it waits for, once, and in no
\* other list, whether it was signalled, alerted or never woken; a thread
\* that does not wait is in no list (the lists share T.nextWaiting).
QueuesMatchStates ==
  \A t \in Thread :
    /\ \A c \in Waitable : IF state[t] = "waiting" /\ cv[t] = c
                           THEN OnceIn(condQ[c], t) ELSE NotIn(condQ[c], t)
    /\ \A m \in Mutex : IF state[t] = "locking" /\ mu[t] = m
                        THEN OnceIn(mutexQ[m], t) ELSE NotIn(mutexQ[m], t)

\* The scheduler never loses a thread: whatever can still run or be woken is
\* in the ring exactly once, and so is the running thread.
RingHasAll ==
  \A t \in Thread :
    /\ state[t] \notin {"none", "dying", "dead"} => OnceIn(ring, t)
    /\ state[t] = "none" => NotIn(ring, t)
    /\ ~scan.on => state[self] # "dead" /\ ring[Len(ring)] = self

\* "Deadlock !" is the truth: every thread left waits for a signal nobody
\* can send, or for a mutex whose holder is itself stuck.
DeadlockIsReal ==
  fatal = "deadlock" =>
    \A t \in Thread :
      \/ state[t] \in {"none", "dying", "dead"}
      \/ state[t] = "waiting" /\ ~Alerted(t)
      \/ state[t] = "locking" /\ holder[mu[t]] \in Thread

\* The library, and not the client, never asks for a mutex twice.
NoReacquire == fatal # "reacquire"

-----------------------------------------------------------------------------
(* The rest of an inductive invariant for LockedByHolder, NoLostUnlock,    *)
(* QueuesMatchStates and LockingNotAlertable.                              *)

\* The assertion of InternalYield: who waits for a mutex is not alertable.
LockingNotAlertable ==
  \A t \in Thread : state[t] = "locking" => ~alertable[t]

\* The operands of a call are those its label needs.
OperandsOK ==
  \A t \in Thread :
    /\ pc[t] \in {"alertWait", "enter", "waitYield", "lock", "lockYield"} =>
         mu[t] \in Mutex
    /\ pc[t] \in {"alertWait", "enter", "waitYield"} => cv[t] \in Cond
    /\ pc[t] \in {"join", "joinYield"} => cv[t] \in Thread
    /\ pc[t] \in {"alertWait", "enter"} => mu[t] \in held[t]

\* A thread that cannot run is inside the InternalYield that its state names.
StatesOK ==
  /\ state[self] # "none"
  /\ \A t \in Thread :
       /\ state[t] = "none" => pc[t] = "run"
       /\ state[t] = "waiting" => pc[t] \in {"waitYield", "joinYield"}
       /\ state[t] = "locking" => pc[t] = "lockYield"
       /\ state[t] \in {"pausing", "blocking", "dying", "dead"} =>
            pc[t] \in {"pauseYield", "ioYield", "dieYield"}

LockInv ==
  /\ TypeOK /\ ring # <<>> /\ OperandsOK /\ StatesOK
  /\ LockedByHolder /\ QueuesMatchStates /\ NoLostUnlock /\ LockingNotAlertable

-----------------------------------------------------------------------------
(* Inductive invariants for RingHasAll and DeadlockIsReal, and for the     *)
(* action properties below.                                                *)

MainStays == state[Main] # "none" /\ ~Gone(Main)

RingInv == LockInv /\ RingHasAll /\ MainStays

\* What a walk that removed nobody has found out about a thread it passed.
Passed(t) ==
  \/ state[t] = "locking"
  \/ state[t] = "waiting" /\ ~Alerted(t)
  \/ state[t] = "pausing" /\ scan.pausing
  \/ state[t] = "blocking" /\ (scan.blocking \/ scan.scanned)

\* The walk can stop at t: after a select there is such a thread.
StopsAt(t) ==
  \/ state[t] = "alive"
  \/ due[t] /\ state[t] \in {"pausing", "blocking"}

WalkOK ==
  scan.on /\ fatal = "none" /\ ~scan.deleted =>
    /\ \A i \in 1 .. Len(ring) : i < scan.at => Passed(ring[i])
    /\ scan.scanned =>
         \E i \in 1 .. Len(ring) : i >= scan.at /\ StopsAt(ring[i])

WalkInv == RingInv /\ WalkOK /\ DeadlockIsReal

\* A call has a mutex only from XWait's unlock, or LOCK, to the lock.
NoMutexOperand ==
  \A t \in Thread :
    pc[t] \notin {"alertWait", "enter", "waitYield", "lock", "lockYield"} =>
      mu[t] = Nil

CallInv == LockInv /\ NoMutexOperand /\ (scan.on => inCritical = 0)

-----------------------------------------------------------------------------
(* Action properties.                                                      *)

Raises(t) ==
  scan.on /\ ~scan'.on /\ self' = t /\ alertPending[t] /\ ~alertPending'[t]

\* A thread waiting on a condition is woken only by a Signal or Broadcast of
\* that condition, by the end of the thread it joins, or by an alert that it
\* asked for: never by another condition's traffic.
WokenForCause ==
  [][\A t \in Thread :
       state[t] = "waiting" /\ state'[t] # "waiting" =>
         \/ scan.on /\ alertable[t] /\ alertPending[t]
         \/ ~scan.on /\ condQ'[cv[t]] # condQ[cv[t]]]_vars

\* Nobody else runs, and no call of the client returns in another thread,
\* while one thread has suspended the others.
SuspendedStay ==
  [][inCritical > 0 => self' = self /\ \A t \in Thread \ {self} :
                                         pc'[t] = pc[t]]_vars

\* AlertWait returns, normally or by Alerted, with its mutex locked again.
WaitRelocks ==
  [][\A t \in Thread :
       mu[t] # Nil /\ pc[t] # "run" /\ pc'[t] = "run" => mu[t] \in held'[t]]_vars

-----------------------------------------------------------------------------
(* Liveness.                                                               *)

\* A checked error ended the program, and not the verdict "Deadlock !".
Aborted == fatal \notin {"none", "deadlock"}

\* A thread that can run does run: the walk from self.next is a round robin.
EveryoneRuns ==
  \A t \in Thread : state[t] = "alive" ~> (self = t \/ Aborted)

\* An alertable wait ends once the thread is alerted.
AlertEndsWait ==
  \A t \in Thread :
    state[t] = "waiting" /\ alertable[t] /\ alertPending[t] ~>
      state[t] # "waiting" \/ Aborted

\* Every pause ends.
PauseEnds ==
  \A t \in Thread : state[t] = "pausing" ~> state[t] # "pausing" \/ Aborted

\* A join of a terminated thread returns.
JoinReturns ==
  \A t, u \in Thread :
    pc[t] \in {"join", "joinYield"} /\ cv[t] = u /\ Gone(u) ~>
      pc[t] = "run" \/ Aborted
=============================================================================
