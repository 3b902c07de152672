----------------------- MODULE ThreadRefinement_proofs -----------------------
(***************************************************************************)
(* ThreadPosix implements ThreadSpec for any threads, mutexes, conditions. *)
(***************************************************************************)
EXTENDS ThreadRefinement, ThreadPosix_proofs

-----------------------------------------------------------------------------
(* Frames.                                                                 *)

\* Where t's call is, and what it knows.
Locals(t) ==
  <<pc[t], mu[t], cv[t], raising[t], alertCall[t], alertable[t], held[t]>>

LEMMA SchedulerScans ==
  ASSUME Scheduler
  PROVE  scan.on
<1>1. ASSUME NEW u \in Thread,
             \/ VisitAlertedWaiter(u) \/ VisitReady(u) \/ VisitBlocked(u)
             \/ VisitGone(u) \/ Transfer(u)
      PROVE  scan.on
  BY <1>1 DEF VisitAlertedWaiter, VisitReady, VisitBlocked, VisitGone, Transfer,
     Visits, LoopEnded
<1>2. Rescan \/ Select \/ Deadlock => scan.on
  BY DEF Rescan, Select, Deadlock, LoopEnded
<1> QED  BY <1>1, <1>2 DEF Scheduler

\* Outside InternalYield the running thread touches no other's call.
LEMMA OthersKeep ==
  ASSUME LockInv, [Next]_vars, ~scan.on, NEW t \in Thread, t # self
  PROVE  /\ Locals(t)' = Locals(t)
         /\ alertPending[t] => alertPending'[t]
<1>0. /\ self \in Thread /\ CallsOK /\ held \in [Thread -> SUBSET Mutex]
      /\ alertable \in [Thread -> BOOLEAN] /\ alertPending \in [Thread -> BOOLEAN]
  BY DEF LockInv, TypeOK, SchedOK, ThreadsOK, GlobalsOK
<1> DEFINE Kept == /\ Locals(t)' = Locals(t)
                   /\ alertPending[t] => alertPending'[t]
<1>l. ASSUME pc'[t] = pc[t], mu'[t] = mu[t], cv'[t] = cv[t],
             raising'[t] = raising[t], alertCall'[t] = alertCall[t],
             alertable'[t] = alertable[t], held'[t] = held[t],
             alertPending[t] => alertPending'[t]
      PROVE  Kept
  BY <1>l DEF Locals
<1> HIDE DEF Kept
<1>u. ASSUME UNCHANGED <<callVars, alertable, alertPending, held>> PROVE Kept
  BY <1>l, <1>u DEF callVars
<1>a. ASSUME NEW b, SetAlertable(b) PROVE alertable'[t] = alertable[t]
  BY <1>0, <1>a DEF SetAlertable
<1>h. ASSUME NEW m, XRelease(m) PROVE held'[t] = held[t]
  BY <1>0, <1>h DEF XRelease
<1>g. ASSUME NEW l, Goto(l), alertable'[t] = alertable[t], held'[t] = held[t],
             UNCHANGED alertPending
      PROVE  Kept
  BY <1>0, <1>l, <1>g DEF Goto, CallsOK
<1>e. ASSUME NEW l, NEW m, NEW c, NEW a, Enter(l, m, c, a),
             alertable'[t] = alertable[t], UNCHANGED <<alertPending, held>>
      PROVE  Kept
  BY <1>0, <1>l, <1>e DEF Enter, CallsOK
<1>r. ASSUME Return(self), alertable'[t] = alertable[t], held'[t] = held[t],
             UNCHANGED alertPending
      PROVE  Kept
  BY <1>0, <1>l, <1>r DEF Return, CallsOK
<1>1. ASSUME Client PROVE Kept
  <2>1. ASSUME NEW m \in Mutex, Acquire(m) PROVE Kept
    BY <1>e, <2>1 DEF Acquire, threadVars, ghostVars
  <2>2. ASSUME NEW m \in Mutex, Release(m) PROVE Kept
    BY <1>g, <1>h, <2>2 DEF Release
  <2>3. ASSUME NEW m \in Mutex, NEW c \in Cond, Wait(m, c) \/ AlertWait(m, c)
        PROVE  Kept
    BY <1>e, <1>a, <2>3 DEF Wait, AlertWait, WaitCall, ghostVars
  <2>4. ASSUME NEW c \in Cond, Signal(c) \/ Broadcast(c) PROVE Kept
    BY <1>u, <2>4 DEF Signal, Broadcast, ghostVars
  <2>5. ASSUME NEW u \in Thread, Join(u) \/ AlertJoin(u) PROVE Kept
    BY <1>e, <1>a, <2>5 DEF Join, AlertJoin, JoinCall, ghostVars
  <2>6. ASSUME NEW u \in Thread, Alert(u) PROVE Kept
    BY <1>0, <1>l, <2>6 DEF Alert, callVars, ghostVars
  <2>7. ASSUME CallFork \/ Exit \/ Yield PROVE Kept
    BY <1>g, <2>7 DEF CallFork, Exit, Yield, threadVars, ghostVars
  <2>8. ASSUME TestAlert PROVE Kept
    BY <1>0, <1>l, <2>8 DEF TestAlert, callVars, ghostVars
  <2>9. ASSUME SuspendOthers \/ ResumeOthers PROVE Kept
    BY <1>u, <2>9 DEF SuspendOthers, ResumeOthers, threadVars, ghostVars
  <2>10. ASSUME Pause \/ AlertPause \/ IOWait \/ IOAlertWait PROVE Kept
    BY <1>e, <1>a, <2>10
       DEF Pause, AlertPause, XPause, IOWait, IOAlertWait, IOCall, ghostVars
  <2> QED  BY <1>1, <2>1, <2>2, <2>3, <2>4, <2>5, <2>6, <2>7, <2>8, <2>9, <2>10
              DEF Client
<1>2. ASSUME Library PROVE Kept
  <2>1. ASSUME LockMutex PROVE Kept
    <3>1. /\ held'[t] = held[t] /\ UNCHANGED alertPending
          /\ alertable'[t] = alertable[t]
          /\ \/ Return(self) /\ preempted' = preempted
             \/ Goto("lockYield") \/ UNCHANGED callVars
      BY <1>0, <1>a, <2>1 DEF LockMutex, Die, threadVars, ghostVars
    <3> QED  BY <1>g, <1>l, <1>r, <3>1 DEF callVars
  <2>2. ASSUME CallXWait PROVE Kept
    BY <1>g, <2>2 DEF CallXWait, threadVars, ghostVars
  <2>3. ASSUME XWait PROVE Kept
    BY <1>g, <1>h, <2>3 DEF XWait
  <2>4. ASSUME XJoin PROVE Kept
    BY <1>g, <1>r, <2>4 DEF XJoin, ghostVars
  <2>5. ASSUME XIOWait PROVE Kept
    BY <1>a, <1>g, <1>r, <2>5 DEF XIOWait, ghostVars
  <2>6. ASSUME CallInternalYield \/ JoinMain PROVE Kept
    <3>1. /\ alertable'[t] = alertable[t]
          /\ UNCHANGED <<callVars, alertPending, held>>
      BY <1>0, <2>6 DEF CallInternalYield, JoinMain, Die, threadVars, ghostVars
    <3> QED  BY <1>l, <3>1 DEF callVars
  <2>7. ASSUME NEW u \in Thread, Fork(u) PROVE Kept
    BY <1>g, <2>7 DEF Fork, ghostVars
  <2> QED  BY <1>2, <2>1, <2>2, <2>3, <2>4, <2>5, <2>6, <2>7 DEF Library
<1>3. ~Scheduler
  BY SchedulerScans
<1>4. ASSUME Preempt PROVE Kept
  BY <1>l, <1>4 DEF Preempt, threadVars, ghostVars
<1>5. ASSUME NEW u \in Thread, Due(u) PROVE Kept
  BY <1>u, <1>5 DEF Due, ghostVars
<1>6. ASSUME Halted \/ UNCHANGED vars PROVE Kept
  BY <1>u, <1>6 DEF Halted, vars, threadVars, ghostVars
<1>7. Kept
  BY <1>1, <1>2, <1>3, <1>4, <1>5, <1>6 DEF Next
<1> QED  BY <1>7 DEF Kept

\* A thread that can run can still run after a step of another.
LEMMA AliveStays ==
  ASSUME LockInv, [Next]_vars, NEW t \in Thread, t # self, state[t] = "alive"
  PROVE  state'[t] = "alive"
<1>0. state \in [Thread -> States]
  BY DEF LockInv, TypeOK, ThreadsOK
<1>w. ASSUME NEW woken, NEW s, Wake(woken, s) PROVE state'[t] = "alive"
  BY <1>w DEF Wake
<1>1. ASSUME NEW m \in Mutex, Release(m) PROVE state'[t] = "alive"
  BY <1>w, <1>1 DEF Release
<1>2. ASSUME NEW c \in Cond, Signal(c) \/ Broadcast(c) PROVE state'[t] = "alive"
  BY <1>w, <1>2 DEF Signal, Broadcast
<1>3. ASSUME NEW u \in Thread, Fork(u) \/ VisitAlertedWaiter(u) \/ VisitReady(u)
      PROVE  state'[t] = "alive"
  BY <1>0, <1>3 DEF Fork, VisitAlertedWaiter, VisitReady
<1>4. CASE Exit \/ Pause \/ AlertPause \/ XWait
  BY <1>w, <1>4 DEF Exit, Pause, AlertPause, XPause, XWait
<1>5. CASE LockMutex
  BY <1>w, <1>5 DEF LockMutex, Die, threadVars
<1>6. CASE XJoin
  BY <1>0, <1>w, <1>6 DEF XJoin, Gone
<1>7. CASE XIOWait
  BY <1>w, <1>7 DEF XIOWait
<1> QED  BY StateFrame, <1>1, <1>2, <1>3, <1>4, <1>5, <1>6, <1>7
-----------------------------------------------------------------------------
(* Alerts.                                                                 *)

\* A step that leaves t's call and its alert alone keeps AlertOK.
LEMMA AlertKept ==
  ASSUME NEW t \in Thread, AlertOK(t), Locals(t)' = Locals(t),
         alertPending[t] => alertPending'[t],
         state[t] = "alive" => state'[t] = "alive"
  PROVE  AlertOK(t)'
<1>1. /\ pc'[t] = pc[t] /\ mu'[t] = mu[t] /\ cv'[t] = cv[t]
      /\ raising'[t] = raising[t] /\ alertCall'[t] = alertCall[t]
      /\ alertable'[t] = alertable[t] /\ held'[t] = held[t]
  BY DEF Locals
<1> QED  BY <1>1 DEF AlertOK, Alerted

\* The running thread's own steps keep it.
LEMMA AlertOwnStep ==
  ASSUME LockInv, AlertsOK, [Next]_vars, ~scan.on
  PROVE  self' = self /\ AlertOK(self)'
<1>0. /\ self \in Thread /\ CallsOK /\ held \in [Thread -> SUBSET Mutex]
      /\ alertable \in [Thread -> BOOLEAN] /\ alertPending \in [Thread -> BOOLEAN]
  BY DEF LockInv, TypeOK, SchedOK, ThreadsOK, GlobalsOK
<1>s. self' = self
  <2>1. ASSUME NEW t \in Thread
        PROVE  ~VisitBlocked(t) /\ ~VisitGone(t) /\ ~Transfer(t)
    BY DEF VisitBlocked, VisitGone, Transfer, Visits, LoopEnded
  <2> QED  BY <2>1, SchedFrame
              DEF Fork, CallInternalYield, Preempt, Rescan, Select, Die, schedVars
<1>o. AlertOK(self)
  BY <1>0 DEF AlertsOK
<1> DEFINE Ok == AlertOK(self)'
<1>k. ASSUME pc'[self] = pc[self], mu'[self] = mu[self], cv'[self] = cv[self],
             raising'[self] = raising[self], alertCall'[self] = alertCall[self],
             alertable'[self] = alertable[self], held'[self] = held[self],
             alertPending[self] => alertPending'[self],
             state[self] = "alive" => state'[self] = "alive"
      PROVE  Ok
  BY <1>k, <1>o, <1>s DEF AlertOK, Alerted
\* The thread reaches a label where no alert is on its way.
<1>f. ASSUME raising'[self] = FALSE,
             pc'[self] \notin {"alertWait", "enter", "waitYield", "lock", "lockYield"}
      PROVE  Ok
  BY <1>f, <1>s DEF AlertOK
<1>z. ASSUME NEW l \in {"run", "fork", "join", "io", "alertWait", "enter"}, At(l)
      PROVE  raising[self] = FALSE /\ pc[self] = l
  BY <1>z, <1>0, <1>o DEF At, AlertOK, CallsOK
<1>c. ASSUME NEW op, Calls(op)
      PROVE  raising[self] = FALSE /\ pc[self] = "run"
  BY <1>c, <1>z DEF Calls
<1>g. ASSUME NEW l, Goto(l)
      PROVE  /\ pc'[self] = l /\ mu'[self] = mu[self] /\ cv'[self] = cv[self]
             /\ raising'[self] = raising[self] /\ alertCall'[self] = alertCall[self]
  BY <1>g, <1>0 DEF Goto, CallsOK
<1>e. ASSUME NEW l, NEW m, NEW c, NEW a, Enter(l, m, c, a)
      PROVE  /\ pc'[self] = l /\ mu'[self] = m /\ cv'[self] = c
             /\ raising'[self] = raising[self] /\ alertCall'[self] = a
  BY <1>e, <1>0 DEF Enter, CallsOK
<1>r. ASSUME Return(self) PROVE Ok
  <2>1. pc'[self] = "run" /\ raising'[self] = FALSE
    BY <1>r, <1>0 DEF Return, CallsOK
  <2> QED  BY <1>f, <2>1
<1>u. ASSUME UNCHANGED <<callVars, threadVars, held>> PROVE Ok
  BY <1>k, <1>u DEF callVars, threadVars
<1> HIDE DEF Ok
<1>1. ASSUME Client PROVE Ok
  <2>1. ASSUME NEW m \in Mutex, Acquire(m) PROVE Ok
    <3>1. /\ pc'[self] = "lock" /\ cv'[self] = Nil /\ raising'[self] = FALSE
      BY <1>c, <1>e, <2>1 DEF Acquire
    <3> QED  BY <1>s, <3>1 DEF AlertOK, Ok
  <2>2. ASSUME NEW m \in Mutex, Release(m) PROVE Ok
    <3>1. pc'[self] \in {"run", "yield"} /\ raising'[self] = FALSE
      BY <1>c, <1>g, <2>2 DEF Release
    <3> QED  BY <1>f, <3>1
  <2>3. ASSUME NEW m \in Mutex, NEW c \in Cond, Wait(m, c) \/ AlertWait(m, c)
        PROVE  Ok
    <3>1. /\ pc'[self] \in {"enter", "alertWait"} /\ raising'[self] = FALSE
          /\ alertCall'[self] = alertable'[self]
      BY <1>0, <1>c, <1>e, <2>3 DEF Wait, AlertWait, WaitCall, SetAlertable
    <3> QED  BY <1>s, <3>1 DEF AlertOK, Ok
  <2>4. ASSUME NEW c \in Cond, Signal(c) \/ Broadcast(c) PROVE Ok
    <3>1. pc'[self] = "run" /\ raising'[self] = FALSE
      BY <1>c, <2>4 DEF Signal, Broadcast, callVars
    <3> QED  BY <1>f, <3>1
  <2>5. ASSUME NEW t \in Thread, Join(t) \/ AlertJoin(t) PROVE Ok
    <3>1. pc'[self] = "join" /\ raising'[self] = FALSE
      BY <1>c, <1>e, <2>5 DEF Join, AlertJoin, JoinCall
    <3> QED  BY <1>f, <3>1
  <2>6. ASSUME \/ TestAlert \/ SuspendOthers \/ ResumeOthers
               \/ \E t \in Thread : Alert(t)
        PROVE  Ok
    <3>1. pc'[self] = "run" /\ raising'[self] = FALSE
      BY <1>c, <2>6 DEF TestAlert, SuspendOthers, ResumeOthers, Alert, callVars
    <3> QED  BY <1>f, <3>1
  <2>7. ASSUME CallFork \/ Exit \/ Yield PROVE Ok
    <3>1. /\ pc'[self] \in {"fork", "forkYield", "dieYield", "yield"}
          /\ raising'[self] = FALSE
      BY <1>c, <1>g, <2>7 DEF CallFork, Exit, Yield
    <3> QED  BY <1>f, <3>1
  <2>8. ASSUME Pause \/ AlertPause \/ IOWait \/ IOAlertWait PROVE Ok
    <3>1. pc'[self] \in {"pauseYield", "io"} /\ raising'[self] = FALSE
      BY <1>c, <1>e, <2>8 DEF Pause, AlertPause, XPause, IOWait, IOAlertWait, IOCall
    <3> QED  BY <1>f, <3>1
  <2> QED  BY <1>1, <2>1, <2>2, <2>3, <2>4, <2>5, <2>6, <2>7, <2>8 DEF Client
<1>2. ASSUME Library PROVE Ok
  <2>1. ASSUME LockMutex PROVE Ok
    <3>1. ASSUME Goto("lockYield"), SetAlertable(FALSE) PROVE Ok
      <4>1. pc'[self] = "lockYield" /\ alertable'[self] = FALSE
        BY <1>0, <1>g, <3>1 DEF SetAlertable
      <4> QED  BY <1>s, <4>1 DEF AlertOK, Ok
    <3> QED  BY <1>r, <1>u, <2>1, <3>1 DEF LockMutex, Die, ghostVars
  <2>2. ASSUME CallXWait PROVE Ok
    <3>1. /\ pc[self] = "alertWait" /\ pc'[self] = "enter" /\ raising'[self] = FALSE
          /\ alertCall'[self] = alertCall[self] /\ alertable' = alertable
      BY <1>g, <1>z, <2>2 DEF CallXWait, threadVars
    <3> QED  BY <1>o, <1>s, <3>1 DEF AlertOK, Ok
  <2>3. ASSUME XWait PROVE Ok
    <3>1. /\ pc[self] = "enter" /\ pc'[self] = "waitYield" /\ raising'[self] = FALSE
          /\ alertCall'[self] = alertCall[self] /\ alertable' = alertable
          /\ mu'[self] = mu[self] /\ held'[self] = held[self] \ {mu[self]}
      BY <1>0, <1>g, <1>z, <2>3 DEF XWait, XRelease
    <3> QED  BY <1>o, <1>s, <3>1 DEF AlertOK, Ok
  <2>4. ASSUME XJoin PROVE Ok
    <3>1. ASSUME Goto("joinYield") PROVE Ok
      <4>1. pc'[self] = "joinYield" /\ raising'[self] = FALSE
        BY <1>g, <1>z, <2>4, <3>1 DEF XJoin
      <4> QED  BY <1>f, <4>1
    <3> QED  BY <1>r, <2>4, <3>1 DEF XJoin
  <2>5. ASSUME XIOWait PROVE Ok
    <3>1. ASSUME Goto("ioYield") PROVE Ok
      <4>1. pc'[self] = "ioYield" /\ raising'[self] = FALSE
        BY <1>g, <1>z, <2>5, <3>1 DEF XIOWait
      <4> QED  BY <1>f, <4>1
    <3> QED  BY <1>r, <2>5, <3>1 DEF XIOWait
  <2>6. ASSUME CallInternalYield \/ JoinMain PROVE Ok
    <3>1. ASSUME alertable' = [alertable EXCEPT
                   ![self] = @ /\ pc[self] \notin {"yield", "forkYield"}],
                 UNCHANGED <<state, alertPending, callVars, held>>
          PROVE  Ok
      <4>1. CASE pc[self] \in {"yield", "forkYield"}
        <5>1. raising[self] = FALSE
          BY <1>0, <1>o, <4>1 DEF AlertOK, CallsOK
        <5> QED  BY <1>f, <3>1, <4>1, <5>1 DEF callVars
      <4>2. CASE pc[self] \notin {"yield", "forkYield"}
        <5>1. alertable'[self] = alertable[self]
          BY <1>0, <3>1, <4>2
        <5> QED  BY <1>k, <3>1, <5>1 DEF callVars
      <4> QED  BY <4>1, <4>2
    <3>2. ASSUME NEW error, Die(error) PROVE Ok
      BY <1>u, <3>2 DEF Die, ghostVars
    <3> QED  BY <2>6, <3>1, <3>2 DEF CallInternalYield, JoinMain, ghostVars
  <2>7. ASSUME NEW t \in Thread, Fork(t) PROVE Ok
    <3>1. pc'[self] = "run" /\ raising'[self] = FALSE
      BY <1>g, <1>z, <2>7 DEF Fork
    <3> QED  BY <1>f, <3>1
  <2> QED  BY <1>2, <2>1, <2>2, <2>3, <2>4, <2>5, <2>6, <2>7 DEF Library
<1>3. ~Scheduler
  BY SchedulerScans
<1>4. ASSUME Preempt PROVE Ok
  BY <1>k, <1>4 DEF Preempt, threadVars, ghostVars
<1>5. ASSUME NEW t \in Thread, Due(t) PROVE Ok
  BY <1>k, <1>5 DEF Due, callVars, ghostVars
<1>6. ASSUME Halted \/ UNCHANGED vars PROVE Ok
  BY <1>u, <1>6 DEF Halted, vars, ghostVars
<1>7. Ok
  BY <1>1, <1>2, <1>3, <1>4, <1>5, <1>6 DEF Next
<1> QED  BY <1>s, <1>7 DEF Ok

\* The steps of InternalYield keep it for everybody.
LEMMA AlertScanStep ==
  ASSUME LockInv, AlertsOK, [Next]_vars, scan.on, NEW t \in Thread
  PROVE  AlertOK(t)'
<1>0. /\ CallsOK /\ held \in [Thread -> SUBSET Mutex] /\ state \in [Thread -> States]
      /\ alertable \in [Thread -> BOOLEAN] /\ alertPending \in [Thread -> BOOLEAN]
      /\ AlertOK(t)
  BY DEF LockInv, TypeOK, SchedOK, ThreadsOK, GlobalsOK, AlertsOK
<1>u. ASSUME UNCHANGED <<callVars, alertable, alertPending, held>>,
             state[t] = "alive" => state'[t] = "alive"
      PROVE  AlertOK(t)'
  <2>1. Locals(t)' = Locals(t)
    BY <1>u DEF Locals, callVars
  <2> QED  BY <1>0, <1>u, <2>1, AlertKept
<1>1. ASSUME NEW u \in Thread, VisitAlertedWaiter(u) PROVE AlertOK(t)'
  <2>1. /\ state[u] = "waiting" /\ Alerted(u)
        /\ state' = [state EXCEPT ![u] = "alive"]
        /\ raising' = [raising EXCEPT ![u] = TRUE]
        /\ UNCHANGED <<pc, mu, cv, alertCall, alertable, alertPending, held>>
    BY <1>1 DEF VisitAlertedWaiter, ghostVars
  <2>2. CASE t = u
    <3>1. pc[t] \in {"waitYield", "joinYield"}
      BY <2>1, <2>2 DEF LockInv, StatesOK
    <3> QED  BY <1>0, <2>1, <2>2, <3>1 DEF AlertOK, Alerted
  <2>3. CASE t # u
    <3>1. Locals(t)' = Locals(t)
      BY <1>0, <2>1, <2>3 DEF Locals, CallsOK
    <3> QED  BY <1>0, <2>1, <2>3, <3>1, AlertKept
  <2> QED  BY <2>2, <2>3
<1>2. ASSUME NEW u \in Thread, VisitReady(u) PROVE AlertOK(t)'
  BY <1>0, <1>u, <1>2 DEF VisitReady, ghostVars
<1>3. ASSUME NEW u \in Thread, VisitBlocked(u) \/ VisitGone(u) PROVE AlertOK(t)'
  BY <1>u, <1>3 DEF VisitBlocked, VisitGone, threadVars, ghostVars
<1>4. ASSUME NEW u \in Thread, Transfer(u) PROVE AlertOK(t)'
  <2>1. /\ alertable' = [alertable EXCEPT ![u] = FALSE]
        /\ UNCHANGED <<state, held>> /\ state[u] = "alive"
    BY <1>4 DEF Transfer, CanTransfer, ghostVars
  <2>2. \/ UNCHANGED <<pc, mu, cv, raising, alertCall>> /\ (Alerted(u) => Unhandled(u))
        \/ Return(u)
        \/ /\ ~Alerted(u) /\ pc' = [pc EXCEPT ![u] = After(@)]
           /\ UNCHANGED <<mu, cv, raising, alertCall>>
        \/ /\ pc[u] \in {"enter", "waitYield"} /\ pc' = [pc EXCEPT ![u] = "lock"]
           /\ raising' = [raising EXCEPT ![u] = TRUE]
           /\ UNCHANGED <<mu, cv, alertCall>>
    BY <1>4 DEF Transfer, ResumeNormally, RaiseAlerted
  <2>3. CASE t # u
    <3>1. alertPending'[t] = alertPending[t]
      BY <1>0, <1>4, <2>3 DEF Transfer
    <3>2. Locals(t)' = Locals(t)
      BY <1>0, <2>1, <2>2, <2>3 DEF Locals, Return, CallsOK
    <3> QED  BY <1>0, <2>1, <3>1, <3>2, AlertKept
  <2>4. CASE t = u
    <3>1. alertable'[t] = FALSE /\ held'[t] = held[t]
      BY <1>0, <2>1, <2>4
    <3>2. CASE /\ UNCHANGED <<pc, mu, cv, raising, alertCall>>
               /\ Alerted(u) => Unhandled(u)
      <4>1. raising[t] => pc[t] \notin {"waitYield", "joinYield"}
        BY <1>0, <2>4, <3>2 DEF AlertOK, Unhandled
      <4> QED  BY <1>0, <3>1, <3>2, <4>1 DEF AlertOK
    <3>3. CASE Return(u)
      <4>1. pc'[t] = "run" /\ raising'[t] = FALSE
        BY <1>0, <2>4, <3>3 DEF Return, CallsOK
      <4> QED  BY <4>1 DEF AlertOK
    <3>4. CASE /\ ~Alerted(u) /\ pc' = [pc EXCEPT ![u] = After(@)]
               /\ UNCHANGED <<mu, cv, raising, alertCall>>
      <4>1. pc'[t] = After(pc[t])
        BY <1>0, <2>4, <3>4 DEF CallsOK
      <4>2. raising[t] => pc[t] \in {"lock", "lockYield"}
        BY <1>0, <2>4, <3>4 DEF AlertOK
      <4>3. pc'[t] # "waitYield" /\ (raising'[t] => pc'[t] = "lock")
        BY <3>4, <4>1, <4>2 DEF After
      <4> QED  BY <3>1, <4>3 DEF AlertOK
    <3>5. CASE /\ pc[u] \in {"enter", "waitYield"} /\ pc' = [pc EXCEPT ![u] = "lock"]
               /\ raising' = [raising EXCEPT ![u] = TRUE]
               /\ UNCHANGED <<mu, cv, alertCall>>
      <4>1. pc'[t] = "lock"
        BY <1>0, <2>4, <3>5 DEF CallsOK
      <4> QED  BY <3>1, <4>1 DEF AlertOK
    <3> QED  BY <2>2, <3>2, <3>3, <3>4, <3>5
  <2> QED  BY <2>3, <2>4
<1>5. CASE Rescan \/ Select \/ Deadlock
  BY <1>u, <1>5 DEF Rescan, Select, Deadlock, Die, threadVars, ghostVars
<1>6. ASSUME NEW u \in Thread, Due(u) PROVE AlertOK(t)'
  BY <1>u, <1>6 DEF Due, ghostVars
<1>7. CASE UNCHANGED vars
  BY <1>u, <1>7 DEF vars, threadVars, ghostVars
<1> QED  BY WalkFrame, <1>1, <1>2, <1>3, <1>4, <1>5, <1>6, <1>7 DEF Scheduler

LEMMA AlertsStep ==
  ASSUME LockInv, AlertsOK, [Next]_vars
  PROVE  AlertsOK'
<1>1. ASSUME NEW t \in Thread, ~scan.on, t # self PROVE AlertOK(t)'
  BY <1>1, OthersKeep, AliveStays, AlertKept DEF AlertsOK
<1>2. ASSUME NEW t \in Thread, ~scan.on, t = self PROVE AlertOK(t)'
  <2>1. self' = self /\ AlertOK(self)'
    BY <1>2, AlertOwnStep
  <2> QED  BY <1>2, <2>1 DEF AlertOK, Alerted
<1>3. ASSUME NEW t \in Thread PROVE AlertOK(t)'
  BY <1>1, <1>2, <1>3, AlertScanStep
<1> QED  BY <1>3 DEF AlertsOK
-----------------------------------------------------------------------------
(* The steps of ThreadSpec, on the mapped variables.                       *)

LEMMA SpecAcquire ==
  ASSUME NEW t \in Thread, NEW m \in Mutex, phaseBar[t] = "client",
         holder[m] = Nil, holder' = [holder EXCEPT ![m] = t],
         waitingBar' = waitingBar, pendingBar' = pendingBar,
         phaseBar' = phaseBar, onBar' = onBar
  PROVE  Larch!Next
BY DEF Larch!Next, Larch!Step, Larch!Acquire

LEMMA SpecRelease ==
  ASSUME NEW t \in Thread, NEW m \in Mutex, phaseBar[t] = "client",
         holder[m] = t, holder' = [holder EXCEPT ![m] = Nil],
         waitingBar' = waitingBar, pendingBar' = pendingBar,
         phaseBar' = phaseBar, onBar' = onBar
  PROVE  Larch!Next
BY DEF Larch!Next, Larch!Step, Larch!Release

LEMMA SpecEnqueue ==
  ASSUME NEW t \in Thread, NEW m \in Mutex, NEW c \in Cond,
         NEW p \in {"wait", "alertWait"}, phaseBar[t] = "client",
         holder[m] = t, holder' = [holder EXCEPT ![m] = Nil],
         waitingBar' = [waitingBar EXCEPT ![c] = @ \cup {t}],
         pendingBar' = pendingBar,
         phaseBar' = [phaseBar EXCEPT ![t] = p],
         onBar' = [onBar EXCEPT ![t] = m]
  PROVE  Larch!Next
BY DEF Larch!Next, Larch!Step, Larch!Enqueue

LEMMA SpecSignal ==
  ASSUME NEW c \in Cond, NEW left \in SUBSET waitingBar[c],
         left # waitingBar[c], waitingBar' = [waitingBar EXCEPT ![c] = left],
         holder' = holder, pendingBar' = pendingBar,
         phaseBar' = phaseBar, onBar' = onBar
  PROVE  Larch!Next
BY DEF Larch!Next, Larch!Signal

LEMMA SpecChooseSignal ==
  ASSUME NEW t \in Thread, phaseBar[t] \in {"wait", "alertWait"},
         \A c \in Cond : t \notin waitingBar[c],
         phaseBar' = [phaseBar EXCEPT ![t] = "returns"],
         holder' = holder, waitingBar' = waitingBar, pendingBar' = pendingBar,
         onBar' = onBar
  PROVE  Larch!Next
BY DEF Larch!Next, Larch!Step, Larch!ChooseSignal, Larch!Waits

LEMMA SpecChooseAlert ==
  ASSUME NEW t \in Thread, phaseBar[t] = "alertWait", t \in pendingBar,
         phaseBar' = [phaseBar EXCEPT ![t] = "raises"],
         waitingBar' = [c \in Cond |-> waitingBar[c] \ {t}],
         pendingBar' = pendingBar \ {t},
         holder' = holder, onBar' = onBar
  PROVE  Larch!Next
BY DEF Larch!Next, Larch!Step, Larch!ChooseAlert

LEMMA SpecResume ==
  ASSUME NEW t \in Thread, phaseBar[t] \in {"returns", "raises"},
         holder[onBar[t]] = Nil, holder' = [holder EXCEPT ![onBar[t]] = t],
         phaseBar' = [phaseBar EXCEPT ![t] = "client"],
         onBar' = [onBar EXCEPT ![t] = Nil],
         waitingBar' = waitingBar, pendingBar' = pendingBar
  PROVE  Larch!Next
BY DEF Larch!Next, Larch!Step, Larch!Resume

LEMMA SpecAlert ==
  ASSUME NEW t \in Thread, pendingBar' = pendingBar \cup {t},
         holder' = holder, waitingBar' = waitingBar, phaseBar' = phaseBar,
         onBar' = onBar
  PROVE  Larch!Next
BY DEF Larch!Next, Larch!Step, Larch!Alert

LEMMA SpecConsume ==
  ASSUME NEW t \in Thread, phaseBar[t] = "client", t \in pendingBar,
         pendingBar' = pendingBar \ {t},
         holder' = holder, waitingBar' = waitingBar, phaseBar' = phaseBar,
         onBar' = onBar
  PROVE  Larch!Next
BY DEF Larch!Next, Larch!Step, Larch!Consume

SpecStutters ==
  /\ holder' = holder /\ waitingBar' = waitingBar /\ pendingBar' = pendingBar
  /\ phaseBar' = phaseBar /\ onBar' = onBar

SpecStep == Larch!Next \/ SpecStutters

-----------------------------------------------------------------------------
(* The mapped variables, thread by thread.                                 *)

\* The values of the mapped variables at t.
LEMMA BarsAt ==
  ASSUME NEW t \in Thread
  PROVE  /\ ~InXWait(t) => /\ phaseBar[t] = "client" /\ onBar[t] = Nil
                           /\ pc[t] # "waitYield"
         /\ InXWait(t) =>
              /\ onBar[t] = mu[t]
              /\ phaseBar[t] = IF raising[t] THEN "raises"
                               ELSE IF pc[t] # "waitYield" THEN "returns"
                               ELSE IF alertCall[t] THEN "alertWait" ELSE "wait"
         /\ t \in pendingBar <=>
              alertPending[t] /\ ~(pc[t] = "waitYield" /\ raising[t])
BY DEF phaseBar, onBar, pendingBar, InXWait

\* The same after a step.
LEMMA BarsAtNext ==
  ASSUME NEW t \in Thread
  PROVE  /\ ~InXWait(t)' => /\ phaseBar'[t] = "client" /\ onBar'[t] = Nil
                            /\ pc'[t] # "waitYield"
         /\ InXWait(t)' =>
              /\ onBar'[t] = mu'[t]
              /\ phaseBar'[t] = IF raising'[t] THEN "raises"
                                ELSE IF pc'[t] # "waitYield" THEN "returns"
                                ELSE IF alertCall'[t] THEN "alertWait" ELSE "wait"
         /\ t \in pendingBar' <=>
              alertPending'[t] /\ ~(pc'[t] = "waitYield" /\ raising'[t])
BY DEF phaseBar, onBar, pendingBar, InXWait

\* A step that leaves t's call alone leaves the mapped variables alone at t.
LEMMA BarsKept ==
  ASSUME NEW t \in Thread, Locals(t)' = Locals(t)
  PROVE  /\ InXWait(t)' = InXWait(t)
         /\ phaseBar'[t] = phaseBar[t] /\ onBar'[t] = onBar[t]
         /\ alertPending'[t] = alertPending[t] =>
              (t \in pendingBar' <=> t \in pendingBar)
<1>1. /\ pc'[t] = pc[t] /\ mu'[t] = mu[t] /\ cv'[t] = cv[t]
      /\ raising'[t] = raising[t] /\ alertCall'[t] = alertCall[t]
      /\ held'[t] = held[t]
  BY DEF Locals
<1>2. InXWait(t)' = InXWait(t)
  BY <1>1 DEF InXWait
<1> QED  BY <1>1, <1>2 DEF phaseBar, onBar, pendingBar

\* A step that touches the call of u alone changes them at u alone.
LEMMA BarsElsewhere ==
  ASSUME NEW u \in Thread,
         \A t \in Thread \ {u} : Locals(t)' = Locals(t) /\ alertPending'[t] = alertPending[t]
  PROVE  /\ phaseBar' = [phaseBar EXCEPT ![u] = phaseBar'[u]]
         /\ onBar' = [onBar EXCEPT ![u] = onBar'[u]]
         /\ pendingBar' = IF u \in pendingBar' THEN pendingBar \cup {u}
                          ELSE pendingBar \ {u}
<1>1. \A t \in Thread \ {u} : /\ phaseBar'[t] = phaseBar[t] /\ onBar'[t] = onBar[t]
                              /\ t \in pendingBar' <=> t \in pendingBar
  BY BarsKept
<1>2. phaseBar' = [phaseBar EXCEPT ![u] = phaseBar'[u]]
  <2>1. /\ phaseBar = [t \in Thread |-> phaseBar[t]]
        /\ phaseBar' = [t \in Thread |-> phaseBar'[t]]
    BY DEF phaseBar
  <2> QED  BY <1>1, <2>1
<1>3. onBar' = [onBar EXCEPT ![u] = onBar'[u]]
  <2>1. /\ onBar = [t \in Thread |-> onBar[t]]
        /\ onBar' = [t \in Thread |-> onBar'[t]]
    BY DEF onBar
  <2> QED  BY <1>1, <2>1
<1>4. pendingBar \subseteq Thread /\ pendingBar' \subseteq Thread
  BY DEF pendingBar
<1> QED  BY <1>1, <1>2, <1>3, <1>4

\* A step of u before or after which it is not in XWait, or that leaves its
\* call alone, is hidden, when it frees or takes no mutex, wakes nobody from a
\* condition and consumes no alert.
LEMMA HiddenStep ==
  ASSUME NEW u \in Thread,
         \A t \in Thread \ {u} : Locals(t)' = Locals(t),
         \/ ~InXWait(u) /\ ~InXWait(u)'
         \/ Locals(u)' = Locals(u)
         \/ InXWait(u) /\ InXWait(u)' /\ pc[u] # "waitYield" /\ pc'[u] # "waitYield"
            /\ mu'[u] = mu[u] /\ raising'[u] = raising[u],
         holder' = holder, waitingBar' = waitingBar, alertPending' = alertPending
  PROVE  SpecStutters
<1>1. phaseBar'[u] = phaseBar[u] /\ onBar'[u] = onBar[u]
  BY BarsAt, BarsAtNext, BarsKept
<1>2. u \in pendingBar' <=> u \in pendingBar
  BY BarsAt, BarsAtNext, BarsKept
<1>3. /\ phaseBar' = [phaseBar EXCEPT ![u] = phaseBar[u]]
      /\ onBar' = [onBar EXCEPT ![u] = onBar[u]]
      /\ pendingBar' = IF u \in pendingBar THEN pendingBar \cup {u}
                       ELSE pendingBar \ {u}
  BY <1>1, <1>2, BarsElsewhere
<1>4. /\ phaseBar = [t \in Thread |-> phaseBar[t]]
      /\ onBar = [t \in Thread |-> onBar[t]]
  BY DEF phaseBar, onBar
<1>5. [phaseBar EXCEPT ![u] = phaseBar[u]] = phaseBar /\ [onBar EXCEPT ![u] = onBar[u]] = onBar
  BY <1>4
<1> QED  BY <1>3, <1>5 DEF SpecStutters
-----------------------------------------------------------------------------
(* Which steps show.                                                       *)

\* The lists of the conditions hold who waits for them.
LEMMA WaitingIs ==
  LockInv => \A c \in Cond : waitingBar[c] = {t \in Thread : state[t] = "waiting" /\ cv[t] = c}
<1> SUFFICES ASSUME LockInv, NEW c \in Cond
             PROVE  waitingBar[c] = {t \in Thread : state[t] = "waiting" /\ cv[t] = c}
  OBVIOUS
<1>1. c \in Waitable /\ condQ[c] \in Seq(Thread)
  BY DEF Waitable, LockInv, TypeOK, LocksOK
<1>2. \A t : t \in ToSet(condQ[c]) => t \in Thread /\ state[t] = "waiting" /\ cv[t] = c
  BY <1>1, ListedWaits
<1>3. ASSUME NEW t \in Thread, state[t] = "waiting", cv[t] = c
      PROVE  t \in ToSet(condQ[c])
  <2>1. OnceIn(condQ[c], t)
    BY <1>1, <1>3 DEF LockInv, QueuesMatchStates
  <2> QED  BY <2>1 DEF OnceIn, ToSet
<1>4. waitingBar[c] = ToSet(condQ[c])
  BY DEF waitingBar
<1> QED  BY <1>2, <1>3, <1>4

\* Only Wait, Signal, Broadcast and the visit of an alerted thread touch them.
LEMMA WaitingFrame ==
  ASSUME LockInv, [Next]_vars, ~XWait,
         \A c \in Cond : ~Signal(c) /\ ~Broadcast(c),
         \A t \in Thread : ~VisitAlertedWaiter(t)
  PROVE  waitingBar' = waitingBar
<1>0. self \in Thread /\ condQ \in [Waitable -> Seq(Thread)]
  BY DEF LockInv, TypeOK, SchedOK, LocksOK
<1>1. ASSUME NEW u \in Thread, NEW q, condQ' = [condQ EXCEPT ![u] = q]
      PROVE  \A c \in Cond : condQ'[c] = condQ[c]
  BY <1>0, <1>1, NamesAssumption DEF Waitable
<1>2. CASE XJoin
  <2>1. cv[self] \in Thread
    BY <1>0, <1>2 DEF XJoin, At, LockInv, OperandsOK
  <2>2. UNCHANGED condQ \/ condQ' = [condQ EXCEPT ![cv[self]] = <<self>> \o @]
    BY <1>2 DEF XJoin
  <2>3. \A c \in Cond : condQ'[c] = condQ[c]
    BY <1>1, <2>1, <2>2
  <2> QED  BY <2>3 DEF waitingBar
<1>3. CASE Exit
  <2>1. \A c \in Cond : condQ'[c] = condQ[c]
    BY <1>0, <1>1, <1>3 DEF Exit
  <2> QED  BY <2>1 DEF waitingBar
<1>4. ASSUME UNCHANGED condQ PROVE waitingBar' = waitingBar
  BY <1>4 DEF waitingBar
<1>5. CASE LockMutex \/ UNCHANGED lockVars
  BY <1>4, <1>5 DEF LockMutex, Die, lockVars
<1>6. ASSUME NEW m \in Mutex, Release(m) PROVE waitingBar' = waitingBar
  BY <1>4, <1>6 DEF Release
<1> QED  BY LockFrame, <1>2, <1>3, <1>5, <1>6

\* The other steps raise and consume no alert.
LEMMA PendingFrame ==
  ASSUME [Next]_vars
  PROVE  \/ UNCHANGED alertPending
         \/ TestAlert
         \/ \E t \in Thread : Alert(t) \/ Transfer(t)
<1>1. CASE Client
  BY <1>1 DEF Client, Acquire, Release, Wait, AlertWait, WaitCall, Signal,
     Broadcast, Join, AlertJoin, JoinCall, CallFork, Exit, Yield, Pause,
     AlertPause, XPause, IOWait, IOAlertWait, IOCall, SuspendOthers,
     ResumeOthers, threadVars
<1>2. CASE Library
  BY <1>2 DEF Library, LockMutex, CallXWait, XWait, XJoin, JoinMain,
     XIOWait, CallInternalYield, Fork, Die, threadVars
<1>3. ASSUME NEW t \in Thread,
             \/ VisitAlertedWaiter(t) \/ VisitReady(t) \/ VisitBlocked(t)
             \/ VisitGone(t)
      PROVE  UNCHANGED alertPending
  BY <1>3 DEF VisitAlertedWaiter, VisitReady, VisitBlocked, VisitGone, threadVars
<1>4. CASE Rescan \/ Select \/ Deadlock
  BY <1>4 DEF Rescan, Select, Deadlock, Die, threadVars
<1>5. CASE Preempt
  BY <1>5 DEF Preempt, threadVars
<1>6. ASSUME NEW t \in Thread, Due(t) PROVE UNCHANGED alertPending
  BY <1>6 DEF Due
<1>7. CASE Halted \/ UNCHANGED vars
  BY <1>7 DEF Halted, vars, threadVars
<1> QED  BY <1>1, <1>2, <1>3, <1>4, <1>5, <1>6, <1>7 DEF Next, Scheduler

\* Only LOCK, its end and Wait touch Mutex.holder.
LEMMA HolderFrame ==
  ASSUME [Next]_vars, ~LockMutex, ~XWait, \A m \in Mutex : ~Release(m)
  PROVE  holder' = holder
BY LockFrame DEF lockVars, Signal, Broadcast, VisitAlertedWaiter, Exit, XJoin

\* A thread that executes elsewhere is not between unlock and relock.
LEMMA Outside ==
  ASSUME NEW t
  PROVE  /\ pc[t] \notin {"waitYield", "lock", "lockYield"} => ~InXWait(t)
         /\ pc'[t] \notin {"waitYield", "lock", "lockYield"} => ~InXWait(t)'
         /\ pc[t] # "waitYield" /\ cv[t] = Nil => ~InXWait(t)
         /\ pc'[t] # "waitYield" /\ cv'[t] = Nil => ~InXWait(t)'
BY DEF InXWait

-----------------------------------------------------------------------------
(* The steps of the running thread.                                        *)

\* Release.
LEMMA ReleaseShows ==
  ASSUME LockInv, [Next]_vars, NEW m \in Mutex, Release(m)
  PROVE  SpecStep
<1>0. /\ self \in Thread /\ CallsOK /\ ~scan.on /\ pc[self] = "run"
      /\ alertPending' = alertPending
  BY DEF LockInv, TypeOK, SchedOK, Release, Calls, At
<1>1. PICK u \in Thread : u = self
  BY <1>0
<1>2. pc'[u] \in {"run", "yield"}
  BY <1>0, <1>1 DEF Release, Goto, CallsOK
<1>3. ~InXWait(u) /\ ~InXWait(u)'
  BY <1>0, <1>1, <1>2, Outside
<1>4. \A t \in Thread \ {u} : Locals(t)' = Locals(t) /\ alertPending'[t] = alertPending[t]
  BY <1>0, <1>1, OthersKeep
<1>5. waitingBar' = waitingBar
  BY DEF Release, waitingBar
<1>6. /\ phaseBar' = phaseBar /\ onBar' = onBar /\ pendingBar' = pendingBar
      /\ phaseBar[u] = "client"
  <2>1. \A t \in Thread : /\ phaseBar'[t] = phaseBar[t] /\ onBar'[t] = onBar[t]
                          /\ t \in pendingBar' <=> t \in pendingBar
    BY <1>0, <1>3, <1>4, BarsKept, BarsAt, BarsAtNext
  <2>2. /\ phaseBar = [t \in Thread |-> phaseBar[t]]
        /\ phaseBar' = [t \in Thread |-> phaseBar'[t]]
        /\ onBar = [t \in Thread |-> onBar[t]]
        /\ onBar' = [t \in Thread |-> onBar'[t]]
        /\ pendingBar \subseteq Thread /\ pendingBar' \subseteq Thread
    BY DEF phaseBar, onBar, pendingBar
  <2> QED  BY <1>3, <2>1, <2>2, BarsAt
<1>7. holder[m] = u /\ holder' = [holder EXCEPT ![m] = Nil]
  BY <1>1 DEF Release, XRelease, LockInv, LockedByHolder
<1> QED  BY <1>5, <1>6, <1>7, SpecRelease DEF SpecStep

\* LockMutex.
LEMMA LockShows ==
  ASSUME LockInv, [Next]_vars, LockMutex
  PROVE  SpecStep
<1>0. /\ self \in Thread /\ CallsOK /\ ~scan.on /\ pc[self] = "lock"
      /\ alertPending' = alertPending
      /\ held \in [Thread -> SUBSET Mutex] /\ holder \in [Mutex -> Thread \cup {Nil}]
  BY DEF LockInv, TypeOK, SchedOK, GlobalsOK, LocksOK, LockMutex, At, Die, threadVars
<1>1. PICK u \in Thread : u = self
  BY <1>0
<1>2. /\ \A t \in Thread \ {u} : Locals(t)' = Locals(t)
      /\ waitingBar' = waitingBar
  <2>1. UNCHANGED condQ
    BY DEF LockMutex, Die, lockVars
  <2> QED  BY <1>1, <1>0, <2>1, OthersKeep DEF waitingBar
<1>m. mu[u] \in Mutex
  BY <1>0, <1>1 DEF LockInv, OperandsOK
<1>3. CASE Goto("lockYield") /\ holder' = holder /\ held' = held
  <2>1. /\ pc'[u] = "lockYield" /\ mu'[u] = mu[u] /\ cv'[u] = cv[u]
        /\ raising'[u] = raising[u] /\ held'[u] = held[u]
    BY <1>0, <1>1, <1>3 DEF Goto, CallsOK
  <2>2. InXWait(u)' <=> InXWait(u)
    BY <1>0, <1>1, <2>1 DEF InXWait
  <2>3. SpecStutters
    BY <1>0, <1>1, <1>2, <1>3, <2>1, <2>2, HiddenStep
  <2> QED  BY <2>3 DEF SpecStep
<1>4. CASE Die("reacquire")
  <2>1. Locals(u)' = Locals(u) /\ holder' = holder
    BY <1>4 DEF Die, Locals, callVars, threadVars, ghostVars, lockVars
  <2>2. SpecStutters
    BY <1>0, <1>2, <2>1, HiddenStep
  <2> QED  BY <2>2 DEF SpecStep
<1>5. CASE /\ holder[mu[self]] = Nil
           /\ holder' = [holder EXCEPT ![mu[self]] = self]
           /\ Return(self)
  <2>1. pc'[u] = "run"
    BY <1>0, <1>1, <1>5 DEF Return, CallsOK
  <2>2. ~InXWait(u)'
    BY <2>1, Outside
  <2>3. /\ phaseBar' = [phaseBar EXCEPT ![u] = "client"]
        /\ onBar' = [onBar EXCEPT ![u] = Nil]
    BY <1>0, <1>2, <2>2, BarsElsewhere, BarsAtNext
  <2>4. pendingBar' = pendingBar
    <3>1. u \in pendingBar' <=> u \in pendingBar
      BY <1>0, <1>1, <2>1, BarsAt, BarsAtNext
    <3>2. pendingBar' = IF u \in pendingBar' THEN pendingBar \cup {u}
                        ELSE pendingBar \ {u}
      BY <1>0, <1>2, BarsElsewhere
    <3> QED  BY <3>1, <3>2
  <2>5. CASE InXWait(u)
    <3>1. phaseBar[u] \in {"returns", "raises"} /\ onBar[u] = mu[u]
      BY <1>0, <1>1, <2>5, BarsAt
    <3> QED  BY <1>1, <1>2, <1>5, <2>3, <2>4, <3>1, SpecResume DEF SpecStep
  <2>6. CASE ~InXWait(u)
    <3>1. phaseBar[u] = "client" /\ onBar[u] = Nil
      BY <2>6, BarsAt
    <3>2. /\ phaseBar = [t \in Thread |-> phaseBar[t]]
          /\ onBar = [t \in Thread |-> onBar[t]]
      BY DEF phaseBar, onBar
    <3>3. phaseBar' = phaseBar /\ onBar' = onBar
      BY <2>3, <3>1, <3>2
    <3> QED  BY <1>1, <1>2, <1>m, <1>5, <2>4, <3>1, <3>3, SpecAcquire DEF SpecStep
  <2> QED  BY <2>5, <2>6
<1> QED  BY <1>3, <1>4, <1>5 DEF LockMutex, ghostVars

\* XWait's unlock and enqueue.
LEMMA WaitShows ==
  ASSUME LockInv, AlertsOK, [Next]_vars, XWait
  PROVE  SpecStep
<1>0. /\ self \in Thread /\ CallsOK /\ ~scan.on /\ pc[self] = "enter"
      /\ alertPending' = alertPending
      /\ held \in [Thread -> SUBSET Mutex]
      /\ condQ \in [Waitable -> Seq(Thread)]
  BY DEF LockInv, TypeOK, SchedOK, GlobalsOK, LocksOK, XWait, At
<1>1. PICK u \in Thread : u = self
  BY <1>0
<1>2. mu[u] \in Mutex /\ cv[u] \in Cond /\ mu[u] \in held[u]
  BY <1>0, <1>1 DEF LockInv, OperandsOK
<1>3. /\ pc'[u] = "waitYield" /\ mu'[u] = mu[u] /\ raising'[u] = raising[u]
      /\ alertCall'[u] = alertCall[u] /\ raising[u] = FALSE
  BY <1>0, <1>1 DEF XWait, Goto, CallsOK, AlertsOK, AlertOK
<1>4. \A t \in Thread \ {u} : Locals(t)' = Locals(t) /\ alertPending'[t] = alertPending[t]
  BY <1>0, <1>1, OthersKeep
<1>5. ~InXWait(u) /\ InXWait(u)'
  BY <1>0, <1>1, <1>3 DEF InXWait
<1> DEFINE p == IF alertCall[u] THEN "alertWait" ELSE "wait"
<1>6. /\ phaseBar' = [phaseBar EXCEPT ![u] = p]
      /\ onBar' = [onBar EXCEPT ![u] = mu[u]]
      /\ phaseBar[u] = "client"
  BY <1>3, <1>4, <1>5, BarsElsewhere, BarsAt, BarsAtNext
<1>7. pendingBar' = pendingBar
  <2>1. u \in pendingBar' <=> u \in pendingBar
    BY <1>0, <1>3, BarsAt, BarsAtNext
  <2>2. pendingBar' = IF u \in pendingBar' THEN pendingBar \cup {u}
                      ELSE pendingBar \ {u}
    BY <1>4, BarsElsewhere
  <2> QED  BY <2>1, <2>2
<1>8. holder[mu[u]] = u /\ holder' = [holder EXCEPT ![mu[u]] = Nil]
  BY <1>1, <1>2 DEF XWait, XRelease, LockInv, LockedByHolder
<1>9. waitingBar' = [waitingBar EXCEPT ![cv[u]] = @ \cup {u}]
  <2>1. condQ' = [condQ EXCEPT ![cv[u]] = <<u>> \o @]
    BY <1>1 DEF XWait
  <2>2. \A c \in Cond \ {cv[u]} : condQ'[c] = condQ[c]
    BY <2>1
  <2>3. ToSet(condQ'[cv[u]]) = ToSet(condQ[cv[u]]) \cup {u}
    <3>1. cv[u] \in Waitable /\ condQ[cv[u]] \in Seq(Thread)
      BY <1>0, <1>2 DEF Waitable
    <3>2. condQ'[cv[u]] = <<u>> \o condQ[cv[u]]
      BY <1>0, <2>1, <3>1
    <3>3. ToSet(<<u>> \o condQ[cv[u]]) = ToSet(condQ[cv[u]]) \cup {u}
      <4> DEFINE s == condQ[cv[u]]
                 q == <<u>> \o s
      <4>1. /\ q \in Seq(Thread) /\ Len(q) = Len(s) + 1 /\ q[1] = u
            /\ \A k \in 1 .. Len(s) : q[k + 1] = s[k]
        BY <3>1, ConcatProperties, SMT
      <4>2. DOMAIN q = 1 .. Len(s) + 1 /\ DOMAIN s = 1 .. Len(s) /\ Len(s) \in Nat
        BY <3>1, <4>1, LenProperties
      <4> HIDE DEF q, s
      <4>3. \A k \in DOMAIN q : k = 1 \/ (k - 1 \in DOMAIN s /\ q[k] = s[k - 1])
        BY <4>1, <4>2, SMT
      <4>4. 1 \in DOMAIN q /\ \A k \in DOMAIN s : k + 1 \in DOMAIN q /\ q[k + 1] = s[k]
        BY <4>1, <4>2, SMT
      <4>5. \A x \in {q[k] : k \in DOMAIN q} : x \in {s[k] : k \in DOMAIN s} \cup {u}
        BY <4>1, <4>3
      <4>6. \A x \in {s[k] : k \in DOMAIN s} \cup {u} : x \in {q[k] : k \in DOMAIN q}
        BY <4>1, <4>4
      <4>7. {q[k] : k \in DOMAIN q} = {s[k] : k \in DOMAIN s} \cup {u}
        BY <4>5, <4>6
      <4> QED  BY <4>7 DEF ToSet, q, s
    <3> QED  BY <3>2, <3>3
  <2> QED  BY <1>2, <2>2, <2>3 DEF waitingBar
<1>10. p \in {"wait", "alertWait"}
  OBVIOUS
<1> HIDE DEF p
<1> QED  BY <1>2, <1>6, <1>7, <1>8, <1>9, <1>10, SpecEnqueue DEF SpecStep

\* A step that leaves the calls and the alerts alone is hidden.
LEMMA CallsStill ==
  ASSUME UNCHANGED <<pc, mu, cv, raising, alertCall, held, alertPending>>,
         holder' = holder, waitingBar' = waitingBar
  PROVE  SpecStutters
BY DEF SpecStutters, phaseBar, onBar, pendingBar, InXWait

\* WaitingIs after a step.
LEMMA WaitingIsNext ==
  LockInv' => \A c \in Cond : waitingBar'[c] = {t \in Thread : state'[t] = "waiting" /\ cv'[t] = c}
<1> DEFINE Listed == \A c \in Cond :
                       waitingBar[c] = {t \in Thread : state[t] = "waiting" /\ cv[t] = c}
<1>1. LockInv => Listed
  BY WaitingIs
<1>2. LockInv' => Listed'
  BY <1>1, PTL
<1> QED  BY <1>2

\* Signal and Broadcast.
LEMMA SignalShows ==
  ASSUME LockInv, [Next]_vars, NEW c \in Cond, Signal(c) \/ Broadcast(c)
  PROVE  SpecStep
<1>0. /\ LockInv' /\ self \in Thread /\ state[self] = "alive"
      /\ c \in Waitable /\ condQ[c] \in Seq(Thread) /\ condQ[c] # <<>>
  <2>1. state[self] = "alive"
    BY RunnerAlive DEF Signal, Broadcast, Calls
  <2> QED  BY <2>1, InvStep
           DEF Signal, Broadcast, LockInv, TypeOK, SchedOK, LocksOK, Waitable
<1>1. /\ UNCHANGED <<pc, mu, cv, raising, alertCall, held, alertPending, holder>>
      /\ \A d \in Cond \ {c} : condQ'[d] = condQ[d]
      /\ \E woken : Wake(woken, state[self]) /\ Head(condQ[c]) \in woken
  <2>1. Head(condQ[c]) \in ToSet(condQ[c])
    <3>1. 1 \in 1 .. Len(condQ[c]) /\ Head(condQ[c]) = condQ[c][1]
      BY <1>0, EndsLemma
    <3>2. 1 \in DOMAIN condQ[c]
      BY <1>0, <3>1, LenProperties
    <3> QED  BY <3>1, <3>2 DEF ToSet
  <2>2. CASE Signal(c)
    BY <2>2 DEF Signal, callVars, ghostVars
  <2>3. CASE Broadcast(c)
    BY <2>1, <2>3 DEF Broadcast, callVars, ghostVars
  <2> QED  BY <2>2, <2>3
<1>2. PICK woken : Wake(woken, state[self]) /\ Head(condQ[c]) \in woken
  BY <1>1
<1>3. \A t \in Thread : state'[t] = "waiting" => state[t] = "waiting" /\ t \notin woken
  BY <1>0, <1>2 DEF Wake
<1>4. waitingBar[c] = {t \in Thread : state[t] = "waiting" /\ cv[t] = c}
  BY <1>0, WaitingIs
<1>5. waitingBar'[c] = {t \in Thread : state'[t] = "waiting" /\ cv[t] = c}
  BY <1>0, <1>1, WaitingIsNext
<1>6. waitingBar'[c] \in SUBSET waitingBar[c]
  BY <1>3, <1>4, <1>5
<1>7. waitingBar'[c] # waitingBar[c]
  <2>1. Head(condQ[c]) \in waitingBar[c]
    <3>1. 1 \in DOMAIN condQ[c] /\ Head(condQ[c]) = condQ[c][1]
      BY <1>0, EndsLemma, LenProperties
    <3> QED  BY <3>1 DEF waitingBar, ToSet
  <2> QED  BY <1>2, <1>3, <1>5, <2>1
<1>8. waitingBar' = [waitingBar EXCEPT ![c] = waitingBar'[c]]
  <2>1. /\ waitingBar = [d \in Cond |-> waitingBar[d]]
        /\ waitingBar' = [d \in Cond |-> waitingBar'[d]]
    BY DEF waitingBar
  <2>2. \A d \in Cond \ {c} : waitingBar'[d] = waitingBar[d]
    BY <1>1 DEF waitingBar
  <2> QED  BY <2>1, <2>2
<1>9. phaseBar' = phaseBar /\ onBar' = onBar /\ pendingBar' = pendingBar
  BY <1>1 DEF phaseBar, onBar, pendingBar, InXWait
<1> QED  BY <1>1, <1>6, <1>7, <1>8, <1>9, SpecSignal DEF SpecStep

\* InternalYield takes an alerted thread off the list it waits in.
LEMMA VisitShows ==
  ASSUME LockInv, AlertsOK, [Next]_vars, NEW u \in Thread, VisitAlertedWaiter(u)
  PROVE  SpecStep
<1>0. /\ LockInv' /\ CallsOK /\ state \in [Thread -> States]
      /\ pc[u] \in {"waitYield", "joinYield"}
      /\ state[u] = "waiting" /\ Alerted(u) /\ raising[u] = FALSE
  <2>1. state[u] = "waiting" /\ Alerted(u)
    BY DEF VisitAlertedWaiter
  <2>2. pc[u] \in {"waitYield", "joinYield"}
    BY <2>1 DEF LockInv, StatesOK
  <2>3. CallsOK /\ state \in [Thread -> States]
    BY DEF LockInv, TypeOK, ThreadsOK
  <2>4. raising[u] = FALSE
    BY <2>1, <2>2, <2>3 DEF AlertsOK, AlertOK, CallsOK
  <2> QED  BY <2>1, <2>2, <2>3, <2>4, InvStep
<1>1. /\ UNCHANGED <<pc, mu, cv, alertCall, alertable, held, alertPending, holder>>
      /\ state' = [state EXCEPT ![u] = "alive"]
      /\ raising' = [raising EXCEPT ![u] = TRUE]
  BY DEF VisitAlertedWaiter, ghostVars
<1>2. \A t \in Thread \ {u} : Locals(t)' = Locals(t) /\ alertPending'[t] = alertPending[t]
  BY <1>0, <1>1 DEF Locals, CallsOK
<1>3. waitingBar' = [c \in Cond |-> waitingBar[c] \ {u}]
  <2>1. ASSUME NEW c \in Cond PROVE waitingBar'[c] = waitingBar[c] \ {u}
    <3>1. /\ waitingBar[c] = {t \in Thread : state[t] = "waiting" /\ cv[t] = c}
          /\ waitingBar'[c] = {t \in Thread : state'[t] = "waiting" /\ cv[t] = c}
      BY <1>0, <1>1, WaitingIs, WaitingIsNext
    <3>2. \A t \in Thread : state'[t] = "waiting" <=> state[t] = "waiting" /\ t # u
      BY <1>0, <1>1
    <3> QED  BY <3>1, <3>2
  <2>2. waitingBar' = [c \in Cond |-> waitingBar'[c]]
    BY DEF waitingBar
  <2> QED  BY <2>1, <2>2
<1>4. CASE pc[u] = "joinYield"
  <2>1. ~InXWait(u) /\ ~InXWait(u)'
    BY <1>1, <1>4, Outside
  <2>2. \A c \in Cond : u \notin waitingBar[c]
    <3>1. cv[u] \in Thread
      BY <1>4 DEF LockInv, OperandsOK
    <3> QED  BY <3>1, WaitingIs, NamesAssumption
  <2>3. waitingBar' = waitingBar
    <3>1. waitingBar = [c \in Cond |-> waitingBar[c]]
      BY DEF waitingBar
    <3>2. \A c \in Cond : waitingBar[c] \ {u} = waitingBar[c]
      BY <2>2
    <3> QED  BY <1>3, <3>1, <3>2
  <2>4. SpecStutters
    BY <1>1, <1>2, <2>1, <2>3, HiddenStep
  <2> QED  BY <2>4 DEF SpecStep
<1>5. CASE pc[u] = "waitYield"
  <2>1. InXWait(u) /\ InXWait(u)'
    BY <1>1, <1>5 DEF InXWait
  <2>2. alertCall[u] /\ alertPending[u]
    BY <1>0, <1>5 DEF AlertsOK, AlertOK, Alerted
  <2>3. phaseBar[u] = "alertWait" /\ u \in pendingBar /\ onBar[u] = mu[u]
    BY <1>0, <1>5, <2>1, <2>2, BarsAt
  <2>4. raising'[u] = TRUE
    BY <1>0, <1>1 DEF CallsOK
  <2>5. phaseBar'[u] = "raises" /\ u \notin pendingBar' /\ onBar'[u] = mu[u]
    BY <1>1, <1>5, <2>1, <2>4, BarsAtNext
  <2>6. /\ phaseBar' = [phaseBar EXCEPT ![u] = "raises"]
        /\ onBar' = [onBar EXCEPT ![u] = onBar[u]]
        /\ pendingBar' = pendingBar \ {u}
    BY <1>2, <2>3, <2>5, BarsElsewhere
  <2>7. onBar' = onBar
    <3>1. onBar = [t \in Thread |-> onBar[t]]
      BY DEF onBar
    <3>2. [onBar EXCEPT ![u] = onBar[u]] = onBar
      BY <3>1
    <3> QED  BY <2>6, <3>2
  <2> QED  BY <1>1, <1>3, <2>3, <2>6, <2>7, SpecChooseAlert DEF SpecStep
<1> QED  BY <1>0, <1>4, <1>5

\* Alert.
LEMMA AlertShows ==
  ASSUME LockInv, AlertsOK, [Next]_vars, NEW u \in Thread, Alert(u)
  PROVE  SpecStep
<1>0. alertPending \in [Thread -> BOOLEAN]
  BY DEF LockInv, TypeOK, ThreadsOK
<1>1. /\ UNCHANGED <<pc, mu, cv, raising, alertCall, held, holder, condQ>>
      /\ alertPending' = [alertPending EXCEPT ![u] = TRUE]
  BY DEF Alert, callVars, ghostVars, lockVars
<1>2. waitingBar' = waitingBar
  BY <1>1 DEF waitingBar
<1>3. CASE pc[u] = "waitYield" /\ raising[u]
  <2>1. alertPending[u] = TRUE
    BY <1>0, <1>3 DEF AlertsOK, AlertOK, Alerted
  <2>2. alertPending' = alertPending
    BY <1>0, <1>1, <2>1
  <2> QED  BY <1>1, <1>2, <2>2, CallsStill DEF SpecStep
<1>4. CASE ~(pc[u] = "waitYield" /\ raising[u])
  <2>1. phaseBar' = phaseBar /\ onBar' = onBar
    BY <1>1 DEF phaseBar, onBar, InXWait
  <2>2. pendingBar' = pendingBar \cup {u}
    BY <1>0, <1>1, <1>4 DEF pendingBar
  <2> QED  BY <1>1, <1>2, <2>1, <2>2, SpecAlert DEF SpecStep
<1> QED  BY <1>3, <1>4

\* TestAlert.
LEMMA TestAlertShows ==
  ASSUME LockInv, [Next]_vars, TestAlert
  PROVE  SpecStep
<1>0. /\ alertPending \in [Thread -> BOOLEAN] /\ self \in Thread
      /\ pc[self] = "run"
  BY DEF LockInv, TypeOK, ThreadsOK, SchedOK, TestAlert, Calls, At
<1>1. PICK u \in Thread : u = self
  BY <1>0
<1>2. /\ UNCHANGED <<pc, mu, cv, raising, alertCall, held, holder, condQ>>
      /\ alertPending' = [alertPending EXCEPT ![u] = FALSE]
  BY <1>1 DEF TestAlert, callVars, ghostVars, lockVars
<1>3. waitingBar' = waitingBar /\ phaseBar' = phaseBar /\ onBar' = onBar
  BY <1>2 DEF waitingBar, phaseBar, onBar, InXWait
<1>4. phaseBar[u] = "client"
  BY <1>0, <1>1, Outside, BarsAt
<1>5. pendingBar' = pendingBar \ {u}
  BY <1>0, <1>2 DEF pendingBar
<1>6. CASE u \in pendingBar
  BY <1>2, <1>3, <1>4, <1>5, <1>6, SpecConsume DEF SpecStep
<1>7. CASE u \notin pendingBar
  <2>1. pendingBar' = pendingBar
    BY <1>5, <1>7
  <2> QED  BY <1>2, <1>3, <2>1 DEF SpecStep, SpecStutters
<1> QED  BY <1>6, <1>7
-----------------------------------------------------------------------------
(* The transfer to the thread that InternalYield found.                    *)

\* What a transfer leaves alone.
LEMMA TransferFrame ==
  ASSUME LockInv, NEW u \in Thread, Transfer(u)
  PROVE  /\ state[u] = "alive"
         /\ holder' = holder /\ waitingBar' = waitingBar
         /\ \A t \in Thread \ {u} :
              Locals(t)' = Locals(t) /\ alertPending'[t] = alertPending[t]
         /\ \A c \in Cond : u \notin waitingBar[c]
<1>0. /\ CallsOK /\ held \in [Thread -> SUBSET Mutex]
      /\ alertable \in [Thread -> BOOLEAN] /\ alertPending \in [Thread -> BOOLEAN]
  BY DEF LockInv, TypeOK, ThreadsOK, GlobalsOK
<1>1. /\ alertable' = [alertable EXCEPT ![u] = FALSE]
      /\ UNCHANGED <<held, holder, condQ>> /\ state[u] = "alive"
  BY DEF Transfer, CanTransfer, ghostVars, lockVars
<1>2. \/ UNCHANGED <<pc, mu, cv, raising, alertCall>>
      \/ Return(u)
      \/ pc' = [pc EXCEPT ![u] = After(@)] /\ UNCHANGED <<mu, cv, raising, alertCall>>
      \/ /\ pc' = [pc EXCEPT ![u] = "lock"] /\ raising' = [raising EXCEPT ![u] = TRUE]
         /\ UNCHANGED <<mu, cv, alertCall>>
  BY DEF Transfer, ResumeNormally, RaiseAlerted
<1>3. ASSUME NEW t \in Thread \ {u}
      PROVE  Locals(t)' = Locals(t) /\ alertPending'[t] = alertPending[t]
  <2>1. alertPending'[t] = alertPending[t]
    BY <1>0, <1>3 DEF Transfer
  <2>2. Locals(t)' = Locals(t)
    BY <1>0, <1>1, <1>2, <1>3 DEF Locals, Return, CallsOK
  <2> QED  BY <2>1, <2>2
<1>4. waitingBar' = waitingBar
  BY <1>1 DEF waitingBar
<1>5. \A c \in Cond : u \notin waitingBar[c]
  BY <1>1, WaitingIs
<1> QED  BY <1>1, <1>3, <1>4, <1>5

\* InternalYield returns in u.
LEMMA ResumeShows ==
  ASSUME LockInv, AlertsOK, NEW u \in Thread, Transfer(u), ~Alerted(u)
  PROVE  SpecStep
<1>0. CallsOK /\ AlertOK(u)
  BY DEF LockInv, TypeOK, AlertsOK
<1>1. ResumeNormally(u) /\ UNCHANGED <<alertPending, held>>
  BY DEF Transfer, ghostVars
<1>2. CASE preempted[u]
  <2>1. UNCHANGED <<pc, mu, cv, raising, alertCall>>
    BY <1>1, <1>2 DEF ResumeNormally
  <2> QED  BY <1>1, <2>1, TransferFrame, CallsStill DEF SpecStep
<1>3. CASE ~preempted[u] /\ pc[u] \in {"yield", "pauseYield", "ioYield"}
  <2>1. Return(u)
    BY <1>1, <1>3 DEF ResumeNormally
  <2>2. pc'[u] = "run"
    BY <1>0, <2>1 DEF Return, CallsOK
  <2>3. ~InXWait(u) /\ ~InXWait(u)'
    BY <1>3, <2>2, Outside
  <2>4. SpecStutters
    BY <1>1, <2>3, TransferFrame, HiddenStep
  <2> QED  BY <2>4 DEF SpecStep
<1>4. CASE ~preempted[u] /\ pc[u] \notin {"yield", "pauseYield", "ioYield"}
  <2>1. pc' = [pc EXCEPT ![u] = After(@)] /\ UNCHANGED <<mu, cv, raising, alertCall>>
    BY <1>1, <1>4 DEF ResumeNormally
  <2>2. pc'[u] = After(pc[u])
    BY <1>0, <2>1 DEF CallsOK
  <2>3. CASE pc[u] = "waitYield"
    <3>1. /\ raising[u] = FALSE /\ mu[u] \notin held[u] /\ cv[u] # Nil
          /\ pc'[u] = "lock"
      <4>1. cv[u] \in Cond
        BY <2>3 DEF LockInv, OperandsOK
      <4>2. raising[u] = FALSE /\ mu[u] \notin held[u]
        BY <1>0, <2>3 DEF AlertOK, CallsOK
      <4>3. pc'[u] = "lock"
        BY <2>2, <2>3 DEF After
      <4> QED  BY <4>1, <4>2, <4>3, NilAssumption
    <3>2. InXWait(u) /\ InXWait(u)'
      BY <1>1, <2>1, <2>3, <3>1 DEF InXWait
    <3>3. /\ phaseBar[u] \in {"wait", "alertWait"} /\ onBar[u] = mu[u]
          /\ u \in pendingBar <=> alertPending[u]
      BY <2>3, <3>1, <3>2, BarsAt
    <3>4. /\ phaseBar'[u] = "returns" /\ onBar'[u] = mu[u]
          /\ u \in pendingBar' <=> alertPending[u]
      BY <1>1, <2>1, <3>1, <3>2, BarsAtNext
    <3>5. /\ phaseBar' = [phaseBar EXCEPT ![u] = "returns"]
          /\ onBar' = [onBar EXCEPT ![u] = onBar[u]]
          /\ pendingBar' = IF u \in pendingBar THEN pendingBar \cup {u}
                           ELSE pendingBar \ {u}
      BY <3>3, <3>4, TransferFrame, BarsElsewhere
    <3>6. onBar' = onBar /\ pendingBar' = pendingBar
      <4>1. onBar = [t \in Thread |-> onBar[t]]
        BY DEF onBar
      <4>2. [onBar EXCEPT ![u] = onBar[u]] = onBar
        BY <4>1
      <4> QED  BY <3>5, <4>2
    <3> QED  BY <3>3, <3>5, <3>6, TransferFrame, SpecChooseSignal DEF SpecStep
  <2>4. CASE pc[u] \in {"lock", "lockYield"}
    <3>1. pc'[u] = "lock"
      BY <2>2, <2>4 DEF After
    <3>2. InXWait(u)' <=> InXWait(u)
      BY <1>1, <2>1, <2>4, <3>1 DEF InXWait
    <3>3. SpecStutters
      BY <1>1, <2>1, <2>4, <3>1, <3>2, TransferFrame, HiddenStep
    <3> QED  BY <3>3 DEF SpecStep
  <2>5. CASE pc[u] \notin {"waitYield", "lock", "lockYield"}
    <3>1. pc'[u] \notin {"waitYield", "lock", "lockYield"}
      BY <2>2, <2>5 DEF After
    <3>2. ~InXWait(u) /\ ~InXWait(u)'
      BY <2>5, <3>1, Outside
    <3>3. SpecStutters
      BY <1>1, <3>2, TransferFrame, HiddenStep
    <3> QED  BY <3>3 DEF SpecStep
  <2> QED  BY <2>3, <2>4, <2>5
<1> QED  BY <1>2, <1>3, <1>4

\* InternalYield consumes u's alert, and raises it in u or ends the program.
LEMMA RaiseShows ==
  ASSUME LockInv, AlertsOK, NEW u \in Thread, Transfer(u), Alerted(u)
  PROVE  SpecStep
<1>0. /\ CallsOK /\ AlertOK(u) /\ alertPending \in [Thread -> BOOLEAN]
      /\ held \in [Thread -> SUBSET Mutex]
      /\ alertable[u] /\ alertPending[u]
  BY DEF LockInv, TypeOK, ThreadsOK, GlobalsOK, AlertsOK, Alerted
<1>1. alertPending'[u] = FALSE /\ held' = held
  BY <1>0 DEF Transfer, ghostVars
<1>2. u \notin pendingBar'
  BY <1>1, BarsAtNext
<1>3. pendingBar' = pendingBar \ {u}
  BY <1>2, TransferFrame, BarsElsewhere
<1>s. ASSUME ~InXWait(u), ~InXWait(u)' PROVE SpecStep
  <2>1. phaseBar[u] = "client" /\ onBar[u] = Nil /\ u \in pendingBar
    BY <1>0, <1>s, BarsAt
  <2>2. phaseBar'[u] = "client" /\ onBar'[u] = Nil
    BY <1>s, BarsAtNext
  <2>3. /\ phaseBar' = [phaseBar EXCEPT ![u] = "client"]
        /\ onBar' = [onBar EXCEPT ![u] = Nil]
    BY <2>2, TransferFrame, BarsElsewhere
  <2>4. /\ phaseBar = [t \in Thread |-> phaseBar[t]]
        /\ onBar = [t \in Thread |-> onBar[t]]
    BY DEF phaseBar, onBar
  <2>5. phaseBar' = phaseBar /\ onBar' = onBar
    BY <2>1, <2>3, <2>4
  <2> QED  BY <1>3, <2>1, <2>5, TransferFrame, SpecConsume DEF SpecStep
<1>4. CASE Unhandled(u)
  <2>1. UNCHANGED <<pc, mu, cv, raising, alertCall>>
    BY <1>4 DEF Transfer
  <2>2. pc[u] # "waitYield" /\ ~InXWait(u)
    BY <1>0, <1>4 DEF Unhandled, InXWait, AlertOK
  <2>3. ~InXWait(u)'
    BY <1>1, <2>1, <2>2 DEF InXWait
  <2> QED  BY <1>s, <2>2, <2>3
<1>5. CASE ~Unhandled(u) /\ pc[u] \notin {"enter", "waitYield"}
  <2>1. Return(u)
    BY <1>5 DEF Transfer, RaiseAlerted
  <2>2. pc'[u] = "run"
    BY <1>0, <2>1 DEF Return, CallsOK
  <2>3. pc[u] \notin {"waitYield", "lock", "lockYield"}
    BY <1>5 DEF Unhandled
  <2> QED  BY <1>s, <2>2, <2>3, Outside
<1>6. CASE pc[u] \in {"enter", "waitYield"}
  <2>1. /\ pc' = [pc EXCEPT ![u] = "lock"] /\ raising' = [raising EXCEPT ![u] = TRUE]
        /\ UNCHANGED <<mu, cv, alertCall>>
    BY <1>6 DEF Transfer, RaiseAlerted, Unhandled
  <2>2. pc'[u] = "lock" /\ raising'[u] = TRUE
    BY <1>0, <2>1 DEF CallsOK
  <2>3. CASE pc[u] = "enter"
    <3>1. mu[u] \in held[u]
      BY <2>3 DEF LockInv, OperandsOK
    <3>2. ~InXWait(u) /\ ~InXWait(u)'
      BY <1>1, <2>1, <2>2, <2>3, <3>1 DEF InXWait
    <3> QED  BY <1>s, <3>2
  <2>4. CASE pc[u] = "waitYield"
    <3>1. /\ mu[u] \notin held[u] /\ cv[u] # Nil /\ alertCall[u]
      <4>1. cv[u] \in Cond
        BY <2>4 DEF LockInv, OperandsOK
      <4>2. mu[u] \notin held[u] /\ alertCall[u]
        BY <1>0, <2>4 DEF AlertOK
      <4> QED  BY <4>1, <4>2, NilAssumption
    <3>2. InXWait(u) /\ InXWait(u)'
      BY <1>1, <2>1, <2>2, <2>4, <3>1 DEF InXWait
    <3>3. onBar[u] = mu[u] /\ onBar'[u] = mu[u] /\ phaseBar'[u] = "raises"
      BY <2>1, <2>2, <3>2, BarsAt, BarsAtNext
    <3>4. /\ phaseBar' = [phaseBar EXCEPT ![u] = "raises"]
          /\ onBar' = [onBar EXCEPT ![u] = onBar[u]]
      BY <3>3, TransferFrame, BarsElsewhere
    <3>5. /\ phaseBar = [t \in Thread |-> phaseBar[t]]
          /\ onBar = [t \in Thread |-> onBar[t]]
          /\ waitingBar = [c \in Cond |-> waitingBar[c]]
      BY DEF phaseBar, onBar, waitingBar
    <3>6. onBar' = onBar
      <4>1. [onBar EXCEPT ![u] = onBar[u]] = onBar
        BY <3>5
      <4> QED  BY <3>4, <4>1
    <3>7. CASE raising[u]
      <4>1. phaseBar[u] = "raises" /\ u \notin pendingBar
        BY <2>4, <3>2, <3>7, BarsAt
      <4>2. phaseBar' = phaseBar
        <5>1. [phaseBar EXCEPT ![u] = phaseBar[u]] = phaseBar
          BY <3>5
        <5> QED  BY <3>4, <4>1, <5>1
      <4>3. pendingBar' = pendingBar
        BY <1>3, <4>1
      <4> QED  BY <3>6, <4>2, <4>3, TransferFrame DEF SpecStep, SpecStutters
    <3>8. CASE ~raising[u]
      <4>1. phaseBar[u] = "alertWait" /\ u \in pendingBar
        BY <1>0, <2>4, <3>1, <3>2, <3>8, BarsAt
      <4>2. waitingBar' = [c \in Cond |-> waitingBar[c] \ {u}]
        <5>1. \A c \in Cond : waitingBar[c] \ {u} = waitingBar[c]
          BY TransferFrame
        <5>2. [c \in Cond |-> waitingBar[c] \ {u}] = [c \in Cond |-> waitingBar[c]]
          BY <5>1
        <5> QED  BY <3>5, <5>2, TransferFrame
      <4> QED  BY <1>3, <3>4, <3>6, <4>1, <4>2, TransferFrame, SpecChooseAlert DEF SpecStep
    <3> QED  BY <3>7, <3>8
  <2> QED  BY <1>6, <2>3, <2>4
<1> QED  BY <1>4, <1>5, <1>6

-----------------------------------------------------------------------------
(* The other steps do not show.                                            *)

\* They leave the calls alone, or the running thread is outside XWait.
LEMMA RestCalls ==
  ASSUME LockInv, [Next]_vars, ~LockMutex, ~XWait, ~TestAlert,
         \A m \in Mutex : ~Release(m),
         \A c \in Cond : ~Signal(c) /\ ~Broadcast(c),
         \A t \in Thread : ~VisitAlertedWaiter(t) /\ ~Transfer(t) /\ ~Alert(t)
  PROVE  \/ UNCHANGED <<pc, mu, cv, raising, alertCall, held>>
         \/ /\ ~scan.on
            /\ pc[self] \notin {"waitYield", "lock", "lockYield"}
            /\ \/ pc'[self] \notin {"waitYield", "lock", "lockYield"}
               \/ pc'[self] = "lock" /\ cv'[self] = Nil
<1>0. self \in Thread /\ CallsOK
  BY DEF LockInv, TypeOK, SchedOK
<1> DEFINE Still == UNCHANGED <<pc, mu, cv, raising, alertCall, held>>
           Out == /\ ~scan.on
                  /\ pc[self] \notin {"waitYield", "lock", "lockYield"}
                  /\ \/ pc'[self] \notin {"waitYield", "lock", "lockYield"}
                     \/ pc'[self] = "lock" /\ cv'[self] = Nil
<1>g. ASSUME NEW l \in Labels \ {"waitYield", "lock", "lockYield"},
             NEW k \in {"run", "fork", "alertWait", "enter", "join", "io"}, At(k),
             Goto(l) \/ (\E m, c, a : Enter(l, m, c, a)) \/ Return(self)
      PROVE  Out
  <2>1. pc[self] = k /\ ~scan.on /\ pc'[self] \in {l, "run"}
    BY <1>0, <1>g DEF At, Goto, Enter, Return, CallsOK
  <2> QED  BY <2>1
<1> HIDE DEF Still, Out
<1>1. ASSUME Client PROVE Still \/ Out
  <2>1. ASSUME NEW m \in Mutex, Acquire(m) PROVE Out
    BY <1>0, <2>1 DEF Acquire, Calls, At, Enter, CallsOK, Out
  <2>2. ASSUME NEW m \in Mutex, NEW c \in Cond, Wait(m, c) \/ AlertWait(m, c)
        PROVE  Out
    BY <1>g, <2>2 DEF Wait, AlertWait, WaitCall, Calls, Labels
  <2>3. ASSUME NEW t \in Thread, Join(t) \/ AlertJoin(t) PROVE Out
    BY <1>g, <2>3 DEF Join, AlertJoin, JoinCall, Calls, Labels
  <2>4. CASE CallFork
    <3>1. CASE Goto("fork")
      BY <1>g, <2>4, <3>1 DEF CallFork, Calls, Labels
    <3>2. CASE Goto("forkYield")
      BY <1>g, <2>4, <3>2 DEF CallFork, Calls, Labels, YieldPoints
    <3> QED  BY <2>4, <3>1, <3>2 DEF CallFork
  <2>5. CASE Exit
    BY <1>g, <2>5 DEF Exit, Calls, Labels, YieldPoints
  <2>6. CASE Yield
    BY <1>g, <2>6 DEF Yield, Calls, Labels, YieldPoints
  <2>7. CASE Pause \/ AlertPause
    BY <1>g, <2>7 DEF Pause, AlertPause, XPause, Calls, Labels, YieldPoints
  <2>8. CASE IOWait \/ IOAlertWait
    BY <1>g, <2>8 DEF IOWait, IOAlertWait, IOCall, Calls, Labels
  <2>9. CASE SuspendOthers \/ ResumeOthers
    BY <2>9 DEF SuspendOthers, ResumeOthers, callVars, ghostVars, Still
  <2> QED  BY <1>1, <2>1, <2>2, <2>3, <2>4, <2>5, <2>6, <2>7, <2>8, <2>9 DEF Client
<1>2. ASSUME Library PROVE Still \/ Out
  <2>1. CASE CallXWait
    BY <1>g, <2>1 DEF CallXWait, Labels
  <2>2. CASE XJoin
    <3>1. CASE Goto("joinYield") \/ Return(self)
      BY <1>g, <2>2, <3>1 DEF XJoin, Labels, YieldPoints
    <3> QED  BY <2>2, <3>1 DEF XJoin
  <2>3. CASE XIOWait
    <3>1. CASE Goto("ioYield") \/ Return(self)
      BY <1>g, <2>3, <3>1 DEF XIOWait, Labels, YieldPoints
    <3> QED  BY <2>3, <3>1 DEF XIOWait
  <2>4. CASE CallInternalYield \/ JoinMain
    BY <2>4 DEF CallInternalYield, JoinMain, Die, callVars, ghostVars, Still
  <2>5. ASSUME NEW t \in Thread, Fork(t) PROVE Out
    BY <1>g, <2>5 DEF Fork, Labels
  <2> QED  BY <1>2, <2>1, <2>2, <2>3, <2>4, <2>5 DEF Library
<1>3. ASSUME NEW t \in Thread, VisitReady(t) \/ VisitBlocked(t) \/ VisitGone(t)
      PROVE  Still
  BY <1>3 DEF VisitReady, VisitBlocked, VisitGone, callVars, ghostVars, Still
<1>4. ASSUME Rescan \/ Select \/ Deadlock PROVE Still
  BY <1>4 DEF Rescan, Select, Deadlock, Die, callVars, ghostVars, Still
<1>5. ASSUME Preempt PROVE Still
  BY <1>5 DEF Preempt, ghostVars, Still
<1>6. ASSUME NEW t \in Thread, Due(t) PROVE Still
  BY <1>6 DEF Due, callVars, ghostVars, Still
<1>7. ASSUME Halted \/ UNCHANGED vars PROVE Still
  BY <1>7 DEF Halted, vars, callVars, ghostVars, Still
<1>8. Still \/ Out
  BY <1>1, <1>2, <1>3, <1>4, <1>5, <1>6, <1>7 DEF Next, Scheduler
<1> QED  BY <1>8 DEF Still, Out

LEMMA RestHidden ==
  ASSUME LockInv, [Next]_vars, ~LockMutex, ~XWait, ~TestAlert,
         \A m \in Mutex : ~Release(m),
         \A c \in Cond : ~Signal(c) /\ ~Broadcast(c),
         \A t \in Thread : ~VisitAlertedWaiter(t) /\ ~Transfer(t) /\ ~Alert(t)
  PROVE  SpecStutters
<1>1. holder' = holder /\ waitingBar' = waitingBar /\ alertPending' = alertPending
  BY HolderFrame, WaitingFrame, PendingFrame
<1>2. CASE UNCHANGED <<pc, mu, cv, raising, alertCall, held>>
  BY <1>1, <1>2, CallsStill
<1>3. CASE /\ ~scan.on
           /\ pc[self] \notin {"waitYield", "lock", "lockYield"}
           /\ \/ pc'[self] \notin {"waitYield", "lock", "lockYield"}
              \/ pc'[self] = "lock" /\ cv'[self] = Nil
  <2>1. PICK u \in Thread : u = self
    BY DEF LockInv, TypeOK, SchedOK
  <2>2. ~InXWait(u) /\ ~InXWait(u)'
    BY <1>3, <2>1, Outside
  <2>3. \A t \in Thread \ {u} : Locals(t)' = Locals(t)
    BY <1>3, <2>1, OthersKeep
  <2> QED  BY <1>1, <2>2, <2>3, HiddenStep
<1> QED  BY <1>2, <1>3, RestCalls

-----------------------------------------------------------------------------
(* The refinement.                                                         *)

\* Every step of ThreadPosix is a step of ThreadSpec or does not show.
LEMMA RefineStep ==
  ASSUME LockInv, AlertsOK, [Next]_vars
  PROVE  SpecStep
<1>1. CASE LockMutex
  BY <1>1, LockShows
<1>2. CASE XWait
  BY <1>2, WaitShows
<1>3. CASE TestAlert
  BY <1>3, TestAlertShows
<1>4. CASE \E m \in Mutex : Release(m)
  BY <1>4, ReleaseShows
<1>5. CASE \E c \in Cond : Signal(c) \/ Broadcast(c)
  BY <1>5, SignalShows
<1>6. CASE \E t \in Thread : VisitAlertedWaiter(t)
  BY <1>6, VisitShows
<1>7. CASE \E t \in Thread : Transfer(t)
  BY <1>7, ResumeShows, RaiseShows
<1>8. CASE \E t \in Thread : Alert(t)
  BY <1>8, AlertShows
<1> QED  BY <1>1, <1>2, <1>3, <1>4, <1>5, <1>6, <1>7, <1>8, RestHidden DEF SpecStep

LEMMA RefineInit == Init => AlertsOK /\ Larch!Init
<1> SUFFICES ASSUME Init PROVE AlertsOK /\ Larch!Init
  OBVIOUS
<1>1. /\ \A t \in Thread : /\ pc[t] = "run" /\ raising[t] = FALSE
                           /\ alertPending[t] = FALSE
      /\ holder = [m \in Mutex |-> Nil]
      /\ \A c \in Cond : condQ[c] = <<>>
  BY DEF Init, Waitable
<1>2. AlertsOK
  BY <1>1 DEF AlertsOK, AlertOK
<1>3. phaseBar = [t \in Thread |-> "client"] /\ onBar = [t \in Thread |-> Nil]
  BY <1>1 DEF phaseBar, onBar, InXWait
<1>4. pendingBar = {}
  BY <1>1 DEF pendingBar
<1>5. waitingBar = [c \in Cond |-> {}]
  <2>1. ToSet(<<>>) = {}
    BY EmptyLemma DEF NotIn, ToSet
  <2> QED  BY <1>1, <2>1 DEF waitingBar
<1> QED  BY <1>1, <1>2, <1>3, <1>4, <1>5 DEF Larch!Init

\* RefInv is inductive.
LEMMA AlertsInvariant == Spec => []RefInv
<1>1. Init => RefInv
  BY InvInit, RefineInit DEF RefInv
<1>2. RefInv /\ [Next]_vars => RefInv'
  BY InvStep, AlertsStep DEF RefInv
<1> QED  BY <1>1, <1>2, PTL DEF Spec

\* The library implements the Thread interface's specification, for any
\* threads, mutexes and conditions: LOCK excludes, Wait unlocks and enqueues
\* at once, only Signal, Broadcast and alerts wake, and both outcomes relock.
THEOREM ThreadImplemented == Spec => ImplementsThread
<1>1. Init => Larch!Init
  BY RefineInit
<1>2. RefInv /\ [Next]_vars => [Larch!Next]_(Larch!vars)
  BY RefineStep DEF RefInv, SpecStep, SpecStutters, Larch!vars
<1> QED  BY <1>1, <1>2, AlertsInvariant, PTL DEF Spec, ImplementsThread, Larch!Spec
=============================================================================
