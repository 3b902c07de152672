-------------------------- MODULE ThreadRefinement --------------------------
(***************************************************************************)
(* ThreadPosix implements ThreadSpec.  AlertWait's outcome is chosen when  *)
(* the scheduler takes an alerted thread out of the condition's list, or   *)
(* when InternalYield returns or raises in a thread that was signalled.    *)
(***************************************************************************)
EXTENDS ThreadPosix

\* t is between XWait's unlock and its relock of mu[t].
InXWait(t) ==
  \/ pc[t] = "waitYield"
  \/ pc[t] \in {"lock", "lockYield"} /\ cv[t] # Nil /\ mu[t] \notin held[t]

phaseBar == [t \in Thread |->
  IF ~InXWait(t) THEN "client"
  ELSE IF raising[t] THEN "raises"
  ELSE IF pc[t] # "waitYield" THEN "returns"
  ELSE IF alertCall[t] THEN "alertWait" ELSE "wait"]

onBar == [t \in Thread |-> IF InXWait(t) THEN mu[t] ELSE Nil]

waitingBar == [c \in Cond |-> ToSet(condQ[c])]

pendingBar ==
  {t \in Thread : alertPending[t] /\ ~(pc[t] = "waitYield" /\ raising[t])}

Larch == INSTANCE ThreadSpec WITH
  waiting <- waitingBar, pendingAlerts <- pendingBar,
  phase <- phaseBar, on <- onBar

\* The library behaves as the Larch specification promises, except that an
\* alert may overtake a signal: mutual exclusion, Wait's atomic unlock and
\* enqueue, wakeups only by signals and alerts, the relock on both outcomes.
ImplementsThread == Larch!Spec

\* The same without the exception, as Thread.lm3 has it: an AlertWait that a
\* Signal took out of c.waiting returns normally.
ImplementsLarch == Larch!LarchSpec
-----------------------------------------------------------------------------
(* What ThreadPosix keeps besides LockInv, and the refinement rests on.    *)

\* An alert is heard only in an Alert... call; it is on its way to be raised
\* from the visit that took the thread off its list to the relock, and until
\* InternalYield raises it nothing takes it away.
AlertOK(t) ==
  /\ pc[t] \in {"alertWait", "enter", "waitYield"} /\ alertable[t] =>
       alertCall[t]
  /\ pc[t] \in {"lock", "lockYield"} /\ cv[t] # Nil => ~alertable[t]
  /\ raising[t] => pc[t] \in {"waitYield", "joinYield", "lock", "lockYield"}
  /\ raising[t] /\ pc[t] \in {"waitYield", "joinYield"} =>
       state[t] = "alive" /\ Alerted(t)
  /\ pc[t] = "waitYield" => mu[t] \notin held[t]

AlertsOK == \A t \in Thread : AlertOK(t)

RefInv == LockInv /\ AlertsOK
=============================================================================
