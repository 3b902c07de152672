----------------------------- MODULE ThreadSpec -----------------------------
(***************************************************************************)
(* What the Thread interface promises about mutexes, conditions and        *)
(* alerts: the Larch specification m3core/src/thread/Common/Thread.lm3.    *)
(* Wait is the composition Enqueue; Resume and AlertWait is Enqueue;       *)
(* ChooseOutcome; Resume, with any other thread's actions in between.      *)
(*                                                                         *)
(* LarchSpec lets AlertWait choose Alerted only while the thread is still  *)
(* in c.waiting.  Spec drops that conjunct: a thread that was signalled    *)
(* may still raise Alerted if it is alerted before it runs again.          *)
(***************************************************************************)
CONSTANTS Thread, Mutex, Cond, Nil

VARIABLES
  holder,         \* Mutex.holder
  waiting,        \* Condition.waiting
  pendingAlerts,
  phase,          \* how far each thread has got in Wait or AlertWait
  on              \* the mutex that Wait or AlertWait will lock again

vars == <<holder, waiting, pendingAlerts, phase, on>>

Init ==
  /\ holder = [m \in Mutex |-> Nil]
  /\ waiting = [c \in Cond |-> {}]
  /\ pendingAlerts = {}
  /\ phase = [t \in Thread |-> "client"]
  /\ on = [t \in Thread |-> Nil]

Waits(t) == \E c \in Cond : t \in waiting[c]

Acquire(t, m) ==
  /\ phase[t] = "client" /\ holder[m] = Nil
  /\ holder' = [holder EXCEPT ![m] = t]
  /\ UNCHANGED <<waiting, pendingAlerts, phase, on>>

Release(t, m) ==
  /\ phase[t] = "client" /\ holder[m] = t
  /\ holder' = [holder EXCEPT ![m] = Nil]
  /\ UNCHANGED <<waiting, pendingAlerts, phase, on>>

Enqueue(t, m, c, p) ==
  /\ phase[t] = "client" /\ holder[m] = t
  /\ holder' = [holder EXCEPT ![m] = Nil]
  /\ waiting' = [waiting EXCEPT ![c] = @ \cup {t}]
  /\ phase' = [phase EXCEPT ![t] = p]
  /\ on' = [on EXCEPT ![t] = m]
  /\ UNCHANGED pendingAlerts

\* Signal removes some of the waiting threads, Broadcast all of them.
Signal(c) ==
  /\ \E left \in SUBSET waiting[c] :
       left # waiting[c] /\ waiting' = [waiting EXCEPT ![c] = left]
  /\ UNCHANGED <<holder, pendingAlerts, phase, on>>

ChooseSignal(t) ==
  /\ phase[t] \in {"wait", "alertWait"} /\ ~Waits(t)
  /\ phase' = [phase EXCEPT ![t] = "returns"]
  /\ UNCHANGED <<holder, waiting, pendingAlerts, on>>

ChooseAlert(t) ==
  /\ phase[t] = "alertWait" /\ t \in pendingAlerts
  /\ phase' = [phase EXCEPT ![t] = "raises"]
  /\ waiting' = [c \in Cond |-> waiting[c] \ {t}]
  /\ pendingAlerts' = pendingAlerts \ {t}
  /\ UNCHANGED <<holder, on>>

Resume(t) ==
  /\ phase[t] \in {"returns", "raises"} /\ holder[on[t]] = Nil
  /\ holder' = [holder EXCEPT ![on[t]] = t]
  /\ phase' = [phase EXCEPT ![t] = "client"]
  /\ on' = [on EXCEPT ![t] = Nil]
  /\ UNCHANGED <<waiting, pendingAlerts>>

Alert(t) ==
  /\ pendingAlerts' = pendingAlerts \cup {t}
  /\ UNCHANGED <<holder, waiting, phase, on>>

\* TestAlert answers TRUE; AlertJoin or AlertPause raises Alerted, or an
\* AlertWait does so at once.
Consume(t) ==
  /\ phase[t] = "client" /\ t \in pendingAlerts
  /\ pendingAlerts' = pendingAlerts \ {t}
  /\ UNCHANGED <<holder, waiting, phase, on>>

Step(t, choose) ==
  \/ \E m \in Mutex : Acquire(t, m) \/ Release(t, m)
  \/ \E m \in Mutex, c \in Cond, p \in {"wait", "alertWait"} :
       Enqueue(t, m, c, p)
  \/ choose /\ ChooseAlert(t)
  \/ ChooseSignal(t) \/ Resume(t)
  \/ Alert(t) \/ Consume(t)

Next      == (\E c \in Cond : Signal(c)) \/ \E t \in Thread : Step(t, TRUE)
LarchNext == (\E c \in Cond : Signal(c)) \/ \E t \in Thread : Step(t, Waits(t))

Spec == Init /\ [][Next]_vars
LarchSpec == Init /\ [][LarchNext]_vars
=============================================================================
