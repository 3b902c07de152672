--------------------- MODULE ThreadWin32Refinement_proofs ---------------------
(***************************************************************************)
(* ThreadWin32 implements ThreadSpec for any threads, mutexes and          *)
(* conditions, under the hypotheses with which NeverFails shows that the   *)
(* library does not fail.                                                  *)
(***************************************************************************)
EXTENDS ThreadWin32_proofs

-----------------------------------------------------------------------------
(* What the refinement rests on besides MutexInv.                          *)

\* Who has entered the critical section of m.
Owner(m) == IF held[m] /\ cs[m] # Nil THEN csOwner[cs[m]] ELSE Nil

Waiting(t) == Phase(t) \in {"wait", "alertWait"}

\* A call is that of a Wait as long as it has a condition; that of an AlertWait
\* returns to where the second InnerTestAlert is.
PlaceOK(t) ==
  /\ call[t].ret = "waited" => call[t].alert
  /\ InInnerWait(t) => WaitCall(call[t]) /\ (call[t].alert => call[t].ret = "waited")
  /\ pc[t] \in {"waited", "return", "raise"} => call[t].ret = "waited"
  /\ pc[t] \in {"alloc", "new"} => call[t].c = Nil

\* Its mutex keeps its critical section, and a thread has it until it unlocks
\* it and from when AlertWait locks it again.
RelockOK(t) ==
  /\ pc[t] = "sema" => cs[call[t].m] # Nil
  /\ pc[t] \in {"unlock", "waited", "return", "raise"} => Owner(call[t].m) = t

\* Who waits is in a list, or was taken off it by a signal or by an alert; the
\* alert is still there, and is for an AlertWait.
WakeOK(t) ==
  /\ t \in signalled => Waiting(t) /\ ~Waits(t)
  /\ alertable[t] /\ Blocked(t) => call[t].alert
  /\ Waiting(t) => Waits(t) \/ t \in signalled \/ (call[t].alert /\ alerted[t])

PlacesOK  == \A t \in Thread : PlaceOK(t)
RelocksOK == \A t \in Thread : RelockOK(t)
WakesOK   == \A t \in Thread : WakeOK(t)

RefInv == MutexInv /\ PlacesOK /\ RelocksOK /\ WakesOK

-----------------------------------------------------------------------------
(* Which steps concern a wait.                                             *)

\* A place and a call outside of InnerWait and AlertWait.
Away(p, r) ==
  /\ p \notin InWait /\ (p \in InLock => r.c = Nil)
  /\ r.ret = "waited" => r.alert

Stays(x)   == pc'[x] = pc[x] /\ call'[x] = call[x]
Outside(x) == Away(pc[x], call[x]) /\ Away(pc'[x], call'[x])

Labs ==
  /\ InLock = {"alloc", "new", "enter"}
  /\ InWait = {"unlock", "sema", "waited", "return", "raise"}
LEMMA LabsLemma == Labs
BY DEF Labs, InLock, InWait

LEMMA AwayLemma ==
  ASSUME NEW t \in Thread
  PROVE  /\ Away(pc[t], call[t]) => ~InInnerWait(t) /\ PlaceOK(t) /\ RelockOK(t)
                                    /\ ~Blocked(t) /\ Phase(t) = "client"
         /\ PlaceOK(t) /\ ~InInnerWait(t) => Away(pc[t], call[t])
BY LabsLemma DEF Labs, Away, InInnerWait, PlaceOK, RelockOK, Blocked, Phase

LEMMA AwayNext ==
  ASSUME NEW t \in Thread
  PROVE  Away(pc'[t], call'[t]) => ~InInnerWait(t)' /\ PlaceOK(t)' /\ RelockOK(t)'
                                   /\ ~Blocked(t)' /\ Phase(t)' = "client"
BY LabsLemma DEF Labs, Away, InInnerWait, PlaceOK, RelockOK, Blocked, Phase

\* t enters InnerWait with the call r.
Enters(t, r) ==
  /\ InnerWait(t, r) /\ WaitCall(r) /\ (r.alert <=> r.ret = "waited")
  /\ r \in CallType /\ Owner(r.m) = t /\ Away(pc[t], call[t])
  /\ pc[t] \in {"run", "join"}
  /\ IF r.alert THEN ~alerted[t] /\ alertable' = [alertable EXCEPT ![t] = TRUE]
     ELSE UNCHANGED alertable
  /\ UNCHANGED mutexVars

\* AlertWait or AlertJoin finds t alerted before it waits.
RaisesAtOnce(t) ==
  /\ alerted[t] /\ alerted' = [alerted EXCEPT ![t] = FALSE]
  /\ Away(pc[t], call[t]) /\ Away(pc'[t], call'[t]) /\ Alone(t)
  /\ UNCHANGED <<waiters, sema, alertable, signalled, mutexVars>>

\* The steps of a wait after it has begun.
InsideStep(t) ==
  \/ WaitUnlock(t) \/ SemaWait(t) \/ WaitTest(t) \/ WaitReturns(t)
  \/ EnterCSect(t) /\ call[t].c # Nil

LEMMA OwnerLemma ==
  ASSUME MutexInv, NEW t \in Thread
  PROVE  /\ \A m \in Lock : Holds(t, m) <=> Owner(m) = t
         /\ HasLibrary(t) => Owner(threadMu) = t
<1>1. Nil \notin Thread /\ 1 \in CSect /\ 1 # Nil /\ threadMu \in Lock
  BY Constants
<1>2. \A m \in Lock : Holds(t, m) <=> Owner(m) = t
  BY <1>1 DEF Holds, Owner
<1>3. ASSUME HasLibrary(t) PROVE Owner(threadMu) = t
  <2>1. csOwner[1] = t /\ cs[threadMu] = 1
    BY <1>3 DEF MutexInv, LocksOK, LockOK, OwnersOK
  <2>2. PICK m \in Lock : cs[m] = 1 /\ held[m]
    BY <1>1, <2>1 DEF MutexInv, OwnersOK
  <2>3. m = threadMu
    BY <1>1, <2>1, <2>2 DEF MutexInv, OwnersOK
  <2> QED  BY <1>1, <2>1, <2>2, <2>3 DEF Owner
<1> QED  BY <1>2, <1>3

\* A wait begins, or its thread was alerted before.
LEMMA EnterCases ==
  ASSUME MutexInv, PlacesOK, NEW t \in Thread,
         SomeWait(t) \/ SomeAlertWait(t) \/ JoinWaits(t)
  PROVE  \/ \E r \in CallType : Enters(t, r)
         \/ RaisesAtOnce(t)
<1>t. TypeOK /\ CallsOK
  BY DEF MutexInv, WaitInv
<1>1. /\ pc \in [Thread -> Labels] /\ call \in [Thread -> CallType]
      /\ CallOK(pc[t], call[t]) /\ call[t] \in CallType /\ PlaceOK(t)
  BY <1>t DEF TypeOK, CallsOK, PlacesOK
<1>k. /\ Nil \notin Thread /\ threadMu \in Lock /\ Mutex \subseteq Lock
      /\ Cond \subseteq Waitable /\ Nil \notin Waitable /\ Thread \subseteq Waitable
  BY Constants
<1>l. Labs
  BY LabsLemma
<1>2. ASSUME pc[t] \in {"run", "join"}
      PROVE  Away(pc[t], call[t]) /\ \A p \in {"run", "finally"} : Away(p, call[t])
  BY <1>1, <1>2, <1>l DEF Away, PlaceOK, Labs
<1>3. ASSUME NEW m \in Mutex, NEW c \in Cond, Wait(t, m, c) PROVE \E r \in CallType : Enters(t, r)
  <2> DEFINE r == Call(m, c, "run", Nil, FALSE, "run")
  <2>1. r \in CallType
    BY <1>k, MadeCalls
  <2>2. r.m = m /\ r.c = c /\ r.ret = "run" /\ r.on = Nil /\ r.alert = FALSE
    BY SMT DEF Call
  <2>3. InnerWait(t, r) /\ pc[t] = "run" /\ Holds(t, m) /\ UNCHANGED <<alertable, mutexVars>>
    BY <1>3 DEF Wait, Client
  <2> HIDE DEF r
  <2>4. Owner(m) = t
    BY <1>k, <2>3, OwnerLemma
  <2>5. WaitCall(r)
    BY <1>k, <2>2 DEF WaitCall
  <2>6. Enters(t, r)
    BY <1>2, <2>1, <2>2, <2>3, <2>4, <2>5 DEF Enters
  <2> QED  BY <2>1, <2>6
<1>4. ASSUME NEW m \in Mutex, NEW c \in Cond, AlertWait(t, m, c), ~alerted[t]
      PROVE  \E r \in CallType : Enters(t, r)
  <2> DEFINE r == Call(m, c, "waited", Nil, TRUE, "run")
  <2>1. r \in CallType
    BY <1>k, MadeCalls
  <2>2. r.m = m /\ r.c = c /\ r.ret = "waited" /\ r.on = Nil /\ r.alert = TRUE
    BY SMT DEF Call
  <2>3. /\ InnerWait(t, r) /\ pc[t] = "run" /\ Holds(t, m) /\ UNCHANGED mutexVars
        /\ alertable' = [alertable EXCEPT ![t] = TRUE]
    BY <1>4 DEF AlertWait, AlertEnter, Client
  <2> HIDE DEF r
  <2>4. Owner(m) = t
    BY <1>k, <2>3, OwnerLemma
  <2>5. WaitCall(r)
    BY <1>k, <2>2 DEF WaitCall
  <2>6. Enters(t, r)
    BY <1>2, <1>4, <2>1, <2>2, <2>3, <2>4, <2>5 DEF Enters
  <2> QED  BY <2>1, <2>6
<1>5. ASSUME NEW m \in Mutex, NEW c \in Cond, AlertWait(t, m, c), alerted[t]
      PROVE  RaisesAtOnce(t)
  <2>1. /\ pc[t] = "run" /\ pc' = [pc EXCEPT ![t] = "run"] /\ call' = call
        /\ alerted' = [alerted EXCEPT ![t] = FALSE]
        /\ UNCHANGED <<waiters, sema, alertable, signalled, mutexVars>>
    BY <1>5 DEF AlertWait, AlertEnter, Client
  <2>2. pc'[t] = "run" /\ Alone(t)
    BY <1>1, <2>1 DEF Alone
  <2> QED  BY <1>2, <1>5, <2>1, <2>2 DEF RaisesAtOnce
<1>6. ASSUME JoinWaits(t), call[t].alert, alerted[t] PROVE RaisesAtOnce(t)
  <2> DEFINE q == [call[t] EXCEPT !.c = cond[call[t].on]]
  <2>1. q.alert = call[t].alert
    BY <1>1, FieldLemma
  <2> HIDE DEF q
  <2>2. /\ pc[t] = "join" /\ pc' = [pc EXCEPT ![t] = "finally"] /\ call' = call
        /\ alerted' = [alerted EXCEPT ![t] = FALSE]
        /\ UNCHANGED <<waiters, sema, alertable, signalled, mutexVars>>
    BY <1>6, <2>1 DEF JoinWaits, AlertEnter, q
  <2>3. pc'[t] = "finally" /\ Alone(t)
    BY <1>1, <2>2 DEF Alone
  <2> QED  BY <1>2, <1>6, <2>2, <2>3 DEF RaisesAtOnce
<1>7. ASSUME JoinWaits(t), ~(call[t].alert /\ alerted[t]) PROVE \E r \in CallType : Enters(t, r)
  <2> DEFINE q == [call[t] EXCEPT !.c = cond[call[t].on]]
             r == IF q.alert THEN [q EXCEPT !.ret = "waited"] ELSE q
  <2>1. /\ pc[t] = "join" /\ JoinCall(call[t])
    BY <1>1, <1>7 DEF JoinWaits, CallOK
  <2>2. cond[call[t].on] \in Thread
    <3>1. call[t].on \in Thread
      BY <1>1, <2>1, CallLemma DEF JoinCall
    <3> QED  BY <1>t, <3>1 DEF TypeOK
  <2>3. /\ q \in CallType /\ q.m = threadMu /\ q.c \in Thread /\ q.ret = call[t].ret
        /\ q.on # Nil /\ q.alert = call[t].alert
    <3>1. q \in CallType
      BY <1>1, <1>k, <2>2, SMT DEF CallType
    <3> QED  BY <1>1, <2>1, <2>2, <3>1, FieldLemma DEF JoinCall
  <2> HIDE DEF q
  <2>4. /\ r \in CallType /\ r.m = threadMu /\ r.c \in Thread /\ r.on # Nil
        /\ r.alert = call[t].alert /\ r.ret \in {"join", "waited"}
        /\ r.alert <=> r.ret = "waited"
    <3>1. CASE q.alert
      <4>1. [q EXCEPT !.ret = "waited"] \in CallType
        BY <2>3, SMT DEF CallType, Returns
      <4>2. LET p == [q EXCEPT !.ret = "waited"]
            IN /\ p.m = q.m /\ p.c = q.c /\ p.ret = "waited" /\ p.on = q.on
               /\ p.alert = q.alert
        BY <2>3, FieldLemma
      <4>3. r = [q EXCEPT !.ret = "waited"]
        BY <3>1
      <4> HIDE DEF r
      <4>4. /\ r.m = q.m /\ r.c = q.c /\ r.ret = "waited" /\ r.on = q.on
            /\ r.alert = q.alert /\ r \in CallType
        BY <4>1, <4>2, <4>3
      <4> QED  BY <2>3, <3>1, <4>4
    <3>2. CASE ~q.alert
      <4>1. q.ret # "waited" /\ q.ret \in {"join", "waited"}
        BY <1>1, <2>1, <2>3, <3>2 DEF PlaceOK, JoinCall
      <4> QED  BY <2>3, <3>2, <4>1
    <3> QED  BY <3>1, <3>2
  <2>5. /\ InnerWait(t, r) /\ UNCHANGED mutexVars
        /\ IF r.alert THEN ~alerted[t] /\ alertable' = [alertable EXCEPT ![t] = TRUE]
           ELSE UNCHANGED alertable
    BY <1>7, <2>3, <2>4 DEF JoinWaits, AlertEnter, q
  <2> HIDE DEF r
  <2>6. Owner(threadMu) = t
    BY <2>1, OwnerLemma DEF HasLibrary
  <2>7. WaitCall(r)
    BY <1>k, <2>4 DEF WaitCall
  <2>8. Enters(t, r)
    BY <1>2, <2>1, <2>4, <2>5, <2>6, <2>7 DEF Enters
  <2> QED  BY <2>4, <2>8
<1> QED  BY <1>3, <1>4, <1>5, <1>6, <1>7 DEF SomeWait, SomeAlertWait

\* All other steps are those of a thread that does not wait, and leave the
\* threads that do where they are.
LEMMA OutsideStep ==
  ASSUME TypeOK, CallsOK, RolesOK, PlacesOK, NEW t \in Thread, Step(t),
         ~InsideStep(t), ~SomeWait(t), ~SomeAlertWait(t), ~JoinWaits(t)
  PROVE  Outside(t) /\ \A x \in Thread : Stays(x) \/ Outside(x)
<1>1. /\ pc \in [Thread -> Labels] /\ call \in [Thread -> CallType]
      /\ CallOK(pc[t], call[t]) /\ call[t] \in CallType /\ PlaceOK(t)
      /\ call[t].on \in Thread \cup {Nil} /\ call[t].ret \in Returns
      /\ call[t].back \in {"run", "create", "newSelf"}
  BY CallLemma DEF TypeOK, CallsOK, PlacesOK
<1>l. Labs
  BY LabsLemma
<1>m. /\ \A m : LET r == Call(m, Nil, "run", Nil, FALSE, "run") IN r.c = Nil /\ r.ret = "run"
      /\ \A u, a : LET r == Call(threadMu, Nil, "join", u, a, "run")
                   IN r.c = Nil /\ r.ret = "join"
      /\ \A b : LET r == Call(threadMu, Nil, "collect", Nil, FALSE, b)
                IN r.c = Nil /\ r.ret = "collect"
  BY SMT DEF Call
<1> DEFINE Goal == Outside(t) /\ \A x \in Thread : Stays(x) \/ Outside(x)
<1> SUFFICES Goal
  OBVIOUS
\* Where t is, and where it goes.
<1>a. ASSUME pc[t] \notin InWait \cup {"enter"} PROVE Away(pc[t], call[t])
  BY <1>1, <1>a, <1>l DEF Away, PlaceOK, Labs
<1>o. ASSUME NEW p, p \notin InLock \cup InWait PROVE Away(p, call[t]) /\ Away(p, NoCall)
  BY <1>1, <1>o, MadeFields DEF Away, PlaceOK
<1>n. ASSUME NEW p \in {"alloc", "enter"}, NEW r, r.c = Nil, r.ret # "waited" PROVE Away(p, r)
  BY <1>n, <1>l DEF Away, Labs
<1>g. ASSUME Alone(t), pc[t] \notin InWait \cup {"enter"}, Away(pc'[t], call'[t])
      PROVE  Goal
  BY <1>a, <1>g DEF Alone, Stays, Outside
<1>k. ASSUME NEW r, LockMutex(t, r), r.c = Nil, r.ret # "waited", pc[t] \notin InWait \cup {"enter"}
      PROVE  Goal
  <2>1. Alone(t) /\ pc'[t] \in {"alloc", "enter"} /\ call'[t] = r
    BY <1>1, <1>k DEF LockMutex, Alone
  <2> QED  BY <1>g, <1>k, <1>n, <2>1
\* u, which does not wait, moves too.
<1>u. ASSUME NEW u \in Thread, pc[t] \notin InWait \cup {"enter"},
             pc[u] \notin InWait \cup {"enter", "alloc", "new"},
             Away(pc'[t], call'[t]),
             u # t, call[u].ret = "waited" => call[u].alert, Away(pc'[u], call'[u]),
             \A x \in Thread : x # t /\ x # u => Stays(x)
      PROVE  Goal
  <2>1. Away(pc[u], call[u])
    BY <1>l, <1>u DEF Away, Labs
  <2> QED  BY <1>a, <1>u, <2>1 DEF Outside
<1>w. \A x \in Thread : call[x].ret = "waited" => call[x].alert
  BY DEF PlacesOK, PlaceOK
<1> HIDE DEF Goal
<1>2. CASE SomeRelease(t) \/ SomeSignal(t) \/ SomeBroadcast(t) \/ SomeAlert(t) \/ TestAlert(t)
  <2>1. pc' = pc /\ call' = call /\ pc[t] = "run"
    BY <1>2 DEF SomeRelease, SomeSignal, SomeBroadcast, SomeAlert, Release, Signal,
       Broadcast, Alert, TestAlert, Client, callVars
  <2>2. Alone(t) /\ pc[t] \notin InWait \cup {"enter"} /\ Away(pc'[t], call'[t])
    BY <1>l, <1>o, <2>1 DEF Alone, Labs
  <2> QED  BY <1>g, <2>2
<1>3. CASE SomeAcquire(t)
  <2>1. PICK m \in Mutex : Acquire(t, m)
    BY <1>3 DEF SomeAcquire
  <2> QED  BY <1>k, <1>l, <1>m, <2>1 DEF Acquire, Client, Labs
<1>4. CASE SomeJoin(t)
  <2>1. PICK u \in Thread, a \in BOOLEAN : Join(t, u, a)
    BY <1>4 DEF SomeJoin
  <2> QED  BY <1>k, <1>l, <1>m, <2>1 DEF Join, Client, Labs
<1>5. CASE Fork(t) \/ Reborn(t)
  BY <1>5, <1>k, <1>l, MadeFields DEF Fork, Reborn, Client, Labs
<1>6. CASE CollectBegins(t)
  BY <1>6, <1>k, <1>l, <1>m DEF CollectBegins, Labs
<1>7. CASE Exit(t)
  <2>1. CASE pc' = [pc EXCEPT ![t] = "newSelf"] /\ UNCHANGED call
    <3>1. Alone(t) /\ pc'[t] = "newSelf" /\ call'[t] = call[t] /\ pc[t] = "run"
      BY <1>1, <1>7, <2>1 DEF Alone, Exit, Client
    <3> QED  BY <1>g, <1>l, <1>o, <3>1 DEF Labs
  <2>2. CASE LockMutex(t, ThreadCall("finish", Nil))
    BY <1>7, <1>k, <1>l, <2>2, MadeFields DEF Exit, Client, Labs
  <2> QED  BY <1>7, <2>1, <2>2 DEF Exit
<1>8. CASE AlertPause(t) \/ PauseAgain(t) \/ PauseWakes(t) \/ PauseEnds(t)
  <2>1. /\ Alone(t) /\ pc[t] \in {"run", "pause", "pausing", "paused"}
        /\ pc'[t] \in {"run", "pause", "pausing", "paused"} /\ call' = call
    BY <1>1, <1>8 DEF AlertPause, PauseAgain, PauseTurn, PauseWakes, PauseEnds, Client, Alone
  <2> QED  BY <1>g, <1>l, <1>o, <2>1 DEF Labs
<1>9. CASE AllocCSect(t) \/ InstallCSect(t)
  <2>1. /\ Alone(t) /\ pc[t] \in {"alloc", "new"} /\ pc'[t] \in {"new", "enter"}
        /\ call' = call
    BY <1>1, <1>9 DEF AllocCSect, InstallCSect, Alone
  <2>2. Away(pc'[t], call'[t])
    BY <1>1, <1>l, <2>1 DEF PlaceOK, Away, Labs
  <2> QED  BY <1>g, <1>l, <2>1, <2>2 DEF Labs
<1>10. CASE ForkIdle(t)
  <2>1. /\ Alone(t) /\ pc[t] = "fork" /\ pc'[t] = "rouse"
        /\ call'[t] = [call[t] EXCEPT !.on = Head(idleThreads)]
    BY <1>1, <1>10 DEF ForkIdle, Alone
  <2>2. call'[t].ret = call[t].ret /\ call'[t].alert = call[t].alert
    BY <1>1, <2>1, FieldLemma
  <2> QED  BY <1>g, <1>l, <1>w, <2>1, <2>2 DEF Labs, Away
<1>11. CASE ForkNone(t) \/ ForkNew(t) \/ Finish(t)
  <2>1. /\ Alone(t) /\ pc[t] \in {"fork", "forkNew", "finish"}
        /\ pc'[t] \in {"create", "rouse", "bcast"} /\ call' = call
    BY <1>1, <1>11 DEF ForkNone, ForkNew, Finish, Alone
  <2> QED  BY <1>g, <1>l, <1>o, <2>1 DEF Labs
<1>12. CASE Start(t) \/ Ends(t) \/ JoinDone(t) \/ JoinFinally(t) \/ Collect(t)
  <2>1. /\ Alone(t) /\ pc[t] \in {"start", "exit", "join", "finally", "collect"}
        /\ pc'[t] \in {"run", "gone", "create", "newSelf"} /\ call'[t] = NoCall
    BY <1>1, <1>12 DEF Start, Ends, JoinDone, JoinFinally, Collect, Alone
  <2> QED  BY <1>g, <1>l, <1>o, <2>1 DEF Labs
<1>13. CASE SomeCreateT(t) \/ SomeNewSelf(t)
  <2>1. PICK u \in Thread : CreateT(t, u) \/ NewSelf(t, u)
    BY <1>13 DEF SomeCreateT, SomeNewSelf
  <2>2. /\ pc[t] \in {"create", "newSelf"} /\ pc[u] = "none" /\ u # t
        /\ pc'[t] = "enter" /\ pc'[u] \in {"made", "promised"} /\ call'[u] = call[u]
        /\ \A x \in Thread : x # t /\ x # u => pc'[x] = pc[x] /\ call'[x] = call[x]
        /\ call'[t].c = Nil /\ call'[t].ret # "waited"
    BY <1>1, <2>1, MadeFields DEF CreateT, NewSelf
  <2>3. Away(pc'[t], call'[t]) /\ Away(pc'[u], call'[u])
    BY <1>l, <1>n, <1>w, <2>2 DEF Away, Labs
  <2> QED  BY <1>l, <1>u, <1>w, <2>2, <2>3 DEF Stays, Labs
<1>14. CASE Rouse(t)
  <2>1. PICK u \in Thread : u = call[t].on
    BY <1>1, <1>14 DEF Rouse, CallOK
  <2>2. CASE pc[u] = "made"
    <3>1. /\ u # t /\ pc'[t] = "run" /\ pc'[u] = "enter" /\ pc[t] = "rouse"
          /\ \A x \in Thread : x # t /\ x # u => pc'[x] = pc[x] /\ call'[x] = call[x]
          /\ call'[t] = NoCall /\ call'[u].c = Nil /\ call'[u].ret # "waited"
      BY <1>1, <1>14, <2>1, <2>2, MadeFields DEF Rouse
    <3>2. Away(pc'[t], call'[t]) /\ Away(pc'[u], call'[u])
      BY <1>l, <1>n, <1>o, <3>1 DEF Labs
    <3> QED  BY <1>l, <1>u, <1>w, <2>2, <3>1, <3>2 DEF Stays, Labs
  <2>3. CASE pc[u] # "made"
    <3>1. Alone(t) /\ pc[t] = "rouse" /\ pc'[t] = "run" /\ call'[t] = NoCall
      BY <1>1, <1>14, <2>1, <2>3 DEF Rouse, Alone
    <3> QED  BY <1>g, <1>l, <1>o, <3>1 DEF Labs
  <2> QED  BY <2>2, <2>3
<1>15. CASE BroadcastEnd(t)
  <2>1. pc[t] = "bcast"
    BY <1>15 DEF BroadcastEnd
  <2>2. CASE call[t].on = Nil
    <3>1. LockMutex(t, ThreadCall("exit", Nil))
      BY <1>15, <2>2 DEF BroadcastEnd
    <3> QED  BY <1>k, <1>l, <2>1, <3>1, MadeFields DEF Labs
  <2>3. ASSUME NEW u \in Thread, call[t].on = u, u # Nil PROVE Goal
    <3>1. pc[u] = "promised" /\ u # t
      BY <2>1, <2>3 DEF RolesOK, RoleOK, Left
    <3>2. /\ pc'[t] = "gone" /\ pc'[u] = "idle" /\ call'[t] = NoCall /\ call'[u] = call[u]
          /\ \A x \in Thread : x # t /\ x # u => pc'[x] = pc[x] /\ call'[x] = call[x]
      BY <1>1, <1>15, <2>3, <3>1 DEF BroadcastEnd
    <3>3. Away(pc'[t], call'[t]) /\ Away(pc'[u], call'[u])
      BY <1>l, <1>o, <1>w, <3>2 DEF Labs, Away
    <3> QED  BY <1>l, <1>u, <1>w, <2>1, <3>1, <3>2, <3>3 DEF Stays, Labs
  <2> QED  BY <1>1, <2>2, <2>3
<1>16. CASE EnterCSect(t)
  <2>1. call[t].c = Nil /\ pc[t] = "enter" /\ LockCall(call[t])
    BY <1>1, <1>16, <1>l DEF InsideStep, EnterCSect, CallOK, Labs
  <2>2. call[t].ret # "waited" /\ call[t].ret \notin InLock \cup InWait
    BY <1>1, <1>l, <2>1 DEF LockCall, Returns, Labs
  <2>3. /\ Alone(t) /\ pc'[t] = call[t].ret
        /\ call'[t] = NoCall \/ call'[t] = [call[t] EXCEPT !.c = Nil]
    BY <1>1, <1>16, <2>2 DEF EnterCSect, Alone
  <2>4. call'[t].ret # "waited"
    <3>1. LET q == [call[t] EXCEPT !.c = Nil] IN q.ret = call[t].ret
      BY <1>1, FieldLemma
    <3>2. CASE call'[t] = NoCall
      BY <3>2, MadeFields
    <3>3. CASE call'[t] = [call[t] EXCEPT !.c = Nil]
      BY <2>2, <3>1, <3>3, Zenon
    <3> QED  BY <2>3, <3>2, <3>3
  <2>5. Away(pc[t], call[t]) /\ Away(pc'[t], call'[t])
    BY <1>l, <2>1, <2>2, <2>3, <2>4 DEF Away, Labs
  <2> QED  BY <2>3, <2>5 DEF Alone, Stays, Outside, Goal
<1> QED
  BY StepCases, <1>2, <1>3, <1>4, <1>5, <1>6, <1>7, <1>8, <1>9, <1>10, <1>11,
     <1>12, <1>13, <1>14, <1>15, <1>16 DEF InsideStep

\* Where a wait is, and where its next step takes it.
LEMMA InsideMove ==
  ASSUME RefInv, NEW t \in Thread, InsideStep(t)
  PROVE  /\ Alone(t) /\ InInnerWait(t) /\ WaitCall(call[t]) /\ call[t].m \in Lock
         /\ call[t].alert <=> call[t].ret = "waited"
         /\ \/ /\ WaitUnlock(t) /\ pc[t] = "unlock"
               /\ pc'[t] = "sema" /\ call'[t] = call[t]
            \/ /\ SemaWait(t) /\ pc[t] = "sema"
               /\ pc'[t] = "enter" /\ call'[t] = call[t]
            \/ /\ EnterCSect(t) /\ pc[t] = "enter" /\ call[t].c # Nil /\ call[t].alert
               /\ pc'[t] = "waited" /\ call'[t] = call[t]
            \/ /\ EnterCSect(t) /\ pc[t] = "enter" /\ call[t].c # Nil /\ ~call[t].alert
               /\ Away(pc'[t], call'[t])
            \/ /\ WaitTest(t) /\ pc[t] = "waited" /\ call[t].alert
               /\ pc'[t] = IF alerted[t] THEN "raise" ELSE "return"
               /\ call'[t] = call[t]
            \/ /\ WaitReturns(t) /\ pc[t] \in {"return", "raise"}
               /\ Away(pc'[t], call'[t])
<1>1. /\ TypeOK /\ pc \in [Thread -> Labels] /\ call \in [Thread -> CallType]
      /\ CallOK(pc[t], call[t]) /\ call[t] \in CallType /\ PlaceOK(t) /\ RelockOK(t)
  BY DEF RefInv, MutexInv, WaitInv, TypeOK, CallsOK, PlacesOK, RelocksOK
<1>l. Labs
  BY LabsLemma
<1>2. InInnerWait(t)
  BY <1>l DEF InsideStep, InInnerWait, WaitUnlock, SemaWait, WaitTest, WaitReturns, EnterCSect, Labs
<1>3. WaitCall(call[t]) /\ (call[t].alert <=> call[t].ret = "waited")
  BY <1>1, <1>2 DEF PlaceOK
<1>4. call[t].m \in Lock
  BY <1>3, Constants DEF WaitCall
<1>5. LET q == [call[t] EXCEPT !.c = Nil] IN q.ret = call[t].ret /\ q.c = Nil
  BY <1>1, FieldLemma
<1>c. call[t].ret \in {"run", "join", "waited"}
  BY <1>3 DEF WaitCall
<1>g. ASSUME NEW p \in {"run", "join", "finally"}, pc'[t] = p,
             call'[t] = NoCall \/ call'[t] = call[t] \/ call'[t] = [call[t] EXCEPT !.c = Nil]
      PROVE  Away(pc'[t], call'[t])
  <2>1. p \notin InLock \cup InWait
    BY <1>l DEF Labs
  <2>2. CASE call'[t] = NoCall
    BY <1>g, <2>1, <2>2, MadeFields DEF Away
  <2>3. CASE call'[t] = call[t]
    BY <1>g, <1>3, <2>1, <2>3 DEF Away
  <2>4. CASE call'[t] = [call[t] EXCEPT !.c = Nil]
    <3>1. LET q == [call[t] EXCEPT !.c = Nil] IN q.ret = call[t].ret /\ q.alert = call[t].alert
      BY <1>1, FieldLemma
    <3>2. call'[t].ret = call[t].ret /\ call'[t].alert = call[t].alert
      BY <2>4, <3>1, Zenon
    <3> QED  BY <1>g, <1>3, <2>1, <3>2 DEF Away
  <2> QED  BY <1>g, <2>2, <2>3, <2>4
<1>6. CASE WaitUnlock(t)
  BY <1>1, <1>2, <1>3, <1>4, <1>6 DEF WaitUnlock, Alone
<1>7. CASE SemaWait(t)
  <2>1. cs[call[t].m] # Nil
    BY <1>1, <1>7 DEF SemaWait, RelockOK
  <2>2. /\ pc[t] = "sema" /\ pc'[t] = "enter" /\ call'[t] = call[t] /\ Alone(t)
    BY <1>1, <1>7, <2>1 DEF SemaWait, LockMutex, Alone
  <2> QED  BY <1>2, <1>3, <1>4, <1>7, <2>2
<1>8. CASE WaitTest(t)
  BY <1>1, <1>2, <1>3, <1>4, <1>8 DEF WaitTest, Alone, PlaceOK
<1>9. CASE WaitReturns(t)
  <2>1. /\ pc[t] \in {"return", "raise"} /\ Alone(t) /\ pc'[t] \in {"run", "join", "finally"}
        /\ call'[t] = NoCall \/ call'[t] = [call[t] EXCEPT !.c = Nil]
    BY <1>1, <1>9 DEF WaitReturns, Alone
  <2> QED  BY <1>2, <1>3, <1>4, <1>9, <1>g, <2>1
<1>10. CASE EnterCSect(t) /\ call[t].c # Nil
  <2>1. /\ pc[t] = "enter" /\ Alone(t) /\ pc'[t] = call[t].ret
        /\ call'[t] = IF call[t].ret = "run" THEN NoCall
                      ELSE IF call[t].ret = "waited" THEN call[t]
                      ELSE [call[t] EXCEPT !.c = Nil]
    BY <1>1, <1>10 DEF EnterCSect, Alone
  <2>2. CASE call[t].alert
    BY <1>2, <1>3, <1>4, <1>10, <2>1, <2>2
  <2>3. CASE ~call[t].alert
    <3>1. pc'[t] \in {"run", "join", "finally"}
      BY <1>3, <1>c, <2>1, <2>3
    <3>2. call'[t] = NoCall \/ call'[t] = [call[t] EXCEPT !.c = Nil]
      BY <1>3, <2>1, <2>3
    <3>3. Away(pc'[t], call'[t])
      BY <1>g, <3>1, <3>2
    <3> QED  BY <1>2, <1>3, <1>4, <1>10, <2>1, <2>3, <3>3
  <2> QED  BY <2>2, <2>3
<1> QED  BY <1>6, <1>7, <1>8, <1>9, <1>10 DEF InsideStep

-----------------------------------------------------------------------------
(* The places keep.                                                        *)

\* Each step enters a wait, goes on with one, or leaves all waits alone.
Beside(t) == Outside(t) /\ \A x \in Thread : Stays(x) \/ Outside(x)

LEMMA WaitCases ==
  ASSUME RefInv, NEW t \in Thread, Step(t)
  PROVE  (\E r \in CallType : Enters(t, r)) \/ InsideStep(t) \/ Beside(t)
<1>1. MutexInv /\ PlacesOK /\ TypeOK /\ CallsOK /\ RolesOK
  BY DEF RefInv, MutexInv, WaitInv
<1>2. RaisesAtOnce(t) => Beside(t)
  BY DEF RaisesAtOnce, Beside, Outside, Stays, Alone
<1>3. SomeWait(t) \/ SomeAlertWait(t) \/ JoinWaits(t)
        => (\E r \in CallType : Enters(t, r)) \/ RaisesAtOnce(t)
  BY <1>1, EnterCases
<1>4. ~SomeWait(t) /\ ~SomeAlertWait(t) /\ ~JoinWaits(t) /\ ~InsideStep(t) => Beside(t)
  BY <1>1, OutsideStep DEF Beside
<1> QED  BY <1>2, <1>3, <1>4

\* Where the thread that enters a wait goes.
LEMMA EnterMoves ==
  ASSUME TypeOK, NEW t \in Thread, NEW r, Enters(t, r)
  PROVE  /\ Alone(t) /\ pc'[t] = "unlock" /\ call'[t] = r
         /\ InInnerWait(t)' /\ ~InInnerWait(t) /\ Phase(t) = "client"
         /\ Phase(t)' = IF r.alert THEN "alertWait" ELSE "wait"
<1>1. pc \in [Thread -> Labels] /\ call \in [Thread -> CallType] /\ Labs
  BY LabsLemma DEF TypeOK
<1>2. Alone(t) /\ pc'[t] = "unlock" /\ call'[t] = r
  BY <1>1 DEF Enters, InnerWait, Alone
<1>3. ~InInnerWait(t) /\ Phase(t) = "client"
  BY AwayLemma DEF Enters
<1> QED  BY <1>1, <1>2, <1>3 DEF InInnerWait, Phase, Labs

LEMMA PlacesStep ==
  ASSUME RefInv, NEW t \in Thread, Step(t)
  PROVE  PlacesOK'
<1>1. \A x \in Thread : PlaceOK(x)
  BY DEF RefInv, PlacesOK
<1>2. ASSUME NEW x \in Thread, Stays(x) PROVE PlaceOK(x)'
  BY <1>1, <1>2 DEF Stays, PlaceOK, InInnerWait
<1>3. ASSUME NEW x \in Thread, Away(pc'[x], call'[x]) PROVE PlaceOK(x)'
  BY <1>3, AwayNext
<1>l. Labs /\ TypeOK
  BY LabsLemma DEF RefInv, MutexInv, WaitInv
<1>4. ASSUME NEW r \in CallType, Enters(t, r) PROVE PlacesOK'
  <2>1. Alone(t) /\ pc'[t] = "unlock" /\ call'[t] = r
    BY <1>l, <1>4, EnterMoves
  <2>2. PlaceOK(t)'
    BY <1>4, <2>1 DEF Enters, PlaceOK
  <2> QED  BY <1>2, <2>1, <2>2 DEF PlacesOK, Alone, Stays
<1>5. CASE InsideStep(t)
  <2>1. Alone(t)
    BY <1>5, InsideMove
  <2>2. PlaceOK(t)'
    <3>1. CASE Away(pc'[t], call'[t])
      BY <1>3, <3>1
    <3>2. CASE ~Away(pc'[t], call'[t])
      <4>1. /\ call'[t] = call[t] /\ pc'[t] \in {"sema", "enter", "waited", "return", "raise"}
            /\ pc'[t] \in {"waited", "return", "raise"} => call[t].alert
            /\ WaitCall(call[t]) /\ (call[t].alert <=> call[t].ret = "waited")
        BY <1>5, <3>2, InsideMove
      <4> QED  BY <4>1 DEF PlaceOK
    <3> QED  BY <3>1, <3>2
  <2> QED  BY <1>2, <2>1, <2>2 DEF PlacesOK, Alone, Stays
<1>6. CASE Beside(t)
  BY <1>2, <1>3, <1>6 DEF Beside, Outside, PlacesOK
<1> QED  BY <1>4, <1>5, <1>6, WaitCases

-----------------------------------------------------------------------------
(* What a step does to the mutexes.                                        *)

Unlocked(t, m) ==
  /\ Owner(m) = t
  /\ \A n \in Lock : Owner(n)' = IF n = m THEN Nil ELSE Owner(n)
Locked(t, m) ==
  /\ Owner(m) = Nil
  /\ \A n \in Lock : Owner(n)' = IF n = m THEN t ELSE Owner(n)
OwnersSame == \A n \in Lock : Owner(n)' = Owner(n)

LEMMA UnlockOwner ==
  ASSUME MutexInv, NEW t \in Thread, NEW m \in Lock, UnlockMutex(m), Owner(m) = t
  PROVE  Unlocked(t, m)
<1>1. /\ cs \in [Lock -> CSect \cup {Nil}] /\ held \in [Lock -> BOOLEAN]
      /\ csOwner \in [CSect -> Thread \cup {Nil}] /\ Nil \notin CSect
  BY Constants DEF MutexInv, WaitInv, TypeOK
<1>2. /\ cs' = cs /\ \A n \in Lock : held'[n] <=> held[n] /\ n # m
      /\ \A s \in CSect : s # cs[m] => csOwner'[s] = csOwner[s]
  BY <1>1 DEF UnlockMutex
<1>3. \A n \in Lock : n # m /\ cs[n] # Nil => cs[n] # cs[m] /\ cs[n] \in CSect
  BY <1>1 DEF MutexInv, OwnersOK
<1> QED  BY <1>1, <1>2, <1>3 DEF Unlocked, Owner

LEMMA LockOwner ==
  ASSUME MutexInv, NEW t \in Thread, EnterCSect(t)
  PROVE  call[t].m \in Lock /\ Locked(t, call[t].m)
<1>1. /\ cs \in [Lock -> CSect \cup {Nil}] /\ held \in [Lock -> BOOLEAN]
      /\ csOwner \in [CSect -> Thread \cup {Nil}] /\ Nil \notin CSect /\ Nil \notin Thread
  BY Constants DEF MutexInv, WaitInv, TypeOK
<1>l. "enter" \in InLock
  BY DEF InLock
<1>2. PICK m \in Lock : m = call[t].m
  BY <1>l, LockedMutex DEF MutexInv, WaitInv, EnterCSect
<1>3. /\ cs' = cs /\ csOwner[cs[m]] \in {Nil, t} /\ pc[t] = "enter"
      /\ held' = [held EXCEPT ![m] = TRUE] /\ csOwner' = [csOwner EXCEPT ![cs[m]] = t]
  BY <1>2 DEF EnterCSect
<1>4. cs[m] \in CSect /\ csOwner[cs[m]] = Nil
  BY <1>1, <1>2, <1>3, <1>l DEF MutexInv, LocksOK, LockOK
<1>5. \A n \in Lock : n # m /\ cs[n] # Nil => cs[n] # cs[m] /\ cs[n] \in CSect
  BY <1>1 DEF MutexInv, OwnersOK
<1>6. Owner(m) = Nil
  BY <1>4 DEF Owner
<1>7. \A n \in Lock : Owner(n)' = IF n = m THEN t ELSE Owner(n)
  <2>1. held'[m] /\ cs'[m] # Nil /\ csOwner'[cs'[m]] = t
    BY <1>1, <1>3, <1>4
  <2>2. \A n \in Lock : n # m => (held'[n] <=> held[n]) /\ (cs[n] # Nil => csOwner'[cs[n]] = csOwner[cs[n]])
    BY <1>1, <1>3, <1>5
  <2> QED  BY <1>3, <2>1, <2>2 DEF Owner
<1> QED  BY <1>2, <1>6, <1>7 DEF Locked

\* Only a mutex that nobody uses loses its critical section.
LEMMA UsedKeeps ==
  ASSUME MutexInv, NEW t \in Thread, Step(t), NEW x \in Thread, call[x].m \in Lock,
         cs[call[x].m] # Nil
  PROVE  cs'[call[x].m] # Nil
<1>1. /\ cs \in [Lock -> CSect \cup {Nil}] /\ cSectCache \in Seq(CSect) /\ Nil \notin CSect
      /\ Mutex \subseteq Lock
  BY Constants DEF MutexInv, WaitInv, TypeOK
<1>2. PICK m \in Lock : m = call[x].m
  OBVIOUS
<1>3. CASE cs' = cs
  BY <1>3
<1>4. CASE AllocCSect(t)
  <2>1. CASE cSectCache = <<>>
    BY <1>4, <2>1 DEF AllocCSect
  <2>2. CASE cSectCache # <<>>
    <3>1. Last(cSectCache) \in CSect
      <4>1. Len(cSectCache) \in 1 .. Len(cSectCache)
        <5>1. Len(cSectCache) \in Nat /\ Len(cSectCache) # 0
          BY <1>1, <2>2, EmptySeq, LenProperties
        <5> QED  BY <5>1, SMT
      <4> QED  BY <1>1, <4>1, ElementOfSeq DEF Last
    <3>2. cs' = [cs EXCEPT ![call[t].m] = Last(cSectCache)]
      BY <1>4, <2>2 DEF AllocCSect
    <3> HIDE DEF Last
    <3> QED  BY <1>1, <1>2, <3>1, <3>2
  <2> QED  BY <2>1, <2>2
<1>5. CASE InstallCSect(t)
  <2>1. cs' = [cs EXCEPT ![call[t].m] = IF cs[call[t].m] = Nil THEN NewCSect ELSE cs[call[t].m]]
    BY <1>5 DEF InstallCSect
  <2> QED  BY <1>1, <1>2, <2>1
<1>6. CASE Collect(t)
  <2>1. PICK dead \in SUBSET {n \in Mutex : Unused(n)} : FreeCSect(dead)
    BY <1>6 DEF Collect
  <2>2. cs' = [n \in Lock |-> IF n \in dead THEN Nil ELSE cs[n]] /\ m \notin dead
    BY <1>2, <2>1 DEF FreeCSect, Unused
  <2> QED  BY <1>2, <2>2
<1>7. CASE \/ SomeRelease(t) \/ WaitUnlock(t)
           \/ ForkIdle(t) \/ ForkNone(t) \/ ForkNew(t) \/ Start(t) \/ Finish(t)
           \/ Ends(t) \/ JoinDone(t) \/ JoinFinally(t) \/ EnterCSect(t)
  <2>1. cs' = cs
    BY <1>7 DEF SomeRelease, Release, WaitUnlock, ForkIdle, ForkNone, ForkNew, Start,
       Finish, Ends, JoinDone, JoinFinally, EnterCSect, UnlockMutex
  <2> QED  BY <2>1
<1> QED  BY MutexFrame, <1>3, <1>4, <1>5, <1>6, <1>7 DEF mutexVars

\* A step that gives nothing, or gives a mutex its critical section, locks and
\* unlocks nothing.
LEMMA SameOwners ==
  ASSUME MutexInv, NEW t \in Thread,
         UNCHANGED mutexVars \/ AllocCSect(t) \/ InstallCSect(t)
  PROVE  OwnersSame
<1>1. /\ cs \in [Lock -> CSect \cup {Nil}] /\ held \in [Lock -> BOOLEAN] /\ Nil \notin CSect
  BY Constants DEF MutexInv, WaitInv, TypeOK
<1>c. "alloc" \in InLock
  BY DEF InLock
<1>2. CASE UNCHANGED mutexVars
  BY <1>2 DEF mutexVars, Owner, OwnersSame
<1>3. ASSUME NEW m \in Lock, NEW v, cs[m] = Nil, cs' = [cs EXCEPT ![m] = v],
             held' = held, csOwner' = csOwner
      PROVE  OwnersSame
  <2>1. ~held[m]
    BY <1>3 DEF MutexInv, OwnersOK
  <2> QED  BY <1>1, <1>3, <2>1 DEF Owner, OwnersSame
<1>4. CASE AllocCSect(t)
  <2>1. CASE cSectCache = <<>>
    BY <1>4, <2>1 DEF AllocCSect, Owner, OwnersSame
  <2>2. CASE cSectCache # <<>>
    <3>1. /\ call[t].m \in Mutex /\ \A n \in Mutex : cs[n] = Nil
      BY <1>4, <2>2 DEF AllocCSect, MutexInv, LocksOK, LockOK, CacheOK
    <3>2. cs' = [cs EXCEPT ![call[t].m] = Last(cSectCache)] /\ held' = held /\ csOwner' = csOwner
      BY <1>4, <2>2 DEF AllocCSect
    <3>3. PICK m \in Lock : m = call[t].m
      BY <3>1, Constants
    <3> QED  BY <1>3, <3>1, <3>2, <3>3
  <2> QED  BY <2>1, <2>2
<1>5. CASE InstallCSect(t)
  <2>1. PICK m \in Lock : m = call[t].m
    BY <1>5, Constants DEF InstallCSect, MutexInv, LocksOK, LockOK
  <2>2. /\ cs' = [cs EXCEPT ![m] = IF cs[m] = Nil THEN NewCSect ELSE cs[m]]
        /\ held' = held /\ csOwner' = csOwner
    BY <1>5, <2>1 DEF InstallCSect
  <2>3. CASE cs[m] = Nil
    BY <1>3, <2>2, <2>3
  <2>4. CASE cs[m] # Nil
    <3>1. cs' = cs
      BY <1>1, <2>2, <2>4
    <3> QED  BY <2>2, <3>1 DEF Owner, OwnersSame
  <2> QED  BY <2>3, <2>4
<1> QED  BY <1>2, <1>4, <1>5

LEMMA OwnerStep ==
  ASSUME RefInv, NEW t \in Thread, Step(t)
  PROVE  \/ OwnersSame /\ (UNCHANGED mutexVars \/ AllocCSect(t) \/ InstallCSect(t))
         \/ WaitUnlock(t) /\ Unlocked(t, call[t].m)
         \/ EnterCSect(t) /\ Locked(t, call[t].m)
         \/ Beside(t) /\ UNCHANGED waitVars /\ \E m \in Lock : Unlocked(t, m)
<1>1. /\ MutexInv /\ TypeOK /\ CallsOK /\ RolesOK /\ PlacesOK /\ OwnersOK /\ CallOK(pc[t], call[t])
      /\ LockOK(t) /\ cs \in [Lock -> CSect \cup {Nil}] /\ held \in [Lock -> BOOLEAN]
      /\ csOwner \in [CSect -> Thread \cup {Nil}] /\ call[t] \in CallType
  BY DEF RefInv, MutexInv, WaitInv, CallsOK, LocksOK, TypeOK
<1>k. /\ Nil \notin Thread /\ 1 \in CSect /\ threadMu \in Lock /\ Nil \notin CSect
      /\ 1 # Nil /\ Mutex \subseteq Lock /\ threadMu \notin Mutex
  BY Constants
<1>l. Labs
  BY LabsLemma
<1>b. ASSUME pc[t] \notin InWait \cup {"enter", "alloc", "new"}, ~SomeWait(t), ~SomeAlertWait(t), ~JoinWaits(t)
      PROVE  Beside(t)
  <2>1. ~InsideStep(t)
    BY <1>b, <1>l DEF InsideStep, WaitUnlock, SemaWait, WaitTest, WaitReturns, EnterCSect, Labs
  <2> QED  BY <1>1, <1>b, <2>1, OutsideStep DEF Beside
<1>2. CASE UNCHANGED mutexVars \/ AllocCSect(t) \/ InstallCSect(t)
  BY <1>1, <1>2, SameOwners
<1>3. CASE WaitUnlock(t)
  <2>1. call[t].m \in Lock /\ pc[t] = "unlock"
    BY <1>3, InsideMove DEF InsideStep, WaitUnlock
  <2>2. Owner(call[t].m) = t
    BY <2>1 DEF RefInv, RelocksOK, RelockOK
  <2> QED  BY <1>1, <1>3, <2>1, <2>2, UnlockOwner DEF WaitUnlock
<1>4. CASE EnterCSect(t)
  BY <1>1, <1>4, LockOwner
<1>5. CASE SomeRelease(t)
  <2>1. PICK m \in Mutex : Release(t, m)
    BY <1>5 DEF SomeRelease
  <2>2. /\ UnlockMutex(m) /\ Owner(m) = t /\ UNCHANGED waitVars /\ m \in Lock
        /\ pc[t] = "run" /\ pc' = pc
    BY <1>1, <1>k, <2>1, OwnerLemma DEF Release, Client, callVars
  <2>3. Unlocked(t, m)
    BY <1>1, <2>2, UnlockOwner
  <2>4. ~SomeWait(t) /\ ~SomeAlertWait(t) /\ ~JoinWaits(t)
    <3>1. held[m] /\ ~held'[m]
      BY <1>1, <2>1, <2>2 DEF UnlockMutex, Release, Holds
    <3> QED
      BY <3>1 DEF SomeWait, SomeAlertWait, Wait, AlertWait, JoinWaits, mutexVars
  <2>5. Beside(t)
    BY <1>b, <1>l, <2>2, <2>4 DEF Labs
  <2> QED  BY <2>2, <2>3, <2>5
<1>6. CASE \/ ForkIdle(t) \/ ForkNone(t) \/ ForkNew(t) \/ Start(t) \/ Finish(t)
           \/ Ends(t) \/ JoinDone(t) \/ JoinFinally(t) \/ Collect(t)
  <2>1. /\ HasLibrary(t) /\ UNCHANGED waitVars
        /\ pc[t] \in {"fork", "forkNew", "start", "finish", "exit", "join", "finally", "collect"}
        /\ pc[t] = "join" => completed[call[t].on]
    BY <1>6 DEF HasLibrary, ForkIdle, ForkNone, ForkNew, Start, Finish, Ends, JoinDone,
       JoinFinally, Collect
  <2>2. Owner(threadMu) = t
    BY <1>1, <2>1, OwnerLemma
  <2>3. Beside(t)
    <3>1. ~SomeWait(t) /\ ~SomeAlertWait(t) /\ ~JoinWaits(t)
      BY <2>1 DEF SomeWait, SomeAlertWait, Wait, AlertWait, Client, JoinWaits
    <3> QED  BY <1>b, <1>l, <2>1, <3>1 DEF Labs
  <2>4. CASE ~Collect(t)
    <3>1. UnlockMutex(threadMu)
      BY <1>6, <2>4 DEF ForkIdle, ForkNone, ForkNew, Start, Finish, Ends, JoinDone, JoinFinally
    <3> QED  BY <1>1, <1>k, <2>1, <2>2, <2>3, <3>1, UnlockOwner
  <2>5. CASE Collect(t)
    <3>1. PICK dead \in SUBSET {m \in Mutex : Unused(m)} : FreeCSect(dead)
      BY <2>5 DEF Collect
    <3>2. /\ cs' = [m \in Lock |-> IF m \in dead THEN Nil ELSE cs[m]]
          /\ held' = [held EXCEPT ![threadMu] = FALSE]
          /\ csOwner' = [csOwner EXCEPT ![1] = Nil]
          /\ \A m \in dead : m \in Mutex /\ ~held[m]
      BY <1>1, <2>5, <3>1 DEF Collect, FreeCSect, Unused, OwnersOK
    <3>3. \A n \in Lock : n # threadMu /\ cs[n] # Nil => cs[n] # 1 /\ cs[n] \in CSect
      BY <1>1, <1>k DEF OwnersOK
    <3>4. Owner(threadMu)' = Nil
      BY <1>1, <1>k, <3>2 DEF Owner
    <3>5. ASSUME NEW n \in Lock, n # threadMu PROVE Owner(n)' = Owner(n)
      <4>1. CASE n \in dead
        BY <1>1, <3>2, <3>5, <4>1 DEF Owner
      <4>2. CASE n \notin dead
        BY <1>1, <3>2, <3>3, <3>5, <4>2 DEF Owner
      <4> QED  BY <4>1, <4>2
    <3>6. Unlocked(t, threadMu)
      BY <2>2, <3>4, <3>5 DEF Unlocked
    <3> QED  BY <1>k, <2>1, <2>3, <3>6
  <2> QED  BY <2>4, <2>5
<1> QED  BY MutexFrame, <1>2, <1>3, <1>4, <1>5, <1>6

-----------------------------------------------------------------------------
(* The mutexes of waits keep.                                              *)

LEMMA RelockNext ==
  ASSUME NEW x \in Thread, NEW m, call'[x].m = m,
         pc'[x] = "sema" => cs'[m] # Nil,
         pc'[x] \in {"unlock", "waited", "return", "raise"} => Owner(m)' = x
  PROVE  RelockOK(x)'
BY DEF RelockOK, Owner

LEMMA RelocksStep ==
  ASSUME RefInv, NEW t \in Thread, Step(t)
  PROVE  RelocksOK'
<1>1. /\ MutexInv /\ CallsOK /\ TypeOK /\ \A x \in Thread : RelockOK(x) /\ PlaceOK(x)
      /\ \A x \in Thread : CallOK(pc[x], call[x])
  BY DEF RefInv, RelocksOK, PlacesOK, MutexInv, WaitInv, CallsOK
<1>k. Nil \notin Thread /\ Mutex \subseteq Lock /\ threadMu \in Lock
  BY Constants
<1>l. Labs
  BY LabsLemma
<1>m. \A x \in Thread : pc[x] \in {"unlock", "sema", "waited", "return", "raise"} => call[x].m \in Lock
  BY <1>1, <1>k, <1>l DEF CallOK, WaitCall, Labs
<1>2. ASSUME NEW x \in Thread, Stays(x), x # t PROVE RelockOK(x)'
  <2>1. CASE pc[x] \in {"unlock", "sema", "waited", "return", "raise"}
    <3>1. PICK m \in Lock : m = call[x].m
      BY <1>m, <2>1
    <3>2. pc[x] = "sema" => cs'[m] # Nil
      BY <1>1, <3>1, UsedKeeps DEF RelockOK
    <3>3. Owner(m) = x => Owner(m)' = x
      BY <1>2, <1>k, OwnerStep DEF OwnersSame, Unlocked, Locked
    <3> QED  BY <1>1, <1>2, <3>1, <3>2, <3>3, RelockNext DEF Stays, RelockOK
  <2>2. CASE pc[x] \notin {"unlock", "sema", "waited", "return", "raise"}
    BY <1>2, <2>2 DEF Stays, RelockOK
  <2> QED  BY <2>1, <2>2
<1>3. ASSUME NEW x \in Thread, Away(pc'[x], call'[x]) PROVE RelockOK(x)'
  BY <1>3, AwayNext
<1>4. ASSUME NEW r \in CallType, Enters(t, r) PROVE RelocksOK'
  <2>1. Alone(t) /\ pc'[t] = "unlock" /\ call'[t] = r
    BY <1>1, <1>4, EnterMoves
  <2>2. Owner(r.m)' = t
    BY <1>4 DEF Enters, Owner, mutexVars
  <2>3. RelockOK(t)'
    BY <2>1, <2>2, RelockNext
  <2> QED  BY <1>2, <2>1, <2>3 DEF RelocksOK, Alone, Stays
<1>5. CASE InsideStep(t)
  <2>1. Alone(t)
    BY <1>5, InsideMove
  <2>2. PICK m \in Lock : m = call[t].m
    BY <1>5, InsideMove
  <2>3. CASE Away(pc'[t], call'[t])
    BY <1>2, <1>3, <2>1, <2>3 DEF RelocksOK, Alone, Stays
  <2>4. CASE WaitUnlock(t) /\ pc'[t] = "sema" /\ call'[t] = call[t]
    <3>1. cs'[m] # Nil
      <4>1. Owner(m) = t /\ cs' = cs
        BY <1>1, <2>2, <2>4 DEF WaitUnlock, RelockOK, UnlockMutex
      <4> QED  BY <1>k, <4>1 DEF Owner
    <3>2. RelockOK(t)'
      BY <2>2, <2>4, <3>1, RelockNext
    <3> QED  BY <1>2, <2>1, <3>2 DEF RelocksOK, Alone, Stays
  <2>5. CASE SemaWait(t) /\ pc'[t] = "enter" /\ call'[t] = call[t]
    <3>1. RelockOK(t)'
      BY <2>2, <2>5, RelockNext
    <3> QED  BY <1>2, <2>1, <3>1 DEF RelocksOK, Alone, Stays
  <2>6. CASE EnterCSect(t) /\ pc'[t] = "waited" /\ call'[t] = call[t]
    <3>1. Owner(m)' = t
      BY <1>1, <2>2, <2>6, LockOwner DEF Locked
    <3>2. RelockOK(t)'
      BY <2>2, <2>6, <3>1, RelockNext
    <3> QED  BY <1>2, <2>1, <3>2 DEF RelocksOK, Alone, Stays
  <2>7. CASE WaitTest(t) /\ pc[t] = "waited" /\ call'[t] = call[t]
    <3>1. Owner(m)' = t
      BY <1>1, <2>2, <2>7 DEF WaitTest, Owner, RelockOK, mutexVars
    <3>2. RelockOK(t)'
      <4>1. pc'[t] # "sema"
        BY <1>1, <2>7 DEF WaitTest, TypeOK
      <4> QED  BY <2>2, <2>7, <3>1, <4>1, RelockNext
    <3> QED  BY <1>2, <2>1, <3>2 DEF RelocksOK, Alone, Stays
  <2> QED  BY <1>5, <2>3, <2>4, <2>5, <2>6, <2>7, InsideMove
<1>6. CASE Beside(t)
  BY <1>2, <1>3, <1>6 DEF Beside, Outside, RelocksOK
<1> QED  BY <1>4, <1>5, <1>6, WaitCases

-----------------------------------------------------------------------------
(* What a step does to the lists and the alerts.                           *)

Calm == UNCHANGED <<waiters, alertable, alerted, signalled>>

\* t takes an alert of its own, or makes itself alertable for AlertPause.
Consumes(t) ==
  /\ UNCHANGED <<waiters, signalled, mutexVars>>
  /\ \A x \in Thread : x # t => alertable'[x] = alertable[x] /\ alerted'[x] = alerted[x]
  /\ alerted' \in [Thread -> BOOLEAN] /\ (alerted'[t] => alerted[t])

Dequeues(c, W) ==
  /\ Woken(W) /\ signalled' = signalled \cup W /\ alerted' = alerted
  /\ \A x \in W : Contains(waiters[c], x)
  /\ UNCHANGED mutexVars

Alerts(u, W) ==
  /\ Woken(W) /\ (\A x \in W : x = u /\ alertable[x])
  /\ alerted' = [alerted EXCEPT ![u] = TRUE] /\ signalled' = signalled
  /\ UNCHANGED mutexVars

WakeEffect(t) ==
  \/ Calm
  \/ \E r \in CallType : Enters(t, r)
  \/ SemaWait(t) \/ WaitTest(t)
  \/ Beside(t) /\ Consumes(t)
  \/ Beside(t) /\ \E c \in Waitable, W \in SUBSET Thread : Dequeues(c, W)
  \/ Beside(t) /\ \E u \in Thread, W \in SUBSET Thread : Alerts(u, W)

LEMMA EffectStep ==
  ASSUME RefInv, NEW t \in Thread, Step(t)
  PROVE  WakeEffect(t)
<1>1. /\ MutexInv /\ TypeOK /\ CallsOK /\ RolesOK /\ PlacesOK /\ ListsOK /\ AlertableOK
      /\ waiters \in [Waitable -> Seq(Thread)] /\ alerted \in [Thread -> BOOLEAN]
      /\ alertable \in [Thread -> BOOLEAN] /\ cond \in [Thread -> Thread]
  BY DEF RefInv, MutexInv, WaitInv, TypeOK
<1>k. Cond \subseteq Waitable /\ Thread \subseteq Waitable
  BY Constants
<1>l. Labs
  BY LabsLemma
<1>b. ASSUME pc[t] \notin InWait \cup {"enter", "alloc", "new"}, ~SomeWait(t), ~SomeAlertWait(t), ~JoinWaits(t)
      PROVE  Beside(t)
  <2>1. ~InsideStep(t)
    BY <1>b, <1>l DEF InsideStep, WaitUnlock, SemaWait, WaitTest, WaitReturns, EnterCSect, Labs
  <2> QED  BY <1>1, <1>b, <2>1, OutsideStep DEF Beside
\* A step that goes elsewhere enters no wait.
<1>n. ASSUME pc'[t] # "unlock", pc[t] \notin InWait \cup {"enter", "alloc", "new"}
      PROVE  Beside(t)
  <2>1. ~\E r \in CallType : Enters(t, r)
    BY <1>1, <1>n, EnterMoves
  <2>2. ~InsideStep(t)
    BY <1>n, <1>l DEF InsideStep, WaitUnlock, SemaWait, WaitTest, WaitReturns, EnterCSect, Labs
  <2> QED  BY <2>1, <2>2, WaitCases
<1>d. ASSUME NEW c \in Waitable, NEW n \in 0 .. Len(waiters[c]), DequeueHead(c, n),
             UNCHANGED mutexVars, Beside(t)
      PROVE  WakeEffect(t)
  <2>1. PICK W : /\ Woken(W) /\ signalled' = signalled \cup W
                 /\ \A x \in W : Contains(waiters[c], x)
    BY <1>1, <1>d, DequeueLemma
  <2>2. alerted' = alerted /\ W \in SUBSET Thread
    BY <1>d, <2>1 DEF DequeueHead, Woken
  <2>3. Dequeues(c, W)
    BY <1>d, <2>1, <2>2 DEF Dequeues
  <2> QED  BY <1>d, <2>2, <2>3 DEF WakeEffect
<1>2. CASE UNCHANGED waitVars
  BY <1>2 DEF waitVars, Calm, WakeEffect
<1>3. CASE SomeWait(t) \/ SomeAlertWait(t) \/ JoinWaits(t)
  <2>1. CASE \E r \in CallType : Enters(t, r)
    BY <2>1 DEF WakeEffect
  <2>2. CASE RaisesAtOnce(t)
    <3>1. Consumes(t)
      BY <1>1, <2>2 DEF RaisesAtOnce, Consumes
    <3>2. Beside(t)
      BY <2>2 DEF RaisesAtOnce, Beside, Outside, Stays, Alone
    <3> QED  BY <3>1, <3>2 DEF WakeEffect
  <2> QED  BY <1>1, <1>3, <2>1, <2>2, EnterCases
<1>4. CASE SomeSignal(t) \/ SomeBroadcast(t)
  <2>1. PICK c \in Waitable : Signal(t, c) \/ Broadcast(t, c)
    BY <1>4, <1>k DEF SomeSignal, SomeBroadcast
  <2>2. PICK n \in 0 .. Len(waiters[c]) : DequeueHead(c, n)
    <3>1. waiters[c] \in Seq(Thread) /\ waiters[c] # <<>>
      BY <1>1, <2>1 DEF Signal, Broadcast
    <3>2. Len(waiters[c]) \in Nat /\ Len(waiters[c]) # 0
      BY <3>1, LenProperties, EmptySeq
    <3>3. 1 \in 0 .. Len(waiters[c]) /\ Len(waiters[c]) \in 0 .. Len(waiters[c])
      BY <3>2, SMT
    <3> QED  BY <2>1, <3>3 DEF Signal, Broadcast
  <2>3. UNCHANGED mutexVars /\ pc[t] = "run" /\ pc' = pc
    BY <2>1 DEF Signal, Broadcast, Client, callVars
  <2>4. Beside(t)
    BY <1>l, <1>n, <2>3 DEF Labs
  <2> QED  BY <1>d, <2>2, <2>3, <2>4
<1>5. CASE BroadcastEnd(t)
  <2>1. PICK c \in Waitable : c = cond[t]
    BY <1>1, <1>k
  <2>2. DequeueHead(c, Len(waiters[c])) /\ UNCHANGED mutexVars /\ pc[t] = "bcast"
    BY <1>5, <2>1 DEF BroadcastEnd
  <2>3. Len(waiters[c]) \in 0 .. Len(waiters[c])
    <3>1. Len(waiters[c]) \in Nat
      BY <1>1, LenProperties
    <3> QED  BY <3>1, SMT
  <2>4. Beside(t)
    <3>1. ~SomeWait(t) /\ ~SomeAlertWait(t) /\ ~JoinWaits(t)
      BY <2>2 DEF SomeWait, SomeAlertWait, Wait, AlertWait, Client, JoinWaits
    <3> QED  BY <1>b, <1>l, <2>2, <3>1 DEF Labs
  <2> QED  BY <1>d, <2>2, <2>3, <2>4
<1>6. CASE SomeAlert(t)
  <2>1. PICK u \in Thread : Alert(t, u)
    BY <1>6 DEF SomeAlert
  <2>2. PICK W : Woken(W) /\ \A x \in W : x = u /\ alertable[x]
    BY <1>1, <2>1, AlertLemma
  <2>3. /\ alerted' = [alerted EXCEPT ![u] = TRUE] /\ signalled' = signalled
        /\ UNCHANGED mutexVars /\ pc[t] = "run" /\ pc' = pc
    BY <2>1 DEF Alert, Client, callVars
  <2>4. Alerts(u, W) /\ W \in SUBSET Thread
    BY <2>2, <2>3 DEF Alerts, Woken
  <2>5. Beside(t)
    BY <1>l, <1>n, <2>3 DEF Labs
  <2> QED  BY <2>4, <2>5 DEF WakeEffect
<1>7. CASE TestAlert(t) \/ AlertPause(t) \/ PauseAgain(t) \/ PauseEnds(t)
  <2>1. Consumes(t)
    BY <1>1, <1>7 DEF TestAlert, AlertPause, PauseAgain, PauseTurn, PauseEnds, Consumes
  <2>2. /\ pc[t] \in {"run", "pause", "paused"} /\ pc'[t] # "unlock"
    BY <1>1, <1>7 DEF TestAlert, AlertPause, PauseAgain, PauseTurn, PauseEnds, Client,
       callVars, TypeOK
  <2>3. Beside(t)
    BY <1>l, <1>n, <2>2 DEF Labs
  <2> QED  BY <2>1, <2>3 DEF WakeEffect
<1>8. CASE SemaWait(t) \/ WaitTest(t)
  BY <1>8 DEF WakeEffect
<1>9. CASE PauseWakes(t) \/ Rouse(t) \/ Reborn(t)
  BY <1>9 DEF PauseWakes, Rouse, Reborn, Calm, WakeEffect
<1> QED
  BY WaitFrame, <1>2, <1>3, <1>4, <1>5, <1>6, <1>7, <1>8, <1>9

-----------------------------------------------------------------------------
(* Who waits stays waiting until it is woken.                              *)

LEMMA WaitingAt ==
  ASSUME NEW x \in Thread
  PROVE  /\ Waiting(x) <=> \/ Blocked(x) \/ pc[x] = "waited"
                           \/ pc[x] = "enter" /\ call[x].c # Nil /\ call[x].alert
         /\ Blocked(x) => Waiting(x) /\ InInnerWait(x)
BY LabsLemma DEF Waiting, Phase, InInnerWait, Blocked, Labs

LEMMA WaitingNext ==
  ASSUME NEW x \in Thread
  PROVE  /\ Waiting(x)' <=> \/ Blocked(x)' \/ pc'[x] = "waited"
                            \/ pc'[x] = "enter" /\ call'[x].c # Nil /\ call'[x].alert
         /\ Away(pc'[x], call'[x]) => ~Waiting(x)' /\ ~Blocked(x)'
BY LabsLemma DEF Waiting, Phase, InInnerWait, Blocked, Labs, Away

\* Who is in a list is blocked, in the list of its condition; who is not in a
\* wait was not signalled.
LEMMA ListedLemma ==
  ASSUME RefInv, NEW x \in Thread
  PROVE  /\ Waits(x) => Blocked(x)
         /\ \A d \in Waitable : Contains(waiters[d], x) => Waits(x) /\ call[x].c = d
         /\ Away(pc[x], call[x]) => x \notin signalled /\ ~Waits(x) /\ ~Waiting(x)
<1>1. ListsOK /\ WakeOK(x)
  BY DEF RefInv, MutexInv, WaitInv, WakesOK
<1>2. Waits(x) => Blocked(x)
  BY <1>1 DEF ListsOK, Waits
<1>3. \A d \in Waitable : Contains(waiters[d], x) => Waits(x) /\ call[x].c = d
  BY <1>1 DEF ListsOK, Waits
<1>4. Away(pc[x], call[x]) => ~Blocked(x) /\ Phase(x) = "client"
  BY AwayLemma
<1> QED  BY <1>1, <1>2, <1>3, <1>4 DEF WakeOK, Waiting

\* Who enters a wait is pushed on the list of its condition.
LEMMA PushedLemma ==
  ASSUME RefInv, NEW t \in Thread, NEW r \in CallType, Enters(t, r)
  PROVE  /\ r.c \in Waitable /\ UNCHANGED <<alerted, signalled>>
         /\ \A d \in Waitable, x \in Thread :
              Contains(waiters'[d], x) <=> Contains(waiters[d], x) \/ (d = r.c /\ x = t)
         /\ \A x \in Thread : Waits(x)' <=> Waits(x) \/ x = t
<1>1. waiters \in [Waitable -> Seq(Thread)]
  BY DEF RefInv, MutexInv, WaitInv, TypeOK
<1>2. PICK c \in Waitable : c = r.c
  BY CallLemma DEF Enters, WaitCall
<1>3. waiters' = [waiters EXCEPT ![c] = <<t>> \o waiters[c]] /\ UNCHANGED <<alerted, signalled>>
  BY <1>2 DEF Enters, InnerWait
<1>4. \A x : Contains(<<t>> \o waiters[c], x) <=> x = t \/ Contains(waiters[c], x)
  BY <1>1, PushLemma
<1>5. \A d \in Waitable : waiters'[d] = IF d = c THEN <<t>> \o waiters[c] ELSE waiters[d]
  BY <1>1, <1>3
<1>6. \A d \in Waitable, x \in Thread :
        Contains(waiters'[d], x) <=> Contains(waiters[d], x) \/ (d = c /\ x = t)
  BY <1>4, <1>5
<1>7. \A x \in Thread : Waits(x)' <=> Waits(x) \/ x = t
  BY <1>6 DEF Waits
<1> QED  BY <1>2, <1>3, <1>6, <1>7

\* The woken are taken off the lists.
LEMMA WokenWaits ==
  ASSUME NEW W, Woken(W), NEW x \in Thread
  PROVE  Waits(x)' <=> Waits(x) /\ x \notin W
BY DEF Waits, Woken

\* The semaphore of a thread in a wait is that of its wake.
LEMMA SemaTaken ==
  ASSUME RefInv, NEW t \in Thread, SemaWait(t)
  PROVE  ~Waits(t)
<1>1. SemaphoreOK(t) /\ pc[t] = "sema" /\ sema[waitSema[t]] = 1
  BY DEF RefInv, MutexInv, WaitInv, SemaphoresOK, SemaWait
<1>2. ~Pausing(t) /\ ~HandedOut(t) /\ ~Past(t)
  BY <1>1 DEF Pausing, HandedOut, Past, Left
<1> QED  BY <1>1, <1>2 DEF SemaphoreOK

LEMMA WakesStep ==
  ASSUME RefInv, NEW t \in Thread, Step(t)
  PROVE  WakesOK'
<1>1. /\ \A x \in Thread : WakeOK(x) /\ PlaceOK(x)
      /\ TypeOK /\ AlertableOK /\ alerted \in [Thread -> BOOLEAN]
      /\ alertable \in [Thread -> BOOLEAN]
  BY DEF RefInv, MutexInv, WaitInv, WakesOK, PlacesOK, TypeOK
<1>l. Labs
  BY LabsLemma
<1>w. Calm => \A x \in Thread : Waits(x)' <=> Waits(x)
  BY DEF Calm, Waits
<1> SUFFICES ASSUME NEW x \in Thread PROVE WakeOK(x)'
  BY DEF WakesOK
\* x is away before and after, or stays away.
<1>2. ASSUME Outside(x), x \notin signalled' PROVE WakeOK(x)'
  BY <1>2, WaitingNext DEF Outside, WakeOK
\* x stays, and nothing happens to it.
<1>3. ASSUME Stays(x), Waits(x)' <=> Waits(x), x \in signalled' <=> x \in signalled,
             Waiting(x) => alertable'[x] = alertable[x] /\ alerted'[x] = alerted[x]
      PROVE  WakeOK(x)'
  <2>1. (Waiting(x)' <=> Waiting(x)) /\ (Blocked(x)' <=> Blocked(x))
    BY <1>3 DEF Stays, Waiting, Phase, InInnerWait, Blocked
  <2>2. Blocked(x) => Waiting(x)
    BY WaitingAt
  <2> QED  BY <1>1, <1>3, <2>1, <2>2 DEF Stays, WakeOK
<1>4. ASSUME NEW r \in CallType, Enters(t, r) PROVE WakeOK(x)'
  <2>1. /\ Alone(t) /\ pc'[t] = "unlock" /\ call'[t] = r
    BY <1>1, <1>4, EnterMoves
  <2>2. /\ UNCHANGED <<alerted, signalled>>
        /\ \A y \in Thread : Waits(y)' <=> Waits(y) \/ y = t
    BY <1>4, PushedLemma
  <2>3. /\ Away(pc[t], call[t]) /\ pc[t] \in {"run", "join"}
        /\ IF r.alert THEN ~alerted[t] /\ alertable' = [alertable EXCEPT ![t] = TRUE]
           ELSE UNCHANGED alertable
    BY <1>4 DEF Enters
  <2>4. CASE x # t
    <3>1. alertable'[x] = alertable[x] /\ alerted'[x] = alerted[x]
      BY <1>1, <2>2, <2>3, <2>4
    <3> QED  BY <1>3, <2>1, <2>2, <2>4, <3>1 DEF Alone, Stays
  <2>5. CASE x = t
    <3>1. t \notin signalled
      BY <2>3, ListedLemma
    <3>2. alertable'[t] => r.alert
      <4>1. ~alertable[t]
        BY <1>1, <2>3 DEF AlertableOK, Blocked, Pausing
      <4> QED  BY <2>3, <4>1
    <3> QED  BY <2>1, <2>2, <2>5, <3>1, <3>2 DEF WakeOK
  <2> QED  BY <2>4, <2>5
<1>5. ASSUME Beside(t), Consumes(t) PROVE WakeOK(x)'
  <2>1. Waits(x)' <=> Waits(x)
    BY <1>5 DEF Consumes, Waits
  <2>2. CASE Outside(x)
    BY <1>2, <1>5, <2>2, ListedLemma DEF Outside, Consumes
  <2>3. CASE Stays(x) /\ ~Outside(x)
    <3>1. x # t
      BY <1>5, <2>3 DEF Beside
    <3> QED  BY <1>3, <1>5, <2>1, <2>3, <3>1 DEF Consumes
  <2> QED  BY <1>5, <2>2, <2>3 DEF Beside
<1>6. ASSUME Beside(t), NEW c \in Waitable, NEW W \in SUBSET Thread, Dequeues(c, W)
      PROVE  WakeOK(x)'
  <2>1. Waits(x)' <=> Waits(x) /\ x \notin W
    BY <1>6, WokenWaits DEF Dequeues
  <2>2. x \in W => Waits(x) /\ Blocked(x)
    BY <1>6, ListedLemma DEF Dequeues
  <2>3. /\ signalled' = signalled \cup W /\ alerted' = alerted
        /\ alertable'[x] <=> alertable[x] /\ x \notin W
        /\ alertable'[x] \in BOOLEAN => x \in W \/ alertable'[x] = alertable[x]
    BY <1>1, <1>6 DEF Dequeues, Woken
  <2>4. CASE Outside(x)
    <3>1. x \notin W
      BY <2>2, <2>4, AwayLemma DEF Outside
    <3> QED  BY <1>2, <2>3, <2>4, <3>1, ListedLemma DEF Outside
  <2>5. CASE Stays(x)
    <3>1. (Waiting(x)' <=> Waiting(x)) /\ (Blocked(x)' <=> Blocked(x))
      BY <2>5 DEF Stays, Waiting, Phase, InInnerWait, Blocked
    <3>2. Blocked(x) => Waiting(x)
      BY WaitingAt
    <3> QED  BY <1>1, <2>1, <2>2, <2>3, <2>5, <3>1, <3>2 DEF Stays, WakeOK
  <2> QED  BY <1>6, <2>4, <2>5 DEF Beside
<1>7. ASSUME Beside(t), NEW u \in Thread, NEW W \in SUBSET Thread, Alerts(u, W)
      PROVE  WakeOK(x)'
  <2>1. Waits(x)' <=> Waits(x) /\ x \notin W
    BY <1>7, WokenWaits DEF Alerts
  <2>2. x \in W => x = u /\ alertable[x]
    BY <1>7 DEF Alerts
  <2>3. /\ signalled' = signalled /\ (alerted[x] => alerted'[x]) /\ alerted'[u]
        /\ alertable'[x] <=> alertable[x] /\ x \notin W
    BY <1>1, <1>7 DEF Alerts, Woken
  <2>4. CASE Outside(x)
    BY <1>2, <2>3, <2>4, ListedLemma DEF Outside
  <2>5. CASE Stays(x)
    <3>1. (Waiting(x)' <=> Waiting(x)) /\ (Blocked(x)' <=> Blocked(x))
      BY <2>5 DEF Stays, Waiting, Phase, InInnerWait, Blocked
    <3>2. Blocked(x) => Waiting(x)
      BY WaitingAt
    <3>3. Waits(x) => Blocked(x)
      BY ListedLemma
    <3> QED  BY <1>1, <2>1, <2>2, <2>3, <2>5, <3>1, <3>2, <3>3 DEF Stays, WakeOK
  <2> QED  BY <1>7, <2>4, <2>5 DEF Beside
<1>8. CASE SemaWait(t)
  <2>1. InsideStep(t) /\ Alone(t) /\ pc[t] = "sema" /\ pc'[t] = "enter" /\ call'[t] = call[t]
    BY <1>8, InsideMove DEF InsideStep, SemaWait, WaitUnlock, EnterCSect, WaitTest, WaitReturns
  <2>2. /\ UNCHANGED <<waiters, alertable, alerted>>
        /\ signalled' = IF call[t].alert THEN signalled ELSE signalled \ {t}
    BY <1>8 DEF SemaWait
  <2>3. Waits(x)' <=> Waits(x)
    BY <2>2 DEF Waits
  <2>4. CASE x # t
    BY <1>3, <2>1, <2>2, <2>3, <2>4 DEF Alone, Stays
  <2>5. CASE x = t
    <3>1. ~Waits(t) /\ Waiting(t) /\ ~Blocked(t)'
      BY <1>8, <2>1, SemaTaken, WaitingAt DEF Blocked
    <3>2. Waiting(t)' <=> call[t].alert
      <4>1. call[t].c # Nil
        BY <2>1, InsideMove DEF WaitCall
      <4> QED  BY <2>1, <3>1, <4>1, WaitingNext
    <3> QED  BY <1>1, <2>1, <2>2, <2>3, <2>5, <3>1, <3>2 DEF WakeOK
  <2> QED  BY <2>4, <2>5
<1>9. CASE WaitTest(t)
  <2>1. InsideStep(t) /\ Alone(t) /\ pc[t] = "waited" /\ pc'[t] \in {"return", "raise"}
    BY <1>1, <1>9, InsideMove DEF InsideStep, WaitTest, TypeOK
  <2>2. /\ UNCHANGED <<waiters, alertable>> /\ signalled' = signalled \ {t}
        /\ \A y \in Thread : y # t => alerted'[y] = alerted[y]
    BY <1>1, <1>9 DEF WaitTest
  <2>3. CASE x # t
    <3>1. Waits(x)' <=> Waits(x)
      BY <2>2 DEF Waits
    <3> QED  BY <1>3, <2>1, <2>2, <2>3, <3>1 DEF Alone, Stays
  <2>4. CASE x = t
    <3>1. ~Waiting(t)' /\ ~Blocked(t)' /\ t \notin signalled'
      BY <2>1, <2>2, WaitingNext DEF Blocked
    <3> QED  BY <2>4, <3>1 DEF WakeOK
  <2> QED  BY <2>3, <2>4
<1>10. ASSUME Calm, ~SemaWait(t), ~WaitTest(t), ~\E r \in CallType : Enters(t, r)
       PROVE  WakeOK(x)'
  <2>1. CASE Outside(x)
    BY <1>2, <1>10, <2>1, ListedLemma DEF Outside, Calm
  <2>2. CASE Stays(x)
    BY <1>3, <1>10, <1>w, <2>2 DEF Calm
  <2>3. CASE InsideStep(t) /\ x = t
    <3>1. CASE pc[t] = "unlock" /\ pc'[t] = "sema" /\ call'[t] = call[t]
      <4>1. Waiting(t) /\ Waiting(t)' /\ Blocked(t)
        BY <3>1, WaitingAt, WaitingNext DEF Blocked
      <4> QED  BY <1>1, <1>10, <1>w, <2>3, <3>1, <4>1 DEF Calm, WakeOK
    <3>2. CASE /\ pc[t] = "enter" /\ call[t].c # Nil /\ call[t].alert
               /\ pc'[t] = "waited" /\ call'[t] = call[t]
      <4>1. Waiting(t) /\ Waiting(t)' /\ ~Blocked(t)'
        BY <3>2, WaitingAt, WaitingNext DEF Blocked
      <4> QED  BY <1>1, <1>10, <1>w, <2>3, <3>2, <4>1 DEF Calm, WakeOK
    <3>3. CASE /\ Away(pc'[t], call'[t])
               /\ \/ pc[t] \in {"return", "raise"}
                  \/ pc[t] = "enter" /\ ~call[t].alert
      <4>1. ~Waiting(t) /\ ~Waiting(t)' /\ ~Blocked(t)'
        BY <3>3, WaitingAt, WaitingNext DEF Blocked
      <4>2. t \notin signalled'
        BY <1>1, <1>10, <4>1 DEF Calm, WakeOK
      <4> QED  BY <2>3, <4>1, <4>2 DEF WakeOK
    <3> QED  BY <1>10, <2>3, <3>1, <3>2, <3>3, InsideMove
  <2>4. Outside(x) \/ Stays(x) \/ (InsideStep(t) /\ x = t)
    BY <1>10, WaitCases, InsideMove DEF Beside, Alone, Stays
  <2> QED  BY <2>1, <2>2, <2>3, <2>4
<1> QED  BY <1>4, <1>5, <1>6, <1>7, <1>8, <1>9, <1>10, EffectStep DEF WakeEffect

-----------------------------------------------------------------------------
(* The steps of ThreadSpec, on the mapped variables.                       *)

pendingBar == {t \in Thread : alerted[t]}

LEMMA SpecAcquire ==
  ASSUME NEW t \in Thread, NEW m \in Lock, phaseBar[t] = "client",
         holderBar[m] = Nil, holderBar' = [holderBar EXCEPT ![m] = t],
         waitingBar' = waitingBar, pendingBar' = pendingBar,
         phaseBar' = phaseBar, onBar' = onBar
  PROVE  Larch!Next
BY DEF Larch!Next, Larch!Step, Larch!Acquire, pendingBar

LEMMA SpecRelease ==
  ASSUME NEW t \in Thread, NEW m \in Lock, phaseBar[t] = "client",
         holderBar[m] = t, holderBar' = [holderBar EXCEPT ![m] = Nil],
         waitingBar' = waitingBar, pendingBar' = pendingBar,
         phaseBar' = phaseBar, onBar' = onBar
  PROVE  Larch!Next
BY DEF Larch!Next, Larch!Step, Larch!Release, pendingBar

LEMMA SpecEnqueue ==
  ASSUME NEW t \in Thread, NEW m \in Lock, NEW c \in Waitable,
         NEW p \in {"wait", "alertWait"}, phaseBar[t] = "client",
         holderBar[m] = t, holderBar' = [holderBar EXCEPT ![m] = Nil],
         waitingBar' = [waitingBar EXCEPT ![c] = @ \cup {t}],
         pendingBar' = pendingBar,
         phaseBar' = [phaseBar EXCEPT ![t] = p],
         onBar' = [onBar EXCEPT ![t] = m]
  PROVE  Larch!Next
BY DEF Larch!Next, Larch!Step, Larch!Enqueue, pendingBar

LEMMA SpecSignal ==
  ASSUME NEW c \in Waitable, NEW left \in SUBSET waitingBar[c],
         left # waitingBar[c], waitingBar' = [waitingBar EXCEPT ![c] = left],
         holderBar' = holderBar, pendingBar' = pendingBar,
         phaseBar' = phaseBar, onBar' = onBar
  PROVE  Larch!Next
BY DEF Larch!Next, Larch!Signal, pendingBar

LEMMA SpecChooseSignal ==
  ASSUME NEW t \in Thread, phaseBar[t] \in {"wait", "alertWait"},
         \A c \in Waitable : t \notin waitingBar[c],
         phaseBar' = [phaseBar EXCEPT ![t] = "returns"],
         holderBar' = holderBar, waitingBar' = waitingBar,
         pendingBar' = pendingBar, onBar' = onBar
  PROVE  Larch!Next
BY DEF Larch!Next, Larch!Step, Larch!ChooseSignal, Larch!Waits, pendingBar

LEMMA SpecChooseAlert ==
  ASSUME NEW t \in Thread, phaseBar[t] = "alertWait", t \in pendingBar,
         phaseBar' = [phaseBar EXCEPT ![t] = "raises"],
         waitingBar' = [c \in Waitable |-> waitingBar[c] \ {t}],
         pendingBar' = pendingBar \ {t},
         holderBar' = holderBar, onBar' = onBar
  PROVE  Larch!Next
BY DEF Larch!Next, Larch!Step, Larch!ChooseAlert, pendingBar

LEMMA SpecResume ==
  ASSUME NEW t \in Thread, phaseBar[t] \in {"returns", "raises"},
         holderBar[onBar[t]] = Nil,
         holderBar' = [holderBar EXCEPT ![onBar[t]] = t],
         phaseBar' = [phaseBar EXCEPT ![t] = "client"],
         onBar' = [onBar EXCEPT ![t] = Nil],
         waitingBar' = waitingBar, pendingBar' = pendingBar
  PROVE  Larch!Next
BY DEF Larch!Next, Larch!Step, Larch!Resume, pendingBar

LEMMA SpecAlert ==
  ASSUME NEW t \in Thread, pendingBar' = pendingBar \cup {t},
         holderBar' = holderBar, waitingBar' = waitingBar,
         phaseBar' = phaseBar, onBar' = onBar
  PROVE  Larch!Next
BY DEF Larch!Next, Larch!Step, Larch!Alert, pendingBar

LEMMA SpecConsume ==
  ASSUME NEW t \in Thread, phaseBar[t] = "client", t \in pendingBar,
         pendingBar' = pendingBar \ {t},
         holderBar' = holderBar, waitingBar' = waitingBar,
         phaseBar' = phaseBar, onBar' = onBar
  PROVE  Larch!Next
BY DEF Larch!Next, Larch!Step, Larch!Consume, pendingBar

SpecStutters ==
  /\ holderBar' = holderBar /\ waitingBar' = waitingBar
  /\ pendingBar' = pendingBar /\ phaseBar' = phaseBar /\ onBar' = onBar

SpecStep == Larch!Next \/ SpecStutters

-----------------------------------------------------------------------------
(* The mapped variables after a step.                                      *)

\* In a wait on m, which hides that t has it.
Hides(t, m) == InInnerWait(t) /\ call[t].m = m

LEMMA HolderAt ==
  ASSUME NEW m \in Lock, NEW o, Owner(m) = o
  PROVE  holderBar[m] = IF o # Nil /\ Hides(o, m) THEN Nil ELSE o
BY DEF holderBar, Owner, Hides

LEMMA HolderNext ==
  ASSUME NEW m \in Lock, NEW o, Owner(m)' = o
  PROVE  holderBar'[m] = IF o # Nil /\ Hides(o, m)' THEN Nil ELSE o
BY DEF holderBar, Owner, Hides, InInnerWait

\* Who has m neither enters nor leaves a wait on it.
LEMMA HolderSame ==
  ASSUME MutexInv, NEW m \in Lock, Owner(m)' = Owner(m),
         \A x \in Thread : Owner(m) = x => (Hides(x, m)' <=> Hides(x, m))
  PROVE  holderBar'[m] = holderBar[m]
<1>1. Owner(m) \in Thread \cup {Nil}
  BY DEF MutexInv, WaitInv, TypeOK, Owner
<1>2. PICK o \in Thread \cup {Nil} : o = Owner(m)
  BY <1>1
<1>3. Owner(m)' = o
  BY <1>2
<1> QED  BY <1>2, <1>3, HolderAt, HolderNext

LEMMA HolderIs ==
  /\ holderBar = [m \in Lock |-> holderBar[m]]
  /\ holderBar' = [m \in Lock |-> holderBar'[m]]
BY DEF holderBar

LEMMA WaitingIs ==
  /\ waitingBar = [c \in Waitable |->
       {x \in Thread : Waiting(x) /\ x \notin signalled /\ call[x].c = c}]
  /\ waitingBar' = [c \in Waitable |->
       {x \in Thread : Waiting(x)' /\ x \notin signalled' /\ call'[x].c = c}]
<1>1. waitingBar = [c \in Waitable |->
        {x \in Thread : Waiting(x) /\ x \notin signalled /\ call[x].c = c}]
  BY DEF waitingBar, Waiting
<1>2. waitingBar' = [c \in Waitable |->
        {x \in Thread : Waiting(x)' /\ x \notin signalled' /\ call'[x].c = c}]
  BY DEF waitingBar, Waiting
<1> QED  BY <1>1, <1>2

LEMMA PhaseAt ==
  ASSUME NEW x \in Thread
  PROVE  /\ phaseBar[x] = Phase(x)
         /\ onBar[x] = IF InInnerWait(x) THEN call[x].m ELSE Nil
         /\ ~InInnerWait(x) => Phase(x) = "client"
         /\ Waiting(x) => InInnerWait(x)
BY DEF phaseBar, onBar, Phase, Waiting

\* What t alone does shows at t alone.
LEMMA AloneBars ==
  ASSUME NEW t \in Thread, Alone(t)
  PROVE  /\ phaseBar' = [phaseBar EXCEPT ![t] = Phase(t)']
         /\ onBar' = [onBar EXCEPT ![t] = IF InInnerWait(t)' THEN call'[t].m ELSE Nil]
         /\ \A x \in Thread : x # t =>
              /\ call'[x] = call[x] /\ (Waiting(x)' <=> Waiting(x))
              /\ \A m : Hides(x, m)' <=> Hides(x, m)
<1>1. ASSUME NEW x \in Thread, x # t
      PROVE  /\ call'[x] = call[x] /\ (InInnerWait(x)' <=> InInnerWait(x))
             /\ Phase(x)' = Phase(x)
  BY <1>1 DEF Alone, InInnerWait, Phase
<1>2. \A x \in Thread : x # t => (Waiting(x)' <=> Waiting(x))
  BY <1>1 DEF Waiting
<1>3. \A x \in Thread : x # t => \A m : Hides(x, m)' <=> Hides(x, m)
  BY <1>1 DEF Hides
<1>4. phaseBar' = [phaseBar EXCEPT ![t] = Phase(t)']
  <2>1. phaseBar' = [x \in Thread |-> Phase(x)'] /\ phaseBar = [x \in Thread |-> Phase(x)]
    BY DEF phaseBar
  <2> QED  BY <1>1, <2>1
<1>5. onBar' = [onBar EXCEPT ![t] = IF InInnerWait(t)' THEN call'[t].m ELSE Nil]
  <2>1. /\ onBar' = [x \in Thread |-> IF InInnerWait(x)' THEN call'[x].m ELSE Nil]
        /\ onBar = [x \in Thread |-> IF InInnerWait(x) THEN call[x].m ELSE Nil]
    BY DEF onBar
  <2> QED  BY <1>1, <2>1
<1> QED  BY <1>1, <1>2, <1>3, <1>4, <1>5

\* A step beside all waits shows in no phase.
LEMMA BesideBars ==
  ASSUME NEW t \in Thread, Beside(t)
  PROVE  /\ phaseBar' = phaseBar /\ onBar' = onBar
         /\ \A x \in Thread : /\ Waiting(x)' <=> Waiting(x)
                              /\ Waiting(x) => call'[x].c = call[x].c
                              /\ \A m : Hides(x, m)' <=> Hides(x, m)
         /\ phaseBar[t] = "client" /\ ~InInnerWait(t) /\ ~InInnerWait(t)'
<1>1. ASSUME NEW x \in Thread
      PROVE  /\ Phase(x)' = Phase(x) /\ (InInnerWait(x)' <=> InInnerWait(x))
             /\ InInnerWait(x) => call'[x] = call[x]
  <2>1. CASE Stays(x)
    BY <2>1 DEF Stays, InInnerWait, Phase
  <2>2. CASE Outside(x)
    BY <2>2, AwayLemma, AwayNext DEF Outside
  <2> QED  BY <2>1, <2>2 DEF Beside
<1>2. phaseBar' = phaseBar
  <2>1. phaseBar' = [x \in Thread |-> Phase(x)'] /\ phaseBar = [x \in Thread |-> Phase(x)]
    BY DEF phaseBar
  <2> QED  BY <1>1, <2>1
<1>3. onBar' = onBar
  <2>1. /\ onBar' = [x \in Thread |-> IF InInnerWait(x)' THEN call'[x].m ELSE Nil]
        /\ onBar = [x \in Thread |-> IF InInnerWait(x) THEN call[x].m ELSE Nil]
    BY DEF onBar
  <2> QED  BY <1>1, <2>1
<1>4. \A x \in Thread : (Waiting(x)' <=> Waiting(x)) /\ (Waiting(x) => InInnerWait(x))
  BY <1>1, PhaseAt DEF Waiting
<1>5. \A x \in Thread : \A m : Hides(x, m)' <=> Hides(x, m)
  BY <1>1 DEF Hides
<1>6. phaseBar[t] = "client" /\ ~InInnerWait(t) /\ ~InInnerWait(t)'
  BY AwayLemma, AwayNext, PhaseAt DEF Beside, Outside
<1> QED  BY <1>1, <1>2, <1>3, <1>4, <1>5, <1>6

-----------------------------------------------------------------------------
(* Each step is one of ThreadSpec, or does not show.                       *)

\* A step of t that gives the mutex m to o, or takes it when o is Nil.
LEMMA HolderGiven ==
  ASSUME MutexInv, NEW m \in Lock, NEW o,
         \A n \in Lock : n # m =>
           /\ Owner(n)' = Owner(n)
           /\ \A x \in Thread : Owner(n) = x => (Hides(x, n)' <=> Hides(x, n)),
         holderBar'[m] = o
  PROVE  holderBar' = [holderBar EXCEPT ![m] = o]
<1>1. \A n \in Lock : n # m => holderBar'[n] = holderBar[n]
  BY HolderSame
<1> QED  BY <1>1, HolderIs

LEMMA HolderKept ==
  ASSUME MutexInv,
         \A n \in Lock :
           /\ Owner(n)' = Owner(n)
           /\ \A x \in Thread : Owner(n) = x => (Hides(x, n)' <=> Hides(x, n))
  PROVE  holderBar' = holderBar
<1>1. \A n \in Lock : holderBar'[n] = holderBar[n]
  BY HolderSame
<1> QED  BY <1>1, HolderIs

\* A mutex that its holder unlocks, or locks, outside of waits.
LEMMA ShowRelease ==
  ASSUME RefInv, NEW t \in Thread, Beside(t), UNCHANGED waitVars,
         NEW m \in Lock, Unlocked(t, m)
  PROVE  Larch!Next
<1>1. MutexInv /\ Nil \notin Thread
  BY Constants DEF RefInv
<1>2. /\ phaseBar' = phaseBar /\ onBar' = onBar
      /\ \A x \in Thread : /\ Waiting(x)' <=> Waiting(x)
                           /\ Waiting(x) => call'[x].c = call[x].c
                           /\ \A n : Hides(x, n)' <=> Hides(x, n)
      /\ phaseBar[t] = "client" /\ ~InInnerWait(t) /\ ~InInnerWait(t)'
  BY BesideBars
<1>3. holderBar[m] = t
  BY <1>1, <1>2, HolderAt DEF Unlocked, Hides
<1>4. holderBar'[m] = Nil
  BY HolderNext DEF Unlocked
<1>5. holderBar' = [holderBar EXCEPT ![m] = Nil]
  BY <1>1, <1>2, <1>4, HolderGiven DEF Unlocked
<1>6. waitingBar' = waitingBar /\ pendingBar' = pendingBar
  BY <1>2, WaitingIs DEF waitVars, pendingBar
<1> QED  BY <1>2, <1>3, <1>5, <1>6, SpecRelease

LEMMA ShowAcquire ==
  ASSUME RefInv, NEW t \in Thread, Beside(t), UNCHANGED waitVars,
         NEW m \in Lock, Locked(t, m)
  PROVE  Larch!Next
<1>1. MutexInv /\ Nil \notin Thread
  BY Constants DEF RefInv
<1>2. /\ phaseBar' = phaseBar /\ onBar' = onBar
      /\ \A x \in Thread : /\ Waiting(x)' <=> Waiting(x)
                           /\ Waiting(x) => call'[x].c = call[x].c
                           /\ \A n : Hides(x, n)' <=> Hides(x, n)
      /\ phaseBar[t] = "client" /\ ~InInnerWait(t) /\ ~InInnerWait(t)'
  BY BesideBars
<1>3. holderBar[m] = Nil
  BY HolderAt DEF Locked
<1>4. holderBar'[m] = t
  <2>1. Owner(m)' = t /\ ~Hides(t, m)'
    BY <1>2 DEF Locked, Hides
  <2> QED  BY <2>1, HolderNext
<1>5. holderBar' = [holderBar EXCEPT ![m] = t]
  BY <1>1, <1>2, <1>4, HolderGiven DEF Locked
<1>6. waitingBar' = waitingBar /\ pendingBar' = pendingBar
  BY <1>2, WaitingIs DEF waitVars, pendingBar
<1> QED  BY <1>2, <1>3, <1>5, <1>6, SpecAcquire

\* A step beside all waits that locks and unlocks nothing.
LEMMA ShowBeside ==
  ASSUME RefInv, NEW t \in Thread, Step(t), Beside(t), OwnersSame
  PROVE  SpecStep
<1>1. MutexInv /\ Nil \notin Thread
  BY Constants DEF RefInv
<1>t. alerted \in [Thread -> BOOLEAN] /\ alertable \in [Thread -> BOOLEAN] /\ TypeOK
  BY DEF RefInv, MutexInv, WaitInv, TypeOK
<1>2. /\ phaseBar' = phaseBar /\ onBar' = onBar
      /\ \A x \in Thread : /\ Waiting(x)' <=> Waiting(x)
                           /\ Waiting(x) => call'[x].c = call[x].c
                           /\ \A n : Hides(x, n)' <=> Hides(x, n)
      /\ phaseBar[t] = "client" /\ ~InInnerWait(t) /\ ~InInnerWait(t)'
  BY BesideBars
<1>3. holderBar' = holderBar
  BY <1>1, <1>2, HolderKept DEF OwnersSame
<1>w. signalled' = signalled => waitingBar' = waitingBar
  BY <1>2, WaitingIs
<1>4. CASE Calm
  <2>1. pendingBar' = pendingBar
    BY <1>4 DEF Calm, pendingBar
  <2> QED  BY <1>2, <1>3, <1>4, <1>w, <2>1 DEF Calm, SpecStep, SpecStutters
<1>5. CASE Consumes(t)
  <2>1. waitingBar' = waitingBar
    BY <1>5, <1>w DEF Consumes
  <2>2. CASE alerted'[t] = alerted[t]
    <3>1. pendingBar' = pendingBar
      BY <1>5, <2>2 DEF Consumes, pendingBar
    <3> QED  BY <1>2, <1>3, <2>1, <3>1 DEF SpecStep, SpecStutters
  <2>3. CASE alerted'[t] # alerted[t]
    <3>1. alerted[t] /\ ~alerted'[t]
      BY <1>5, <1>t, <2>3 DEF Consumes
    <3>2. pendingBar' = pendingBar \ {t} /\ t \in pendingBar
      BY <1>5, <3>1 DEF Consumes, pendingBar
    <3> QED  BY <1>2, <1>3, <2>1, <3>2, SpecConsume DEF SpecStep
  <2> QED  BY <2>2, <2>3
<1>6. ASSUME NEW c \in Waitable, NEW W \in SUBSET Thread, Dequeues(c, W) PROVE SpecStep
  <2>1. pendingBar' = pendingBar /\ signalled' = signalled \cup W
    BY <1>6 DEF Dequeues, pendingBar
  <2>2. \A x \in W : /\ Waiting(x) /\ call[x].c = c /\ x \notin signalled
    BY <1>6, ListedLemma, WaitingAt DEF Dequeues, RefInv, WakesOK, WakeOK
  <2>3. W \subseteq waitingBar[c]
    BY <2>2, WaitingIs
  <2>4. waitingBar' = [waitingBar EXCEPT ![c] = waitingBar[c] \ W]
    <3>1. \A d \in Waitable : {x \in Thread : Waiting(x)' /\ x \notin signalled' /\ call'[x].c = d}
                              = IF d = c THEN waitingBar[c] \ W ELSE waitingBar[d]
      BY <1>2, <2>1, <2>2, WaitingIs
    <3> QED  BY <3>1, WaitingIs
  <2>5. CASE W = {}
    <3>1. waitingBar' = waitingBar
      BY <1>w, <2>1, <2>5
    <3> QED  BY <1>2, <1>3, <2>1, <3>1 DEF SpecStep, SpecStutters
  <2>6. CASE W # {}
    <3>1. PICK left \in SUBSET waitingBar[c] : left = waitingBar[c] \ W
      OBVIOUS
    <3>2. left # waitingBar[c]
      BY <2>3, <2>6, <3>1
    <3> QED  BY <1>2, <1>3, <2>1, <2>4, <3>1, <3>2, SpecSignal DEF SpecStep
  <2> QED  BY <2>5, <2>6
<1>7. ASSUME NEW u \in Thread, NEW W \in SUBSET Thread, Alerts(u, W) PROVE SpecStep
  <2>1. pendingBar' = pendingBar \cup {u} /\ signalled' = signalled
    BY <1>7, <1>t DEF Alerts, pendingBar
  <2> QED  BY <1>2, <1>3, <1>w, <2>1, SpecAlert DEF SpecStep
<1>8. ~SemaWait(t) /\ ~WaitTest(t)
  BY <1>2, LabsLemma DEF SemaWait, WaitTest, InInnerWait, Labs
<1>9. ~\E r \in CallType : Enters(t, r)
  BY <1>2, <1>t, EnterMoves
<1> QED  BY <1>4, <1>5, <1>6, <1>7, <1>8, <1>9, EffectStep DEF WakeEffect

\* A wait begins.
LEMMA ShowEnter ==
  ASSUME RefInv, NEW t \in Thread, NEW r \in CallType, Enters(t, r)
  PROVE  Larch!Next
<1>1. MutexInv /\ Nil \notin Thread /\ TypeOK
  BY Constants DEF RefInv, MutexInv, WaitInv
<1>2. /\ Alone(t) /\ pc'[t] = "unlock" /\ call'[t] = r
      /\ InInnerWait(t)' /\ ~InInnerWait(t) /\ Phase(t) = "client"
      /\ Phase(t)' = IF r.alert THEN "alertWait" ELSE "wait"
  BY <1>1, EnterMoves
<1>3. PICK m \in Lock : m = r.m
  BY Constants DEF Enters, WaitCall
<1>4. PICK c \in Waitable : c = r.c
  BY PushedLemma
<1>5. Owner(m) = t /\ \A n \in Lock : Owner(n)' = Owner(n)
  BY <1>1, <1>3, SameOwners DEF Enters, OwnersSame
<1>6. /\ phaseBar' = [phaseBar EXCEPT ![t] = Phase(t)']
      /\ onBar' = [onBar EXCEPT ![t] = m]
      /\ \A x \in Thread : x # t =>
           /\ call'[x] = call[x] /\ (Waiting(x)' <=> Waiting(x))
           /\ \A n : Hides(x, n)' <=> Hides(x, n)
  BY <1>2, <1>3, AloneBars
<1>7. /\ \A n : ~Hides(t, n) /\ (Hides(t, n)' <=> n = m)
  BY <1>2, <1>3 DEF Hides
<1>8. holderBar[m] = t
  BY <1>5, <1>7, HolderAt
<1>9. holderBar'[m] = Nil
  <2>1. Owner(m)' = t /\ Hides(t, m)'
    BY <1>5, <1>7
  <2> QED  BY <1>1, <2>1, HolderNext
<1>10. holderBar' = [holderBar EXCEPT ![m] = Nil]
  <2>1. \A n \in Lock : n # m => \A x \in Thread : Owner(n) = x => (Hides(x, n)' <=> Hides(x, n))
    BY <1>6, <1>7
  <2> QED  BY <1>1, <1>5, <1>9, <2>1, HolderGiven
<1>11. pendingBar' = pendingBar /\ signalled' = signalled /\ t \notin signalled
  BY PushedLemma, ListedLemma DEF Enters, pendingBar
<1>12. waitingBar' = [waitingBar EXCEPT ![c] = @ \cup {t}]
  <2>1. Waiting(t)' /\ ~Waiting(t)
    BY <1>2 DEF Waiting
  <2>2. \A d \in Waitable : {x \in Thread : Waiting(x)' /\ x \notin signalled' /\ call'[x].c = d}
                            = IF d = c THEN waitingBar[c] \cup {t} ELSE waitingBar[d]
    BY <1>2, <1>4, <1>6, <1>11, <2>1, WaitingIs
  <2> QED  BY <2>2, WaitingIs
<1>13. PICK p \in {"wait", "alertWait"} : p = Phase(t)'
  BY <1>2
<1>14. phaseBar[t] = "client"
  BY <1>2, PhaseAt
<1> QED  BY <1>6, <1>8, <1>10, <1>11, <1>12, <1>13, <1>14, SpecEnqueue

\* A thread leaves its wait, with its mutex.
LEMMA ShowResume ==
  ASSUME RefInv, NEW t \in Thread, Alone(t), InInnerWait(t), ~InInnerWait(t)',
         NEW m \in Lock, m = call[t].m, Phase(t) \in {"returns", "raises"},
         holderBar[m] = Nil, Owner(m)' = t, Owner(m) \in {Nil, t},
         \A n \in Lock : n # m => Owner(n)' = Owner(n),
         UNCHANGED <<alerted, signalled>>
  PROVE  Larch!Next
<1>1. MutexInv /\ Nil \notin Thread /\ ~Waiting(t)
  BY Constants DEF RefInv, Waiting
<1>2. ~Waiting(t)' /\ Phase(t)' = "client"
  <2>1. Phase(t)' = "client"
    BY DEF Phase, InInnerWait
  <2> QED  BY <2>1 DEF Waiting
<1>3. /\ phaseBar' = [phaseBar EXCEPT ![t] = "client"]
      /\ onBar' = [onBar EXCEPT ![t] = Nil]
      /\ \A x \in Thread : x # t =>
           /\ call'[x] = call[x] /\ (Waiting(x)' <=> Waiting(x))
           /\ \A n : Hides(x, n)' <=> Hides(x, n)
  BY <1>2, AloneBars
<1>4. \A n : ~Hides(t, n)' /\ (Hides(t, n) <=> n = m)
  BY DEF Hides
<1>5. holderBar'[m] = t
  BY <1>4, HolderNext
<1>6. holderBar' = [holderBar EXCEPT ![m] = t]
  <2>1. \A n \in Lock : n # m => \A x \in Thread : Owner(n) = x => (Hides(x, n)' <=> Hides(x, n))
    BY <1>3, <1>4
  <2> QED  BY <1>1, <1>5, <2>1, HolderGiven
<1>7. waitingBar' = waitingBar
  <2>1. \A d \in Waitable : {x \in Thread : Waiting(x)' /\ x \notin signalled' /\ call'[x].c = d}
                            = {x \in Thread : Waiting(x) /\ x \notin signalled /\ call[x].c = d}
    BY <1>1, <1>2, <1>3
  <2> QED  BY <2>1, WaitingIs
<1>8. phaseBar[t] \in {"returns", "raises"} /\ onBar[t] = m /\ pendingBar' = pendingBar
  BY PhaseAt DEF pendingBar
<1> QED  BY <1>3, <1>6, <1>7, <1>8, SpecResume

\* A thread stays in its wait, with its call.
LEMMA InsideBars ==
  ASSUME RefInv, NEW t \in Thread, Alone(t), InInnerWait(t), InInnerWait(t)',
         call'[t] = call[t]
  PROVE  /\ phaseBar' = [phaseBar EXCEPT ![t] = Phase(t)'] /\ onBar' = onBar
         /\ \A x \in Thread : /\ call'[x] = call[x]
                              /\ x # t => (Waiting(x)' <=> Waiting(x))
                              /\ \A n : Hides(x, n)' <=> Hides(x, n)
<1>1. /\ phaseBar' = [phaseBar EXCEPT ![t] = Phase(t)']
      /\ onBar' = [onBar EXCEPT ![t] = call[t].m]
      /\ \A x \in Thread : x # t =>
           /\ call'[x] = call[x] /\ (Waiting(x)' <=> Waiting(x))
           /\ \A n : Hides(x, n)' <=> Hides(x, n)
  BY AloneBars
<1>2. \A n : Hides(t, n)' <=> Hides(t, n)
  BY DEF Hides
<1>3. onBar' = onBar
  <2>1. onBar = [x \in Thread |-> onBar[x]] /\ onBar[t] = call[t].m
    BY PhaseAt DEF onBar
  <2> QED  BY <1>1, <2>1
<1> QED  BY <1>1, <1>2, <1>3

\* A change of owner that its wait hides.
LEMMA HiddenSame ==
  ASSUME MutexInv, NEW t \in Thread, NEW m \in Lock, Hides(t, m), Hides(t, m)',
         Owner(m) \in {Nil, t}, Owner(m)' \in {Nil, t},
         \A n \in Lock : n # m => Owner(n)' = Owner(n),
         \A x \in Thread, n \in Lock : Hides(x, n)' <=> Hides(x, n)
  PROVE  holderBar' = holderBar
<1>0. Nil \notin Thread
  BY Constants
<1>1. \A n \in Lock : n # m => holderBar'[n] = holderBar[n]
  BY HolderSame
<1>2. holderBar[m] = Nil
  <2>1. CASE Owner(m) = Nil
    BY <2>1, HolderAt
  <2>2. CASE Owner(m) = t
    BY <2>2, HolderAt
  <2> QED  BY <2>1, <2>2
<1>3. holderBar'[m] = Nil
  <2>1. CASE Owner(m)' = Nil
    BY <2>1, HolderNext
  <2>2. CASE Owner(m)' = t
    BY <2>2, HolderNext
  <2> QED  BY <2>1, <2>2
<1> QED  BY <1>1, <1>2, <1>3, HolderIs

\* The steps of a wait, from the unlocking of its mutex to its return.
LEMMA ShowInside ==
  ASSUME RefInv, NEW t \in Thread, InsideStep(t)
  PROVE  SpecStep
<1>1. MutexInv /\ Nil \notin Thread /\ WakeOK(t) /\ RelockOK(t) /\ Labs
  BY Constants, LabsLemma DEF RefInv, WakesOK, RelocksOK
<1>t. alerted \in [Thread -> BOOLEAN] /\ call[t] \in CallType /\ call[t].alert \in BOOLEAN
  BY CallLemma DEF RefInv, MutexInv, WaitInv, TypeOK
<1>2. Alone(t) /\ InInnerWait(t) /\ WaitCall(call[t])
  BY InsideMove
<1>3. PICK m \in Lock : m = call[t].m
  BY InsideMove
<1>c. call[t].c # Nil
  BY <1>2, Constants DEF WaitCall
<1>h. Hides(t, m) /\ (Owner(m) \in {Nil, t} => holderBar[m] = Nil)
  <2>1. Hides(t, m)
    BY <1>2, <1>3 DEF Hides
  <2>2. Owner(m) = Nil => holderBar[m] = Nil
    BY HolderAt
  <2>3. Owner(m) = t => holderBar[m] = Nil
    BY <1>1, <2>1, HolderAt
  <2> QED  BY <2>1, <2>2, <2>3
\* The wait stays a wait.
<1>s. ASSUME InInnerWait(t)', call'[t] = call[t], Phase(t)' = Phase(t),
             holderBar' = holderBar, UNCHANGED <<alerted, signalled>>
      PROVE  SpecStep
  <2>1. /\ phaseBar' = [phaseBar EXCEPT ![t] = Phase(t)'] /\ onBar' = onBar
        /\ \A x \in Thread : /\ call'[x] = call[x]
                             /\ x # t => (Waiting(x)' <=> Waiting(x))
    BY <1>2, <1>s, InsideBars
  <2>2. phaseBar' = phaseBar
    <3>1. phaseBar = [x \in Thread |-> phaseBar[x]] /\ phaseBar[t] = Phase(t)
      BY PhaseAt DEF phaseBar
    <3> QED  BY <1>s, <2>1, <3>1
  <2>3. Waiting(t)' <=> Waiting(t)
    BY <1>s DEF Waiting
  <2>4. waitingBar' = waitingBar
    <3>1. \A d \in Waitable : {x \in Thread : Waiting(x)' /\ x \notin signalled' /\ call'[x].c = d}
                              = {x \in Thread : Waiting(x) /\ x \notin signalled /\ call[x].c = d}
      BY <1>s, <2>1, <2>3
    <3> QED  BY <3>1, WaitingIs
  <2> QED  BY <1>s, <2>1, <2>2, <2>4 DEF SpecStep, SpecStutters, pendingBar
<1>k. ASSUME InInnerWait(t)', call'[t] = call[t], UNCHANGED mutexVars
      PROVE  holderBar' = holderBar
  <2>1. OwnersSame
    BY <1>1, <1>k, SameOwners
  <2>2. \A x \in Thread, n \in Lock : Hides(x, n)' <=> Hides(x, n)
    BY <1>2, <1>k, InsideBars
  <2> QED  BY <1>1, <2>1, <2>2, HolderKept DEF OwnersSame
\* It ends for a signal.
<1>g. ASSUME InInnerWait(t)', call'[t] = call[t], UNCHANGED mutexVars,
             Waiting(t), t \in signalled, Phase(t)' = "returns",
             UNCHANGED alerted, signalled' = signalled \ {t}
      PROVE  Larch!Next
  <2>1. /\ phaseBar' = [phaseBar EXCEPT ![t] = "returns"] /\ onBar' = onBar
        /\ \A x \in Thread : /\ call'[x] = call[x]
                             /\ x # t => (Waiting(x)' <=> Waiting(x))
    BY <1>2, <1>g, InsideBars
  <2>2. holderBar' = holderBar
    BY <1>g, <1>k
  <2>3. ~Waiting(t)'
    BY <1>g DEF Waiting
  <2>4. waitingBar' = waitingBar /\ \A d \in Waitable : t \notin waitingBar[d]
    <3>1. \A d \in Waitable : {x \in Thread : Waiting(x)' /\ x \notin signalled' /\ call'[x].c = d}
                              = {x \in Thread : Waiting(x) /\ x \notin signalled /\ call[x].c = d}
      BY <1>g, <2>1, <2>3
    <3> QED  BY <1>g, <3>1, WaitingIs
  <2>5. phaseBar[t] \in {"wait", "alertWait"} /\ pendingBar' = pendingBar
    BY <1>g, PhaseAt DEF Waiting, pendingBar
  <2> QED  BY <2>1, <2>2, <2>4, <2>5, SpecChooseSignal
<1>4. CASE WaitUnlock(t) /\ pc[t] = "unlock" /\ pc'[t] = "sema" /\ call'[t] = call[t]
  <2>1. InInnerWait(t)' /\ Phase(t)' = Phase(t)
    BY <1>1, <1>4 DEF InInnerWait, Phase, Labs
  <2>2. Unlocked(t, m)
    BY <1>1, <1>3, <1>4, UnlockOwner DEF RelockOK, WaitUnlock
  <2>3. Hides(t, m)' /\ \A x \in Thread, n \in Lock : Hides(x, n)' <=> Hides(x, n)
    <3>1. \A x \in Thread, n \in Lock : Hides(x, n)' <=> Hides(x, n)
      BY <1>2, <1>4, <2>1, InsideBars
    <3> QED  BY <1>h, <3>1
  <2>4. Owner(m) \in {Nil, t} /\ Owner(m)' \in {Nil, t} /\ \A n \in Lock : n # m => Owner(n)' = Owner(n)
    BY <2>2 DEF Unlocked
  <2>5. holderBar' = holderBar
    BY <1>1, <1>h, <2>3, <2>4, HiddenSame
  <2> QED  BY <1>4, <1>s, <2>1, <2>5 DEF WaitUnlock, waitVars
<1>5. CASE SemaWait(t) /\ pc[t] = "sema" /\ pc'[t] = "enter" /\ call'[t] = call[t]
  <2>1. InInnerWait(t)' /\ UNCHANGED mutexVars /\ alerted' = alerted /\ holderBar' = holderBar
    BY <1>5, <1>c, <1>k DEF SemaWait, InInnerWait
  <2>2. CASE call[t].alert
    <3>1. Phase(t)' = Phase(t)
      BY <1>1, <1>2, <1>5, <2>1, <2>2 DEF Phase
    <3> QED  BY <1>5, <1>s, <2>1, <2>2, <3>1 DEF SemaWait
  <2>3. CASE ~call[t].alert
    <3>1. Phase(t)' = "returns"
      BY <1>1, <1>5, <2>1, <2>3 DEF Phase
    <3>2. Waiting(t)
      BY <1>5, WaitingAt DEF Blocked
    <3>3. t \in signalled
      BY <1>1, <1>5, <2>3, <3>2, SemaTaken DEF WakeOK
    <3>4. signalled' = signalled \ {t}
      BY <1>5, <2>3 DEF SemaWait
    <3> QED  BY <1>5, <1>g, <2>1, <3>1, <3>2, <3>3, <3>4 DEF SpecStep
  <2> QED  BY <1>t, <2>2, <2>3
<1>6. CASE /\ EnterCSect(t) /\ pc[t] = "enter" /\ call[t].alert
           /\ pc'[t] = "waited" /\ call'[t] = call[t]
  <2>1. InInnerWait(t)' /\ Phase(t)' = Phase(t)
    BY <1>1, <1>2, <1>6 DEF InInnerWait, Phase, Labs
  <2>2. Locked(t, m)
    BY <1>1, <1>3, <1>6, LockOwner
  <2>3. Hides(t, m)' /\ \A x \in Thread, n \in Lock : Hides(x, n)' <=> Hides(x, n)
    <3>1. \A x \in Thread, n \in Lock : Hides(x, n)' <=> Hides(x, n)
      BY <1>2, <1>6, <2>1, InsideBars
    <3> QED  BY <1>h, <3>1
  <2>4. Owner(m) \in {Nil, t} /\ Owner(m)' \in {Nil, t} /\ \A n \in Lock : n # m => Owner(n)' = Owner(n)
    BY <2>2 DEF Locked
  <2>5. holderBar' = holderBar
    BY <1>1, <1>h, <2>3, <2>4, HiddenSame
  <2> QED  BY <1>6, <1>s, <2>1, <2>5 DEF EnterCSect, waitVars
<1>7. CASE EnterCSect(t) /\ pc[t] = "enter" /\ ~call[t].alert /\ Away(pc'[t], call'[t])
  <2>1. ~InInnerWait(t)' /\ Phase(t) = "returns"
    BY <1>1, <1>2, <1>7, AwayNext DEF Phase
  <2>2. Locked(t, m)
    BY <1>1, <1>3, <1>7, LockOwner
  <2>3. /\ Owner(m) = Nil /\ Owner(m)' = t /\ \A n \in Lock : n # m => Owner(n)' = Owner(n)
    BY <2>2 DEF Locked
  <2>4. holderBar[m] = Nil /\ UNCHANGED <<alerted, signalled>>
    BY <1>7, <1>h, <2>3 DEF EnterCSect, waitVars
  <2> QED  BY <1>2, <1>3, <2>1, <2>3, <2>4, ShowResume DEF SpecStep
<1>8. CASE /\ WaitTest(t) /\ pc[t] = "waited" /\ call[t].alert
           /\ pc'[t] = (IF alerted[t] THEN "raise" ELSE "return") /\ call'[t] = call[t]
  <2>1. InInnerWait(t)' /\ Waiting(t) /\ Phase(t) = "alertWait"
    BY <1>1, <1>2, <1>8, WaitingAt DEF InInnerWait, Phase, Labs
  <2>2. UNCHANGED mutexVars /\ alerted' = [alerted EXCEPT ![t] = FALSE] /\ signalled' = signalled \ {t}
    BY <1>8 DEF WaitTest
  <2>3. holderBar' = holderBar
    BY <1>8, <1>k, <2>1, <2>2
  <2>4. CASE alerted[t]
    <3>1. Phase(t)' = "raises" /\ ~Waiting(t)'
      <4>1. Phase(t)' = "raises"
        BY <1>8, <2>1, <2>4 DEF Phase
      <4> QED  BY <4>1 DEF Waiting
    <3>2. /\ phaseBar' = [phaseBar EXCEPT ![t] = "raises"] /\ onBar' = onBar
          /\ \A x \in Thread : /\ call'[x] = call[x]
                               /\ x # t => (Waiting(x)' <=> Waiting(x))
      BY <1>2, <1>8, <2>1, <3>1, InsideBars
    <3>3. waitingBar' = [c \in Waitable |-> waitingBar[c] \ {t}]
      <4>1. \A d \in Waitable : {x \in Thread : Waiting(x)' /\ x \notin signalled' /\ call'[x].c = d}
                                = waitingBar[d] \ {t}
        BY <2>2, <3>1, <3>2, WaitingIs
      <4> QED  BY <4>1, WaitingIs
    <3>4. t \in pendingBar /\ pendingBar' = pendingBar \ {t}
      BY <1>t, <2>2, <2>4 DEF pendingBar
    <3>5. phaseBar[t] = "alertWait"
      BY <2>1, PhaseAt
    <3> QED  BY <2>3, <3>2, <3>3, <3>4, <3>5, SpecChooseAlert DEF SpecStep
  <2>5. CASE ~alerted[t]
    <3>1. Phase(t)' = "returns"
      BY <1>8, <2>1, <2>5 DEF Phase
    <3>2. ~Waits(t)
      BY <1>8, ListedLemma DEF Blocked
    <3>3. t \in signalled /\ alerted' = alerted
      BY <1>1, <1>t, <2>1, <2>2, <2>5, <3>2 DEF WakeOK
    <3> QED  BY <1>8, <1>g, <2>1, <2>2, <3>1, <3>3 DEF SpecStep
  <2> QED  BY <1>t, <2>4, <2>5
<1>9. CASE WaitReturns(t) /\ pc[t] \in {"return", "raise"} /\ Away(pc'[t], call'[t])
  <2>1. ~InInnerWait(t)' /\ Phase(t) \in {"returns", "raises"}
    BY <1>1, <1>2, <1>9, AwayNext DEF Phase
  <2>2. UNCHANGED mutexVars /\ UNCHANGED <<alerted, signalled>>
    BY <1>9 DEF WaitReturns, waitVars
  <2>3. Owner(m) = t /\ \A n \in Lock : Owner(n)' = Owner(n)
    BY <1>1, <1>3, <1>9, <2>2, SameOwners DEF RelockOK, OwnersSame
  <2>4. holderBar[m] = Nil /\ Owner(m)' = t
    BY <1>h, <2>3
  <2> QED  BY <1>2, <1>3, <2>1, <2>2, <2>3, <2>4, ShowResume DEF SpecStep
<1> QED  BY <1>4, <1>5, <1>6, <1>7, <1>8, <1>9, InsideMove

\* Every step shows as one of ThreadSpec, or not at all.
LEMMA ShowStep ==
  ASSUME RefInv, NEW t \in Thread, Step(t)
  PROVE  SpecStep
<1>1. MutexInv /\ RelockOK(t) /\ PlaceOK(t) /\ Labs
  BY LabsLemma DEF RefInv, RelocksOK, PlacesOK
<1>2. ASSUME NEW r \in CallType, Enters(t, r) PROVE SpecStep
  BY <1>2, ShowEnter DEF SpecStep
<1>3. CASE InsideStep(t)
  BY <1>3, ShowInside
<1>4. CASE Beside(t)
  <2>1. ~InInnerWait(t)
    BY <1>4, BesideBars
  <2>2. ~WaitUnlock(t)
    BY <1>1, <2>1 DEF WaitUnlock, InInnerWait, Labs
  <2>3. CASE OwnersSame
    BY <1>4, <2>3, ShowBeside
  <2>4. CASE EnterCSect(t)
    <3>1. PICK m \in Lock : Locked(t, m)
      BY <1>1, <2>4, LockOwner
    <3> QED  BY <1>4, <2>4, <3>1, ShowAcquire DEF EnterCSect, SpecStep
  <2>5. CASE UNCHANGED waitVars /\ \E m \in Lock : Unlocked(t, m)
    BY <1>4, <2>5, ShowRelease DEF SpecStep
  <2> QED  BY <2>2, <2>3, <2>4, <2>5, OwnerStep
<1> QED  BY <1>2, <1>3, <1>4, WaitCases

-----------------------------------------------------------------------------
(* The theorem.                                                            *)

LEMMA RefInit ==
  ASSUME Init
  PROVE  RefInv /\ Larch!Init
<1>1. /\ \A x \in Thread : /\ pc[x] \in {"run", "none"} /\ call[x] = NoCall
                           /\ ~alerted[x] /\ ~alertable[x]
      /\ \A m \in Lock : ~held[m]
      /\ signalled = {}
  BY DEF Init
<1>2. \A x \in Thread : Away(pc[x], call[x])
  BY <1>1, LabsLemma, MadeFields DEF Away, Labs
<1>3. \A x \in Thread : /\ ~InInnerWait(x) /\ PlaceOK(x) /\ RelockOK(x) /\ ~Blocked(x)
                        /\ Phase(x) = "client"
  BY <1>2, AwayLemma
<1>4. \A x \in Thread : ~Waiting(x)
  BY <1>3 DEF Waiting
<1>5. RefInv
  BY <1>1, <1>3, <1>4, InitMutexes DEF RefInv, PlacesOK, RelocksOK, WakesOK, WakeOK
<1>6. phaseBar = [x \in Thread |-> "client"] /\ onBar = [x \in Thread |-> Nil]
  BY <1>3 DEF phaseBar, onBar
<1>7. holderBar = [m \in Lock |-> Nil]
  BY <1>1 DEF holderBar
<1>8. waitingBar = [c \in Waitable |-> {}]
  BY <1>4, WaitingIs
<1>9. {x \in Thread : alerted[x]} = {}
  BY <1>1
<1> QED  BY <1>5, <1>6, <1>7, <1>8, <1>9 DEF Larch!Init

\* RefInv is inductive.
LEMMA RefStep ==
  CacheSafe /\ SlotsSafe /\ RefInv /\ [Next]_vars => RefInv'
<1> SUFFICES ASSUME CacheSafe, SlotsSafe, RefInv, [Next]_vars PROVE RefInv'
  OBVIOUS
<1>1. MutexInv'
  BY MutexStep DEF RefInv
<1>2. ASSUME NEW t \in Thread, Step(t) PROVE RefInv'
  BY <1>1, <1>2, PlacesStep, RelocksStep, WakesStep DEF RefInv
<1>3. CASE UNCHANGED vars
  <2>1. UNCHANGED <<cs, held, csOwner, waiters, alertable, alerted, signalled, pc, call>>
    BY <1>3 DEF vars, mutexVars, waitVars, callVars
  <2>2. PlacesOK' /\ RelocksOK'
    BY <2>1 DEF RefInv, PlacesOK, PlaceOK, RelocksOK, RelockOK, Owner, InInnerWait
  <2>3. WakesOK'
    BY <2>1 DEF RefInv, WakesOK, WakeOK, Waiting, Waits, Blocked, Phase, InInnerWait
  <2> QED  BY <1>1, <2>2, <2>3 DEF RefInv
<1> QED  BY <1>2, <1>3 DEF Next, Step

LEMMA RefineNext ==
  RefInv /\ [Next]_vars => [Larch!Next]_(Larch!vars)
<1> SUFFICES ASSUME RefInv, [Next]_vars PROVE SpecStep
  BY DEF SpecStep, SpecStutters, Larch!vars, pendingBar
<1>1. ASSUME NEW t \in Thread, Step(t) PROVE SpecStep
  BY <1>1, ShowStep
<1>2. CASE UNCHANGED vars
  <2>1. UNCHANGED <<cs, held, csOwner, alerted, signalled, pc, call>>
    BY <1>2 DEF vars, mutexVars, waitVars, callVars
  <2>2. phaseBar' = phaseBar /\ onBar' = onBar /\ pendingBar' = pendingBar
    BY <2>1 DEF phaseBar, onBar, pendingBar, Phase, InInnerWait
  <2>3. holderBar' = holderBar
    BY <2>1 DEF holderBar, InInnerWait
  <2>4. waitingBar' = waitingBar
    BY <2>1 DEF waitingBar, Phase, InInnerWait
  <2> QED  BY <2>2, <2>3, <2>4 DEF SpecStep, SpecStutters
<1> QED  BY <1>1, <1>2 DEF Next, Step

\* The kernel threads implement the Thread interface's specification, under
\* the conditions of NeverFails: LOCK excludes, Wait unlocks and enqueues at
\* once, only Signal, Broadcast and alerts wake, and both outcomes relock; also
\* for the library's own mutex and the conditions of Join, whatever runs in
\* parallel, is forked, reborn and collected meanwhile.
THEOREM Win32Implemented ==
  ASSUME CacheSafe, SlotsSafe
  PROVE  Spec => ImplementsThread
<1>1. Init => RefInv /\ Larch!Init
  BY RefInit
<1>2. RefInv /\ [Next]_vars => RefInv'
  BY RefStep
<1> QED  BY <1>1, <1>2, RefineNext, PTL DEF Spec, ImplementsThread, Larch!Spec
=============================================================================
