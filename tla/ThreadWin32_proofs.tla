------------------------ MODULE ThreadWin32_proofs ------------------------
(***************************************************************************)
(* Theorems about ThreadWin32 for any threads, mutexes and conditions.     *)
(***************************************************************************)
EXTENDS ThreadWin32, FiniteSetTheorems, SequenceTheorems, TLAPS

-----------------------------------------------------------------------------
(* The lists of threads.                                                   *)

NoRepeats(s) == \A i, j \in 1 .. Len(s) : s[i] = s[j] => i = j

\* A thread pushed on a list is in it, with all that were.
LEMMA PushLemma ==
  ASSUME NEW s \in Seq(Thread), NEW x \in Thread
  PROVE  /\ <<x>> \o s \in Seq(Thread)
         /\ \A w : Contains(<<x>> \o s, w) <=> w = x \/ Contains(s, w)
         /\ NoRepeats(s) /\ ~Contains(s, x) => NoRepeats(<<x>> \o s)
<1> DEFINE q == <<x>> \o s
<1>1. /\ q \in Seq(Thread)
      /\ Len(q) = Len(s) + 1
      /\ q[1] = x
      /\ \A i \in 1 .. Len(s) : q[i + 1] = s[i]
  BY ConcatProperties, SMT
<1>2. Len(s) \in Nat
  BY LenProperties
<1>3. \A j \in 1 .. Len(q) : j = 1 \/ (j - 1 \in 1 .. Len(s) /\ q[j] = s[j - 1])
  BY <1>1, <1>2, SMT
<1>4. \A i \in 1 .. Len(s) : i + 1 \in 1 .. Len(q) /\ q[i + 1] = s[i]
  BY <1>1, <1>2, SMT
<1>5. 1 \in 1 .. Len(q)
  BY <1>1, <1>2, SMT
<1> HIDE DEF q
<1>6. ASSUME NEW w
      PROVE  Contains(q, w) <=> w = x \/ Contains(s, w)
  <2>1. Contains(q, w) => w = x \/ Contains(s, w)
    BY <1>1, <1>3 DEF Contains
  <2>2. w = x => Contains(q, w)
    BY <1>1, <1>5 DEF Contains
  <2>3. Contains(s, w) => Contains(q, w)
    BY <1>4 DEF Contains
  <2> QED  BY <2>1, <2>2, <2>3
<1>7. ASSUME NoRepeats(s), ~Contains(s, x)
      PROVE  NoRepeats(q)
  <2> SUFFICES ASSUME NEW i \in 1 .. Len(q), NEW j \in 1 .. Len(q), q[i] = q[j]
               PROVE  i = j
    BY DEF NoRepeats
  <2>1. CASE i = 1 \/ j = 1
    BY <1>1, <1>3, <1>7, <2>1 DEF Contains
  <2>2. CASE i # 1 /\ j # 1
    <3>1. i - 1 = j - 1
      BY <1>3, <1>7, <2>2 DEF NoRepeats
    <3> QED  BY <1>1, <1>2, <3>1, SMT
  <2> QED  BY <2>1, <2>2
<1> QED  BY <1>1, <1>6, <1>7 DEF q

\* Without its first n elements, a list has all the others.
LEMMA DropLemma ==
  ASSUME NEW s \in Seq(Thread), NEW n \in 0 .. Len(s)
  PROVE  LET q == SubSeq(s, n + 1, Len(s))
             gone == ToSet(SubSeq(s, 1, n))
         IN /\ q \in Seq(Thread) /\ gone \subseteq Thread
            /\ n = Len(s) => \A w : ~Contains(q, w)
            /\ \A w : Contains(s, w) <=> w \in gone \/ Contains(q, w)
            /\ NoRepeats(s) => NoRepeats(q) /\ \A w \in gone : ~Contains(q, w)
<1> DEFINE q == SubSeq(s, n + 1, Len(s))
           p == SubSeq(s, 1, n)
<1>0. Len(s) \in Nat /\ \A k \in 1 .. Len(s) : s[k] \in Thread
  BY LenProperties, ElementOfSeq
<1>1. /\ q \in Seq(Thread) /\ Len(q) = Len(s) - n
      /\ \A i \in 1 .. Len(s) - n : q[i] = s[n + i]
  <2>1. \A k \in n + 1 .. Len(s) : s[k] \in Thread
    BY <1>0, SMT
  <2>2. \A i \in 1 .. Len(s) - n : (n + 1) + i - 1 = n + i
    BY <1>0, SMT
  <2> QED  BY <1>0, <2>1, <2>2, SubSeqProperties, SMT
<1>2. /\ p \in Seq(Thread) /\ Len(p) = n /\ DOMAIN p = 1 .. n
      /\ \A i \in 1 .. n : p[i] = s[i]
  <2>1. \A k \in 1 .. n : s[k] \in Thread
    BY <1>0, SMT
  <2>2. p \in Seq(Thread) /\ Len(p) = n /\ \A i \in 1 .. n : p[i] = s[i]
    BY <1>0, <2>1, SubSeqProperties, SMT
  <2> QED  BY <2>2, LenProperties
<1>3. \A j \in 1 .. Len(s) : j \in 1 .. n \/ (j - n \in 1 .. Len(q) /\ q[j - n] = s[j])
  BY <1>0, <1>1, SMT
<1>4. \A i \in 1 .. Len(q) : n + i \in 1 .. Len(s) /\ q[i] = s[n + i]
  BY <1>0, <1>1, SMT
<1>5. \A i \in 1 .. n : i \in 1 .. Len(s) /\ p[i] = s[i]
  BY <1>0, <1>2, SMT
<1>6. n = Len(s) => Len(q) = 0
  BY <1>0, <1>1, SMT
<1> HIDE DEF q, p
<1>7. ToSet(p) \subseteq Thread
  BY <1>0, <1>2, <1>5 DEF ToSet
<1>8. ASSUME NEW w
      PROVE  Contains(s, w) <=> w \in ToSet(p) \/ Contains(q, w)
  <2>1. Contains(s, w) => w \in ToSet(p) \/ Contains(q, w)
    <3> SUFFICES ASSUME NEW j \in 1 .. Len(s), s[j] = w
                 PROVE  w \in ToSet(p) \/ Contains(q, w)
      BY DEF Contains
    <3>1. CASE j \in 1 .. n
      BY <1>2, <3>1 DEF ToSet
    <3>2. CASE j - n \in 1 .. Len(q) /\ q[j - n] = s[j]
      BY <3>2 DEF Contains
    <3> QED  BY <1>3, <3>1, <3>2
  <2>2. w \in ToSet(p) => Contains(s, w)
    BY <1>2, <1>5 DEF ToSet, Contains
  <2>3. Contains(q, w) => Contains(s, w)
    BY <1>4 DEF Contains
  <2> QED  BY <2>1, <2>2, <2>3
<1>9. ASSUME NoRepeats(s)
      PROVE  NoRepeats(q) /\ \A w \in ToSet(p) : ~Contains(q, w)
  <2>1. NoRepeats(q)
    <3> SUFFICES ASSUME NEW i \in 1 .. Len(q), NEW j \in 1 .. Len(q), q[i] = q[j]
                 PROVE  i = j
      BY DEF NoRepeats
    <3>1. n + i = n + j
      BY <1>4, <1>9 DEF NoRepeats
    <3> QED  BY <1>0, <1>1, <3>1, SMT
  <2>2. \A i \in 1 .. n, j \in 1 .. Len(q) : p[i] # q[j]
    <3> SUFFICES ASSUME NEW i \in 1 .. n, NEW j \in 1 .. Len(q), p[i] = q[j]
                 PROVE  FALSE
      OBVIOUS
    <3>1. i = n + j
      BY <1>4, <1>5, <1>9 DEF NoRepeats
    <3> QED  BY <3>1, <1>0, <1>1, SMT
  <2> QED  BY <1>2, <2>1, <2>2 DEF Contains, ToSet
<1>10. n = Len(s) => \A w : ~Contains(q, w)
  BY <1>6, SMT DEF Contains
<1> QED  BY <1>1, <1>7, <1>8, <1>9, <1>10 DEF q, p

\* A list without one element, which it has once.
LEMMA CutLemma ==
  ASSUME NEW s \in Seq(Thread), NEW i \in 1 .. Len(s), NoRepeats(s)
  PROVE  /\ RemoveAt(s, i) \in Seq(Thread)
         /\ NoRepeats(RemoveAt(s, i))
         /\ \A w : Contains(RemoveAt(s, i), w) <=> Contains(s, w) /\ w # s[i]
<1> DEFINE a == SubSeq(s, 1, i - 1)
           b == SubSeq(s, i + 1, Len(s))
           q == RemoveAt(s, i)
<1>0. Len(s) \in Nat /\ \A k \in 1 .. Len(s) : s[k] \in Thread
  BY LenProperties, ElementOfSeq
<1>1. a \in Seq(Thread) /\ Len(a) = i - 1 /\ \A k \in 1 .. i - 1 : a[k] = s[k]
  <2>1. \A k \in 1 .. i - 1 : s[k] \in Thread
    BY <1>0, SMT
  <2> QED  BY <1>0, <2>1, SubSeqProperties, SMT
<1>2. /\ b \in Seq(Thread) /\ Len(b) = Len(s) - i
      /\ \A k \in 1 .. Len(s) - i : b[k] = s[i + k]
  <2>1. \A k \in i + 1 .. Len(s) : s[k] \in Thread
    BY <1>0, SMT
  <2>2. \A k \in 1 .. Len(s) - i : (i + 1) + k - 1 = i + k
    BY <1>0, SMT
  <2> QED  BY <1>0, <2>1, <2>2, SubSeqProperties, SMT
<1>3. q = a \o b
  BY DEF RemoveAt
<1> HIDE DEF a, b, q
<1>4. /\ q \in Seq(Thread) /\ Len(q) = (i - 1) + (Len(s) - i)
      /\ \A k \in 1 .. Len(a) : q[k] = a[k]
      /\ \A k \in 1 .. Len(b) : q[Len(a) + k] = b[k]
  <2>1. /\ q \in Seq(Thread) /\ Len(q) = Len(a) + Len(b)
        /\ \A k \in 1 .. Len(a) + Len(b) :
             q[k] = IF k <= Len(a) THEN a[k] ELSE b[k - Len(a)]
    BY <1>1, <1>2, <1>3, ConcatProperties, Zenon
  <2>2. Len(a) \in Nat /\ Len(b) \in Nat
    BY <1>1, <1>2, LenProperties
  <2>3. \A k \in 1 .. Len(a) : q[k] = a[k]
    BY <2>1, <2>2, SMT
  <2>4. \A k \in 1 .. Len(b) : q[Len(a) + k] = b[k]
    BY <2>1, <2>2, SMT
  <2> QED  BY <1>1, <1>2, <2>1, <2>3, <2>4
<1>5. Len(q) = Len(s) - 1
  BY <1>0, <1>4, SMT
<1>6. \A k \in 1 .. i - 1 : q[k] = s[k]
  BY <1>1, <1>4, SMT
<1>7. \A k \in 1 .. Len(s) - i : q[(i - 1) + k] = s[i + k]
  BY <1>1, <1>2, <1>4, SMT
<1>8. \A k \in i .. Len(q) : q[k] = s[k + 1]
  <2> SUFFICES ASSUME NEW k \in i .. Len(q)
               PROVE  q[k] = s[k + 1]
    OBVIOUS
  <2>1. /\ k - i + 1 \in 1 .. Len(s) - i
        /\ (i - 1) + (k - i + 1) = k /\ i + (k - i + 1) = k + 1
    BY <1>0, <1>5, SMT
  <2> QED  BY <1>7, <2>1
<1>9. \A k \in 1 .. Len(q) : \/ k < i /\ k \in 1 .. Len(s) /\ q[k] = s[k]
                             \/ k >= i /\ k + 1 \in 1 .. Len(s) /\ q[k] = s[k + 1]
  BY <1>0, <1>5, <1>6, <1>8, SMT
<1>10. NoRepeats(q)
  <2> SUFFICES ASSUME NEW k \in 1 .. Len(q), NEW j \in 1 .. Len(q), q[k] = q[j]
               PROVE  k = j
    BY DEF NoRepeats
  <2>1. \/ k < i /\ j < i /\ k = j
        \/ k < i /\ j >= i /\ k = j + 1
        \/ k >= i /\ j < i /\ k + 1 = j
        \/ k >= i /\ j >= i /\ k + 1 = j + 1
    BY <1>9 DEF NoRepeats
  <2> QED  BY <1>0, <1>5, <2>1, SMT
<1>11. ASSUME NEW w
       PROVE  Contains(q, w) <=> Contains(s, w) /\ w # s[i]
  <2>1. ASSUME NEW k \in 1 .. Len(q), q[k] = w
        PROVE  Contains(s, w) /\ w # s[i]
    <3>1. PICK j \in 1 .. Len(s) : j # i /\ s[j] = w
      <4>1. k < i => k # i
        BY <1>0, <1>5, SMT
      <4>2. k >= i => k + 1 # i
        BY <1>0, <1>5, SMT
      <4> QED  BY <1>9, <2>1, <4>1, <4>2
    <3> QED  BY <3>1 DEF NoRepeats, Contains
  <2>2. ASSUME NEW j \in 1 .. Len(s), s[j] = w, w # s[i]
        PROVE  Contains(q, w)
    <3>1. CASE j < i
      <4>1. j \in 1 .. Len(q) /\ j \in 1 .. i - 1
        BY <1>0, <1>5, <3>1, SMT
      <4> QED  BY <1>6, <2>2, <4>1 DEF Contains
    <3>2. CASE j > i
      <4>1. j - 1 \in 1 .. Len(q) /\ j - 1 \in i .. Len(q) /\ (j - 1) + 1 = j
        BY <1>0, <1>5, <3>2, SMT
      <4> QED  BY <1>8, <2>2, <4>1 DEF Contains
    <3>3. j # i /\ (j # i => j < i \/ j > i)
      BY <1>0, <2>2, SMT
    <3> QED  BY <3>1, <3>2, <3>3
  <2> QED  BY <2>1, <2>2 DEF Contains
<1> QED  BY <1>4, <1>10, <1>11 DEF q

-----------------------------------------------------------------------------
(* The inductive invariant.                                                *)

\* What a call has for operands where it locks a mutex, where it waits, and
\* where it looks at a thread to join.
LockCall(r) ==
  \/ r.ret = "run" /\ r.m \in Mutex /\ r.on = Nil
  \/ r.ret = "waited" /\ r.c # Nil /\ (IF r.on = Nil THEN r.m \in Mutex ELSE r.m = threadMu)
  \/ r.ret \in {"forkNew", "join"} /\ r.on # Nil /\ r.m = threadMu
  \/ r.ret \in {"fork", "start", "finish", "exit", "collect"} /\ r.m = threadMu

WaitCall(r) ==
  /\ r.c # Nil
  /\ \/ r.on = Nil /\ r.m \in Mutex /\ r.ret \in {"run", "waited"}
     \/ r.on # Nil /\ r.m = threadMu /\ r.ret \in {"join", "waited"}

JoinCall(r) == r.on # Nil /\ r.m = threadMu /\ r.ret \in {"join", "waited"}

CallOK(p, r) ==
  /\ p \in {"run", "pause", "pausing", "paused"} => r = NoCall
  /\ p \in InLock => LockCall(r)
  /\ p \in InWait => WaitCall(r)
  /\ p \in {"join", "finally"} => JoinCall(r)
  /\ p \in {"forkNew", "rouse"} => r.on # Nil

CallsOK == \A t \in Thread : CallOK(pc[t], call[t])

\* t is to hand out u, a new thread; t is about to wake u, which it hands out;
\* t will leave its kernel thread to u; t has done so and is at its end.
Forks(t, u) == call[t].on = u /\ \/ pc[t] = "forkNew"
                                 \/ pc[t] \in InLock /\ call[t].ret = "forkNew"
Rouses(t, u) == call[t].on = u /\ pc[t] = "rouse"
Leaves(t, u) == call[t].on = u /\ \/ pc[t] = "finish"
                                  \/ pc[t] \in InLock /\ call[t].ret = "finish"
Left(t, u) == call[t].on = u /\ pc[t] = "bcast"

\* Who is in the list of idle threads is not handed out.
IdleOK ==
  /\ NoRepeats(idleThreads)
  /\ \A u \in Thread : Contains(idleThreads, u)
       => pc[u] \in {"promised", "idle"} /\ u \notin slots

Starts(t) == pc[t] = "start" \/ (pc[t] \in InLock /\ call[t].ret = "start")

\* Who is born, handed out or succeeds another has one thread that sees to it.
RoleOK(t, u) ==
  /\ Forks(t, u) => pc[u] = "made" /\ u \notin slots
  /\ Rouses(t, u) => pc[u] \in {"made", "promised", "idle"} /\ u \in slots
  /\ Leaves(t, u) => /\ pc[u] = "promised" /\ u \notin slots
                     /\ ~Contains(idleThreads, u)
  /\ Left(t, u) => pc[u] = "promised" /\ (u \in slots \/ Contains(idleThreads, u))
  /\ Starts(u) => u \in slots
  /\ pc[u] = "none" => u \notin slots

OneRole(t, s, u) ==
  \/ Forks(t, u) /\ Forks(s, u)
  \/ Rouses(t, u) /\ Rouses(s, u)
  \/ Leaves(t, u) /\ Leaves(s, u)
  \/ Left(t, u) /\ Left(s, u)
  => s = t

RolesOK ==
  /\ \A t, u \in Thread : RoleOK(t, u)
  /\ \A t, s, u \in Thread : OneRole(t, s, u)

\* A semaphore is that of one thread, and of those before it.
SemasOwn == \A t, u \in Thread :
  waitSema[t] = waitSema[u] /\ t # u
    => pc[t] = "gone" \/ pc[u] = "gone" \/ Left(t, u) \/ Left(u, t)

Blocked(t) == pc[t] \in {"unlock", "sema"}

\* A thread is in a list while it is in InnerWait and nobody woke it, and then
\* once, in the list of its condition.
ListsOK == \A c \in Waitable :
  /\ NoRepeats(waiters[c])
  /\ \A t \in Thread : Contains(waiters[c], t) => Blocked(t) /\ call[t].c = c

Pausing(t) == pc[t] \in {"pausing", "paused"}
HandedOut(t) ==
  pc[t] \in {"promised", "idle"} /\ t \in slots /\ ~\E s \in Thread : Rouses(s, t)
Past(t) == pc[t] = "gone" \/ \E u \in Thread : Left(t, u)

\* What the count of a thread's semaphore means.
SemaphoreOK(t) ==
  /\ sema[waitSema[t]] = 1 => \/ Blocked(t) /\ ~Waits(t)
                              \/ Pausing(t) /\ alerted[t]
                              \/ HandedOut(t) \/ Past(t)
  /\ Blocked(t) /\ ~Waits(t) => sema[waitSema[t]] = 1
SemaphoresOK == \A t \in Thread : SemaphoreOK(t)

AlertableOK == \A t \in Thread :
  alertable[t] => \/ Blocked(t) /\ Waits(t)
                  \/ Pausing(t) /\ ~alerted[t]

\* Who has completed is on its way from its Broadcast to its end.
CompletedOK == \A t \in Thread :
  completed[t] => \/ pc[t] \in {"bcast", "exit", "gone"}
                  \/ pc[t] \in InLock /\ call[t].ret = "exit"

\* Of the errors that end the program only a lock by its holder is left: no
\* thread enters a second list, no semaphore is released twice, and none of the
\* threads that run is without a slot.
FatalOK == fatal \in {"none", "relock"}

WaitInv ==
  /\ TypeOK /\ CallsOK /\ IdleOK /\ RolesOK /\ SemasOwn /\ ListsOK
  /\ SemaphoresOK /\ AlertableOK /\ CompletedOK /\ JoinersWoken /\ FatalOK

-----------------------------------------------------------------------------
(* What a step changes.                                                    *)

Step(t) == ClientStep(t) \/ LibraryStep(t) \/ EnterCSect(t)

SomeAcquire(t) == \E m \in Mutex : Acquire(t, m)
SomeRelease(t) == \E m \in Mutex : Release(t, m)
SomeWait(t) == \E m \in Mutex, c \in Cond : Wait(t, m, c)
SomeAlertWait(t) == \E m \in Mutex, c \in Cond : AlertWait(t, m, c)
SomeSignal(t) == \E c \in Cond : Signal(t, c)
SomeBroadcast(t) == \E c \in Cond : Broadcast(t, c)
SomeAlert(t) == \E u \in Thread : Alert(t, u)
SomeJoin(t) == \E u \in Thread, a \in BOOLEAN : Join(t, u, a)
SomeCreateT(t) == \E u \in Thread : CreateT(t, u)
SomeNewSelf(t) == \E u \in Thread : NewSelf(t, u)

\* The steps, one by one.
LEMMA StepCases ==
  ASSUME NEW t \in Thread, Step(t)
  PROVE  \/ SomeAcquire(t) \/ SomeRelease(t) \/ SomeWait(t) \/ SomeAlertWait(t)
         \/ SomeSignal(t) \/ SomeBroadcast(t) \/ SomeAlert(t) \/ SomeJoin(t)
         \/ SomeCreateT(t) \/ SomeNewSelf(t) \/ TestAlert(t) \/ AlertPause(t)
         \/ Fork(t) \/ Exit(t) \/ CollectBegins(t) \/ AllocCSect(t)
         \/ InstallCSect(t) \/ WaitUnlock(t) \/ SemaWait(t) \/ WaitTest(t)
         \/ WaitReturns(t) \/ PauseAgain(t) \/ PauseWakes(t) \/ PauseEnds(t)
         \/ ForkIdle(t) \/ ForkNone(t) \/ ForkNew(t) \/ Rouse(t) \/ Start(t)
         \/ Finish(t) \/ BroadcastEnd(t) \/ Reborn(t) \/ Ends(t) \/ JoinDone(t)
         \/ JoinWaits(t) \/ JoinFinally(t) \/ Collect(t) \/ EnterCSect(t)
<1>1. ClientStep(t) =>
        \/ SomeAcquire(t) \/ SomeRelease(t) \/ SomeWait(t) \/ SomeAlertWait(t)
        \/ SomeSignal(t) \/ SomeBroadcast(t) \/ SomeAlert(t) \/ SomeJoin(t)
        \/ TestAlert(t) \/ AlertPause(t) \/ Fork(t) \/ Exit(t)
        \/ CollectBegins(t)
  BY Zenon DEF ClientStep, SomeAcquire, SomeRelease, SomeWait, SomeAlertWait,
     SomeSignal, SomeBroadcast, SomeAlert, SomeJoin
<1>2. LibraryStep(t) =>
        \/ SomeCreateT(t) \/ SomeNewSelf(t) \/ AllocCSect(t) \/ InstallCSect(t)
        \/ WaitUnlock(t) \/ SemaWait(t) \/ WaitTest(t) \/ WaitReturns(t)
        \/ PauseAgain(t) \/ PauseWakes(t) \/ PauseEnds(t) \/ ForkIdle(t)
        \/ ForkNone(t) \/ ForkNew(t) \/ Rouse(t) \/ Start(t) \/ Finish(t)
        \/ BroadcastEnd(t) \/ Reborn(t) \/ Ends(t) \/ JoinDone(t)
        \/ JoinWaits(t) \/ JoinFinally(t) \/ Collect(t)
  BY Zenon DEF LibraryStep, SomeCreateT, SomeNewSelf
<1> QED  BY <1>1, <1>2 DEF Step

\* Who touches mutexes and critical sections.
LEMMA MutexFrame ==
  ASSUME NEW t \in Thread, Step(t)
  PROVE  \/ UNCHANGED mutexVars
         \/ SomeRelease(t) \/ AllocCSect(t) \/ InstallCSect(t) \/ WaitUnlock(t)
         \/ ForkIdle(t) \/ ForkNone(t) \/ ForkNew(t) \/ Start(t) \/ Finish(t)
         \/ Ends(t) \/ JoinDone(t) \/ JoinFinally(t) \/ Collect(t)
         \/ EnterCSect(t)
<1>1. CASE SomeAcquire(t)
  BY <1>1 DEF SomeAcquire, Acquire
<1>2. CASE SomeWait(t)
  BY <1>2 DEF SomeWait, Wait
<1>3. CASE SomeAlertWait(t)
  BY <1>3 DEF SomeAlertWait, AlertWait
<1>4. CASE SomeSignal(t)
  BY <1>4 DEF SomeSignal, Signal
<1>5. CASE SomeBroadcast(t)
  BY <1>5 DEF SomeBroadcast, Broadcast
<1>6. CASE SomeAlert(t)
  BY <1>6 DEF SomeAlert, Alert
<1>7. CASE SomeJoin(t)
  BY <1>7 DEF SomeJoin, Join
<1>8. CASE SomeCreateT(t)
  BY <1>8 DEF SomeCreateT, CreateT
<1>9. CASE SomeNewSelf(t)
  BY <1>9 DEF SomeNewSelf, NewSelf
<1>10. CASE \/ TestAlert(t) \/ AlertPause(t) \/ Fork(t) \/ Exit(t)
             \/ CollectBegins(t) \/ SemaWait(t) \/ WaitTest(t)
             \/ WaitReturns(t)
  BY <1>10 DEF TestAlert, AlertPause, PauseTurn, Fork, Exit, CollectBegins,
     SemaWait, WaitTest, WaitReturns
<1>11. CASE \/ PauseAgain(t) \/ PauseWakes(t) \/ PauseEnds(t) \/ Rouse(t)
             \/ BroadcastEnd(t) \/ Reborn(t) \/ JoinWaits(t)
  BY <1>11 DEF PauseAgain, PauseTurn, PauseWakes, PauseEnds, Rouse,
     BroadcastEnd, Reborn, JoinWaits
<1> QED
  BY StepCases, <1>1, <1>2, <1>3, <1>4, <1>5, <1>6, <1>7, <1>8, <1>9, <1>10,
     <1>11

\* Who touches lists, semaphores and alerts.
LEMMA WaitFrame ==
  ASSUME NEW t \in Thread, Step(t)
  PROVE  \/ UNCHANGED waitVars
         \/ SomeWait(t) \/ SomeAlertWait(t) \/ SomeSignal(t)
         \/ SomeBroadcast(t) \/ SomeAlert(t) \/ TestAlert(t) \/ AlertPause(t)
         \/ SemaWait(t) \/ WaitTest(t) \/ PauseAgain(t) \/ PauseWakes(t)
         \/ PauseEnds(t) \/ Rouse(t) \/ BroadcastEnd(t) \/ Reborn(t)
         \/ JoinWaits(t)
<1>1. CASE SomeAcquire(t)
  BY <1>1 DEF SomeAcquire, Acquire
<1>2. CASE SomeRelease(t)
  BY <1>2 DEF SomeRelease, Release
<1>3. CASE SomeJoin(t)
  BY <1>3 DEF SomeJoin, Join
<1>4. CASE SomeCreateT(t)
  BY <1>4 DEF SomeCreateT, CreateT
<1>5. CASE SomeNewSelf(t)
  BY <1>5 DEF SomeNewSelf, NewSelf
<1>6. CASE \/ Fork(t) \/ Exit(t) \/ CollectBegins(t) \/ AllocCSect(t)
            \/ InstallCSect(t) \/ WaitUnlock(t) \/ WaitReturns(t)
            \/ ForkIdle(t)
  BY <1>6 DEF Fork, Exit, CollectBegins, AllocCSect, InstallCSect, WaitUnlock,
     WaitReturns, ForkIdle
<1>7. CASE \/ ForkNone(t) \/ ForkNew(t) \/ Start(t) \/ Finish(t) \/ Ends(t)
            \/ JoinDone(t) \/ JoinFinally(t) \/ Collect(t)
  BY <1>7 DEF ForkNone, ForkNew, Start, Finish, Ends, JoinDone, JoinFinally,
     Collect
<1>8. CASE EnterCSect(t)
  BY <1>8 DEF EnterCSect
<1> QED
  BY StepCases, <1>1, <1>2, <1>3, <1>4, <1>5, <1>6, <1>7, <1>8

\* Who touches the lives of threads.
LEMMA ThreadFrame ==
  ASSUME NEW t \in Thread, Step(t)
  PROVE  \/ UNCHANGED threadVars
         \/ ForkIdle(t) \/ ForkNew(t) \/ Finish(t) \/ Ends(t) \/ JoinDone(t)
<1>1. CASE SomeAcquire(t)
  BY <1>1 DEF SomeAcquire, Acquire
<1>2. CASE SomeRelease(t)
  BY <1>2 DEF SomeRelease, Release
<1>3. CASE SomeWait(t)
  BY <1>3 DEF SomeWait, Wait
<1>4. CASE SomeAlertWait(t)
  BY <1>4 DEF SomeAlertWait, AlertWait
<1>5. CASE SomeSignal(t)
  BY <1>5 DEF SomeSignal, Signal
<1>6. CASE SomeBroadcast(t)
  BY <1>6 DEF SomeBroadcast, Broadcast
<1>7. CASE SomeAlert(t)
  BY <1>7 DEF SomeAlert, Alert
<1>8. CASE SomeJoin(t)
  BY <1>8 DEF SomeJoin, Join
<1>9. CASE SomeCreateT(t)
  BY <1>9 DEF SomeCreateT, CreateT
<1>10. CASE SomeNewSelf(t)
  BY <1>10 DEF SomeNewSelf, NewSelf
<1>11. CASE \/ TestAlert(t) \/ AlertPause(t) \/ Fork(t) \/ Exit(t)
             \/ CollectBegins(t) \/ AllocCSect(t) \/ InstallCSect(t)
             \/ WaitUnlock(t)
  BY <1>11 DEF TestAlert, AlertPause, PauseTurn, Fork, Exit, CollectBegins,
     AllocCSect, InstallCSect, WaitUnlock
<1>12. CASE \/ SemaWait(t) \/ WaitTest(t) \/ WaitReturns(t) \/ PauseAgain(t)
             \/ PauseWakes(t) \/ PauseEnds(t) \/ ForkNone(t) \/ Rouse(t)
  BY <1>12 DEF SemaWait, WaitTest, WaitReturns, PauseAgain, PauseTurn,
     PauseWakes, PauseEnds, ForkNone, Rouse
<1>13. CASE \/ Start(t) \/ BroadcastEnd(t) \/ Reborn(t) \/ JoinWaits(t)
             \/ JoinFinally(t) \/ Collect(t) \/ EnterCSect(t)
  BY <1>13 DEF Start, BroadcastEnd, Reborn, JoinWaits, JoinFinally, Collect,
     EnterCSect
<1> QED
  BY StepCases, <1>1, <1>2, <1>3, <1>4, <1>5, <1>6, <1>7, <1>8, <1>9, <1>10,
     <1>11, <1>12, <1>13

\* Who stays where it is.
LEMMA CallFrame ==
  ASSUME NEW t \in Thread, Step(t)
  PROVE  \/ UNCHANGED callVars
         \/ SomeAcquire(t) \/ SomeWait(t) \/ SomeAlertWait(t) \/ SomeJoin(t)
         \/ SomeCreateT(t) \/ SomeNewSelf(t) \/ AlertPause(t) \/ Fork(t)
         \/ Exit(t) \/ CollectBegins(t) \/ AllocCSect(t) \/ InstallCSect(t)
         \/ WaitUnlock(t) \/ SemaWait(t) \/ WaitTest(t) \/ WaitReturns(t)
         \/ PauseAgain(t) \/ PauseWakes(t) \/ PauseEnds(t) \/ ForkIdle(t)
         \/ ForkNone(t) \/ ForkNew(t) \/ Rouse(t) \/ Start(t) \/ Finish(t)
         \/ BroadcastEnd(t) \/ Reborn(t) \/ Ends(t) \/ JoinDone(t)
         \/ JoinWaits(t) \/ JoinFinally(t) \/ Collect(t) \/ EnterCSect(t)
<1>1. CASE SomeRelease(t)
  BY <1>1 DEF SomeRelease, Release
<1>2. CASE SomeSignal(t)
  BY <1>2 DEF SomeSignal, Signal
<1>3. CASE SomeBroadcast(t)
  BY <1>3 DEF SomeBroadcast, Broadcast
<1>4. CASE SomeAlert(t)
  BY <1>4 DEF SomeAlert, Alert
<1>5. CASE TestAlert(t)
  BY <1>5 DEF TestAlert
<1> QED
  BY StepCases, <1>1, <1>2, <1>3, <1>4, <1>5

-----------------------------------------------------------------------------
(* Types.                                                                  *)

MutexTypes ==
  /\ cs \in [Lock -> CSect \cup {Nil}]
  /\ held \in [Lock -> BOOLEAN]
  /\ csOwner \in [CSect -> Thread \cup {Nil}]
  /\ cSectCache \in Seq(CSect) /\ Len(cSectCache) <= CSectCacheSize
WaitTypes ==
  /\ waiters \in [Waitable -> Seq(Thread)]
  /\ sema \in [Thread -> {0, 1}]
  /\ alertable \in [Thread -> BOOLEAN] /\ alerted \in [Thread -> BOOLEAN]
  /\ signalled \subseteq Thread
ThreadTypes ==
  /\ waitSema \in [Thread -> Thread] /\ cond \in [Thread -> Thread]
  /\ completed \in [Thread -> BOOLEAN] /\ joined \in [Thread -> BOOLEAN]
  /\ idleThreads \in Seq(Thread) /\ slots \subseteq Thread
CallTypes == pc \in [Thread -> Labels] /\ call \in [Thread -> CallType]

LEMMA TypeParts ==
  TypeOK <=> /\ MutexTypes /\ WaitTypes /\ ThreadTypes /\ CallTypes
             /\ heap \in Thread \cup {Nil} /\ fatal \in Errors
BY DEF TypeOK, MutexTypes, WaitTypes, ThreadTypes, CallTypes

\* Critical sections are positive numbers, and there is a first.
LEMMA Constants ==
  /\ IsFiniteSet(Lock) /\ Mutex \subseteq Lock /\ threadMu \in Lock
  /\ CSect \subseteq Nat /\ 1 \in CSect /\ Nil \notin CSect
  /\ Nil \notin Thread /\ Nil \notin Mutex /\ Nil \notin Waitable
  /\ Thread \subseteq Waitable /\ Cond \subseteq Waitable
  /\ Main \in Thread /\ threadMu \notin Mutex
<1>1. IsFiniteSet(Lock) /\ threadMu \in Lock
  <2>1. IsFiniteSet(Mutex \cup {threadMu})
    BY FiniteAssumption, FS_AddElement
  <2> QED  BY <2>1 DEF Lock
<1>2. Cardinality(Lock) \in Nat /\ Cardinality(Lock) # 0
  BY <1>1, FS_CardinalityType, FS_EmptySet
<1>3. Cardinality(Thread) \in Nat
  BY FiniteAssumption, FS_CardinalityType
<1>4. CSect \subseteq Nat /\ 1 \in CSect
  BY <1>2, <1>3, BoundsAssumption, SMT DEF CSect
<1>5. /\ Nil \notin Nat /\ Nil \notin Thread /\ Nil \notin Mutex /\ Nil \notin Cond
  BY NilAssumption
<1> QED
  BY <1>1, <1>4, <1>5, MainAssumption, NamesAssumption DEF Lock, Waitable

\* The records of calls.
LEMMA CallLemma ==
  /\ \A m, c, ret, on, alert, back :
       LET r == Call(m, c, ret, on, alert, back)
       IN /\ r.m = m /\ r.c = c /\ r.ret = ret /\ r.on = on
          /\ r.alert = alert /\ r.back = back
  /\ \A m \in Lock \cup {Nil}, c \in Waitable \cup {Nil}, ret \in Returns,
        on \in Thread \cup {Nil}, alert \in BOOLEAN,
        back \in {"run", "create", "newSelf"} :
       Call(m, c, ret, on, alert, back) \in CallType
  /\ \A r \in CallType :
       /\ r.m \in Lock \cup {Nil} /\ r.c \in Waitable \cup {Nil}
       /\ r.ret \in Returns /\ r.on \in Thread \cup {Nil}
       /\ r.alert \in BOOLEAN /\ r.back \in {"run", "create", "newSelf"}
<1>1. \A m, c, ret, on, alert, back :
       LET r == Call(m, c, ret, on, alert, back)
       IN /\ r.m = m /\ r.c = c /\ r.ret = ret /\ r.on = on
          /\ r.alert = alert /\ r.back = back
  BY SMT DEF Call
<1>2. \A m \in Lock \cup {Nil}, c \in Waitable \cup {Nil}, ret \in Returns,
        on \in Thread \cup {Nil}, alert \in BOOLEAN,
        back \in {"run", "create", "newSelf"} :
       Call(m, c, ret, on, alert, back) \in CallType
  BY SMT DEF Call, CallType
<1>3. \A r \in CallType :
       /\ r.m \in Lock \cup {Nil} /\ r.c \in Waitable \cup {Nil}
       /\ r.ret \in Returns /\ r.on \in Thread \cup {Nil}
       /\ r.alert \in BOOLEAN /\ r.back \in {"run", "create", "newSelf"}
  BY SMT DEF CallType
<1> QED  BY <1>1, <1>2, <1>3

LEMMA MadeCalls ==
  /\ NoCall \in CallType
  /\ \A ret \in Returns, on \in Thread \cup {Nil} : ThreadCall(ret, on) \in CallType
  /\ \A m \in Lock : Call(m, Nil, "run", Nil, FALSE, "run") \in CallType
  /\ \A m \in Lock, c \in Waitable :
       /\ Call(m, c, "run", Nil, FALSE, "run") \in CallType
       /\ Call(m, c, "waited", Nil, TRUE, "run") \in CallType
  /\ \A u \in Thread, a \in BOOLEAN :
       Call(threadMu, Nil, "join", u, a, "run") \in CallType
  /\ \A b \in {"run", "create", "newSelf"} :
       Call(threadMu, Nil, "collect", Nil, FALSE, b) \in CallType
<1>1. /\ "run" \in Returns /\ "waited" \in Returns /\ "join" \in Returns
      /\ "collect" \in Returns /\ threadMu \in Lock
  BY Constants DEF Returns
<1>2. NoCall \in CallType
  BY <1>1, SMT DEF NoCall, Call, CallType
<1>3. \A ret \in Returns, on \in Thread \cup {Nil} : ThreadCall(ret, on) \in CallType
  BY <1>1, SMT DEF ThreadCall, Call, CallType
<1>4. \A m \in Lock : Call(m, Nil, "run", Nil, FALSE, "run") \in CallType
  BY <1>1, SMT DEF Call, CallType
<1>5. \A m \in Lock, c \in Waitable :
       /\ Call(m, c, "run", Nil, FALSE, "run") \in CallType
       /\ Call(m, c, "waited", Nil, TRUE, "run") \in CallType
  BY <1>1, SMT DEF Call, CallType
<1>6. \A u \in Thread, a \in BOOLEAN :
       Call(threadMu, Nil, "join", u, a, "run") \in CallType
  BY <1>1, SMT DEF Call, CallType
<1>7. \A b \in {"run", "create", "newSelf"} :
       Call(threadMu, Nil, "collect", Nil, FALSE, b) \in CallType
  BY <1>1, SMT DEF Call, CallType
<1> QED  BY <1>2, <1>3, <1>4, <1>5, <1>6, <1>7

\* The fields of the calls that the code makes up.
LEMMA MadeFields ==
  /\ /\ NoCall.m = Nil /\ NoCall.on = Nil /\ NoCall.c = Nil
     /\ NoCall.ret = "run" /\ NoCall.alert = FALSE
  /\ \A ret, on :
       /\ ThreadCall(ret, on).m = threadMu /\ ThreadCall(ret, on).c = Nil
       /\ ThreadCall(ret, on).ret = ret /\ ThreadCall(ret, on).on = on
       /\ ThreadCall(ret, on).alert = FALSE
BY SMT DEF NoCall, ThreadCall, Call

\* Every step keeps the types of places and calls.
LEMMA CallTypesStep ==
  ASSUME TypeOK, CallsOK, NEW t \in Thread, Step(t)
  PROVE  CallTypes'
<1>0. CallTypes /\ cond \in [Thread -> Thread] /\ idleThreads \in Seq(Thread)
  BY DEF TypeOK, CallTypes
<1>1. /\ pc \in [Thread -> Labels] /\ call \in [Thread -> CallType]
      /\ call[t] \in CallType /\ pc[t] \in Labels
  BY <1>0 DEF CallTypes
<1>l. /\ \A x \in {"none", "made", "promised", "alloc", "new", "enter", "unlock",
                   "sema", "waited", "return", "raise", "run", "fork", "forkNew",
                   "start", "finish", "exit", "join", "collect", "create", "rouse",
                   "newSelf", "bcast", "idle", "gone", "finally", "pause",
                   "pausing", "paused"} : x \in Labels
      /\ \A x \in Returns : x \in Labels
      /\ \A x \in {"run", "waited", "fork", "forkNew", "start", "finish", "exit",
                   "join", "collect"} : x \in Returns
  BY DEF Labels, Unborn, InLock, InWait, Returns
<1>r. /\ call[t].m \in Lock \cup {Nil} /\ call[t].c \in Waitable \cup {Nil}
      /\ call[t].ret \in Returns /\ call[t].on \in Thread \cup {Nil}
      /\ call[t].alert \in BOOLEAN
      /\ call[t].back \in {"run", "create", "newSelf"}
      /\ call[t] \in [m : Lock \cup {Nil}, c : Waitable \cup {Nil}, ret : Returns,
                      on : Thread \cup {Nil}, alert : BOOLEAN,
                      back : {"run", "create", "newSelf"}]
  BY <1>1, CallLemma, Zenon DEF CallType
<1>k. /\ Nil \notin Thread /\ Mutex \subseteq Lock /\ threadMu \in Lock
      /\ Thread \subseteq Waitable /\ Cond \subseteq Waitable
  BY Constants
<1> HIDE DEF Labels, CallType
<1>m. ASSUME NEW l \in Labels, NEW r \in CallType,
             pc' = [pc EXCEPT ![t] = l], call' = [call EXCEPT ![t] = r]
      PROVE  CallTypes'
  BY <1>1, <1>m DEF CallTypes
<1>2. CASE UNCHANGED callVars
  BY <1>0, <1>2 DEF callVars, CallTypes
<1>3. CASE SomeAcquire(t)
  <2>1. PICK m \in Mutex : Acquire(t, m)
    BY <1>3 DEF SomeAcquire
  <2>2. Call(m, Nil, "run", Nil, FALSE, "run") \in CallType
    BY <1>k, MadeCalls
  <2>3. (IF cs[Call(m, Nil, "run", Nil, FALSE, "run").m] = Nil
         THEN "alloc" ELSE "enter") \in Labels
    BY <1>l
  <2> QED  BY <1>m, <2>1, <2>2, <2>3 DEF Acquire, LockMutex
<1>4. CASE SomeWait(t) \/ SomeAlertWait(t)
  <2>1. PICK m \in Mutex, c \in Cond : Wait(t, m, c) \/ AlertWait(t, m, c)
    BY <1>4 DEF SomeWait, SomeAlertWait
  <2>2. /\ Call(m, c, "run", Nil, FALSE, "run") \in CallType
        /\ Call(m, c, "waited", Nil, TRUE, "run") \in CallType
    BY <1>k, MadeCalls
  <2>3. CASE Wait(t, m, c)
    BY <1>m, <1>l, <2>2, <2>3 DEF Wait, InnerWait
  <2>4. CASE AlertWait(t, m, c) /\ alerted[t]
    BY <1>1, <1>l, <2>4 DEF AlertWait, AlertEnter, CallTypes
  <2>5. CASE AlertWait(t, m, c) /\ ~alerted[t]
    BY <1>m, <1>l, <2>2, <2>5 DEF AlertWait, AlertEnter, InnerWait
  <2> QED  BY <2>1, <2>3, <2>4, <2>5
<1>6. CASE SomeJoin(t)
  <2>1. PICK u \in Thread, a \in BOOLEAN : Join(t, u, a)
    BY <1>6 DEF SomeJoin
  <2>2. Call(threadMu, Nil, "join", u, a, "run") \in CallType
    BY MadeCalls
  <2>3. (IF cs[Call(threadMu, Nil, "join", u, a, "run").m] = Nil
         THEN "alloc" ELSE "enter") \in Labels
    BY <1>l
  <2> QED  BY <1>m, <2>1, <2>2, <2>3 DEF Join, LockMutex
<1>t. \A ret \in Returns, on \in Thread \cup {Nil} :
        /\ ThreadCall(ret, on) \in CallType
        /\ (IF cs[ThreadCall(ret, on).m] = Nil THEN "alloc" ELSE "enter") \in Labels
  BY <1>l, MadeCalls
<1>n. NoCall \in CallType
  BY MadeCalls
<1>7. CASE SomeCreateT(t) \/ SomeNewSelf(t)
  <2>1. PICK u \in Thread : CreateT(t, u) \/ NewSelf(t, u)
    BY <1>7 DEF SomeCreateT, SomeNewSelf
  <2>2. ThreadCall("forkNew", u) \in CallType /\ ThreadCall("finish", u) \in CallType
    BY <1>t, <1>l
  <2> QED  BY <1>1, <1>l, <2>1, <2>2 DEF CreateT, NewSelf, CallTypes
<1>8. CASE \/ AlertPause(t) \/ PauseAgain(t) \/ PauseWakes(t) \/ PauseEnds(t)
           \/ AllocCSect(t) \/ InstallCSect(t) \/ WaitUnlock(t) \/ WaitTest(t)
           \/ ForkNone(t) \/ ForkNew(t) \/ Finish(t)
  <2>1. call' = call /\ \E l \in Labels : pc' = [pc EXCEPT ![t] = l]
    BY <1>8, <1>l
       DEF AlertPause, PauseAgain, PauseTurn, PauseWakes, PauseEnds, AllocCSect,
           InstallCSect, WaitUnlock, WaitTest, ForkNone, ForkNew, Finish
  <2> QED  BY <1>1, <2>1 DEF CallTypes
<1>9. CASE Fork(t) \/ Exit(t) \/ Reborn(t)
  <2>1. "fork" \in Returns /\ "finish" \in Returns /\ "start" \in Returns
    BY <1>l
  <2>2. \/ call' = call /\ pc' = [pc EXCEPT ![t] = "newSelf"]
        \/ \E ret \in Returns : LockMutex(t, ThreadCall(ret, Nil))
    BY <1>9, <2>1 DEF Fork, Exit, Reborn
  <2>3. CASE call' = call /\ pc' = [pc EXCEPT ![t] = "newSelf"]
    BY <1>1, <1>l, <2>3 DEF CallTypes
  <2>4. CASE \E ret \in Returns : LockMutex(t, ThreadCall(ret, Nil))
    BY <1>m, <1>t, <2>4 DEF LockMutex
  <2> QED  BY <2>2, <2>3, <2>4
<1>10. CASE CollectBegins(t)
  <2>1. Call(threadMu, Nil, "collect", Nil, FALSE, pc[t]) \in CallType
    BY <1>10, MadeCalls DEF CollectBegins
  <2>2. (IF cs[Call(threadMu, Nil, "collect", Nil, FALSE, pc[t]).m] = Nil
         THEN "alloc" ELSE "enter") \in Labels
    BY <1>l
  <2> QED  BY <1>m, <1>10, <2>1, <2>2 DEF CollectBegins, LockMutex
<1>11. CASE Start(t) \/ Ends(t) \/ JoinDone(t) \/ JoinFinally(t) \/ Collect(t)
  <2>1. call[t].back \in Labels
    BY <1>r, <1>l
  <2>2. \E l \in Labels : pc' = [pc EXCEPT ![t] = l] /\ call' = [call EXCEPT ![t] = NoCall]
    BY <1>11, <1>l, <2>1 DEF Start, Ends, JoinDone, JoinFinally, Collect
  <2> QED  BY <1>m, <1>n, <2>2
<1>12. CASE Rouse(t)
  <2>1. ThreadCall("start", Nil) \in CallType /\ "run" \in Labels /\ "enter" \in Labels
    BY <1>t, <1>l
  <2>2. CASE pc[call[t].on] = "made"
    BY <1>1, <1>n, <1>12, <2>1, <2>2 DEF Rouse, CallTypes
  <2>3. CASE pc[call[t].on] # "made"
    BY <1>m, <1>n, <1>12, <2>1, <2>3 DEF Rouse
  <2> QED  BY <2>2, <2>3
<1>13. CASE BroadcastEnd(t)
  <2>1. "exit" \in Returns /\ "gone" \in Labels /\ "idle" \in Labels
    BY <1>l
  <2>2. CASE call[t].on = Nil
    BY <1>m, <1>t, <1>13, <2>1, <2>2 DEF BroadcastEnd, LockMutex
  <2>3. CASE call[t].on # Nil
    BY <1>1, <1>n, <1>13, <2>1, <2>3 DEF BroadcastEnd, CallTypes
  <2> QED  BY <2>2, <2>3
<1>14. CASE ForkIdle(t)
  <2>1. Head(idleThreads) \in Thread
    BY <1>0, <1>14, HeadTailProperties DEF ForkIdle
  <2>2. [call[t] EXCEPT !.on = Head(idleThreads)] \in CallType
    BY <1>r, <2>1, SMT DEF CallType
  <2>3. call' = [call EXCEPT ![t] = [call[t] EXCEPT !.on = Head(idleThreads)]]
    BY <1>14 DEF ForkIdle
  <2> QED  BY <1>m, <1>l, <1>14, <2>2, <2>3 DEF ForkIdle
<1>15. CASE EnterCSect(t)
  <2>1. [call[t] EXCEPT !.c = Nil] \in CallType
    BY <1>r, SMT DEF CallType
  <2> QED  BY <1>m, <1>n, <1>1, <1>r, <1>15, <1>l, <2>1 DEF EnterCSect
<1>16. CASE SemaWait(t)
  <2>1. (IF cs[call[t].m] = Nil THEN "alloc" ELSE "enter") \in Labels
    BY <1>l
  <2> QED  BY <1>m, <1>1, <1>16, <2>1 DEF SemaWait, LockMutex
<1>17. CASE WaitReturns(t)
  <2>1. [call[t] EXCEPT !.c = Nil] \in CallType
    BY <1>r, SMT DEF CallType
  <2>2. CASE call[t].on = Nil
    BY <1>m, <1>n, <1>l, <1>17, <2>2 DEF WaitReturns
  <2>3. CASE call[t].on # Nil
    <3>1. call' = [call EXCEPT ![t] = [call[t] EXCEPT !.c = Nil]]
      BY <1>17, <2>3 DEF WaitReturns
    <3>2. \E l \in Labels : pc' = [pc EXCEPT ![t] = l]
      BY <1>l, <1>17, <2>3 DEF WaitReturns
    <3> QED  BY <1>m, <2>1, <3>1, <3>2
  <2> QED  BY <2>2, <2>3
<1>18. CASE JoinWaits(t)
  <2>1. call[t].on \in Thread
    BY <1>r, <1>18 DEF JoinWaits, CallsOK, CallOK, JoinCall
  <2>2. cond[call[t].on] \in Waitable
    BY <1>0, <1>k, <2>1
  <2> DEFINE r == [call[t] EXCEPT !.c = cond[call[t].on]]
  <2>3. r \in CallType
    BY <1>r, <2>2, SMT DEF CallType
  <2>4. "waited" \in Returns /\ "unlock" \in Labels /\ "finally" \in Labels
    BY <1>l
  <2>5. [r EXCEPT !.ret = "waited"] \in CallType
    <3> HIDE DEF r
    <3> QED  BY <2>3, <2>4, SMT DEF CallType
  <2>6. CASE r.alert /\ alerted[t]
    BY <1>1, <1>18, <2>4, <2>6 DEF JoinWaits, AlertEnter, CallTypes
  <2>7. CASE r.alert /\ ~alerted[t]
    BY <1>m, <1>18, <2>4, <2>5, <2>7 DEF JoinWaits, AlertEnter, InnerWait
  <2>8. CASE ~r.alert
    BY <1>m, <1>18, <2>3, <2>4, <2>8 DEF JoinWaits, InnerWait
  <2> QED  BY <2>6, <2>7, <2>8
<1> QED
  BY CallFrame, <1>2, <1>3, <1>4, <1>6, <1>7, <1>8, <1>9, <1>10, <1>11,
     <1>12, <1>13, <1>14, <1>15, <1>16, <1>17, <1>18

\* Every step leaves calls that fit their places.
LEMMA CallsStep ==
  ASSUME TypeOK, CallsOK, NEW t \in Thread, Step(t)
  PROVE  CallsOK'
<1>1. /\ pc \in [Thread -> Labels] /\ call \in [Thread -> CallType]
      /\ CallOK(pc[t], call[t])
  BY DEF TypeOK, CallsOK
<1>r. call[t].on \in Thread \cup {Nil} /\ call[t].m \in Lock \cup {Nil}
  BY <1>1, CallLemma
<1>k. Nil \notin Thread /\ Nil \notin Waitable /\ Nil \notin Mutex
  BY Constants
<1>m. ASSUME NEW l, NEW r, CallOK(l, r),
             pc' = [pc EXCEPT ![t] = l], call' = [call EXCEPT ![t] = r]
      PROVE  CallsOK'
  BY <1>1, <1>m DEF CallsOK
<1>l. \A r : LockMutex(t, r) /\ LockCall(r) => CallsOK'
  <2> SUFFICES ASSUME NEW r, LockMutex(t, r), LockCall(r)
               PROVE  CallsOK'
    OBVIOUS
  <2>1. \A l \in {"alloc", "enter"} : CallOK(l, r)
    BY DEF CallOK, InLock, InWait
  <2>2. (IF cs[r.m] = Nil THEN "alloc" ELSE "enter") \in {"alloc", "enter"}
    OBVIOUS
  <2> QED  BY <1>m, <2>1, <2>2 DEF LockMutex
<1>w. ASSUME NEW r, WaitCall(r), InnerWait(t, r)
      PROVE  CallsOK'
  <2>1. CallOK("unlock", r)
    BY <1>w DEF CallOK, InLock, InWait
  <2> QED  BY <1>m, <1>w, <2>1 DEF InnerWait
<1>p. ASSUME NEW l, pc' = [pc EXCEPT ![t] = l], UNCHANGED call, CallOK(l, call[t])
      PROVE  CallsOK'
  BY <1>1, <1>p DEF CallsOK
<1>q. \A r : \A x \in {"create", "rouse", "newSelf", "bcast", "idle", "gone", "fork", "start", "finish", "exit",
                  "collect", "none", "made", "promised"} :
        x # "rouse" \/ r.on # Nil => CallOK(x, r)
  BY DEF CallOK, InLock, InWait
<1>n. \A x \in {"run", "create", "newSelf", "gone", "pause", "pausing", "paused"} :
        CallOK(x, NoCall)
  BY DEF CallOK, InLock, InWait
<1> HIDE DEF CallsOK, CallOK
<1>2. CASE UNCHANGED callVars
  BY <1>2 DEF callVars, CallsOK
<1>3. CASE SomeAcquire(t)
  <2>1. PICK m \in Mutex : Acquire(t, m)
    BY <1>3 DEF SomeAcquire
  <2>2. LockCall(Call(m, Nil, "run", Nil, FALSE, "run"))
    BY SMT DEF LockCall, Call
  <2> QED  BY <1>l, <2>1, <2>2 DEF Acquire
<1>4. CASE SomeWait(t) \/ SomeAlertWait(t)
  <2>1. PICK m \in Mutex, c \in Cond : Wait(t, m, c) \/ AlertWait(t, m, c)
    BY <1>4 DEF SomeWait, SomeAlertWait
  <2>2. /\ WaitCall(Call(m, c, "run", Nil, FALSE, "run"))
        /\ WaitCall(Call(m, c, "waited", Nil, TRUE, "run"))
    BY <1>k, Constants, SMT DEF WaitCall, Call
  <2>3. CASE Wait(t, m, c)
    BY <1>w, <2>2, <2>3 DEF Wait
  <2>4. CASE AlertWait(t, m, c) /\ alerted[t]
    BY <1>1, <1>p, <2>4 DEF AlertWait, AlertEnter, Client
  <2>5. CASE AlertWait(t, m, c) /\ ~alerted[t]
    BY <1>w, <2>2, <2>5 DEF AlertWait, AlertEnter
  <2> QED  BY <2>1, <2>3, <2>4, <2>5
<1>6. CASE SomeJoin(t)
  <2>1. PICK u \in Thread, a \in BOOLEAN : Join(t, u, a)
    BY <1>6 DEF SomeJoin
  <2>2. LockCall(Call(threadMu, Nil, "join", u, a, "run"))
    BY <1>k, SMT DEF LockCall, Call
  <2> QED  BY <1>l, <2>1, <2>2 DEF Join
<1>t. /\ \A ret \in {"fork", "start", "finish", "exit", "collect"} :
           \A on : LockCall(ThreadCall(ret, on))
      /\ \A on \in Thread : LockCall(ThreadCall("forkNew", on))
  BY <1>k, MadeFields DEF LockCall
<1>7. CASE SomeCreateT(t) \/ SomeNewSelf(t)
  <2>1. PICK u \in Thread : CreateT(t, u) \/ NewSelf(t, u)
    BY <1>7 DEF SomeCreateT, SomeNewSelf
  <2>2. /\ CallOK("enter", ThreadCall("forkNew", u))
        /\ CallOK("enter", ThreadCall("finish", u))
    BY <1>t DEF CallOK, InLock, InWait
  <2>3. CallOK("made", call[u]) /\ CallOK("promised", call[u])
    BY <1>q
  <2>4. pc[t] # pc[u]
    BY <2>1 DEF CreateT, NewSelf
  <2> QED  BY <1>1, <2>1, <2>2, <2>3, <2>4 DEF CreateT, NewSelf, CallsOK
<1>8. CASE \/ AlertPause(t) \/ PauseAgain(t) \/ PauseWakes(t) \/ PauseEnds(t)
           \/ ForkNone(t) \/ ForkNew(t) \/ Finish(t)
  <2>1. CASE AlertPause(t) \/ PauseAgain(t) \/ PauseWakes(t) \/ PauseEnds(t)
    <3>1. call[t] = NoCall
      BY <1>1, <2>1 DEF AlertPause, PauseAgain, PauseWakes, PauseEnds, Client, CallOK
    <3>2. /\ UNCHANGED call
          /\ \E x \in {"run", "pause", "pausing", "paused"} : pc' = [pc EXCEPT ![t] = x]
      BY <2>1 DEF AlertPause, PauseAgain, PauseTurn, PauseWakes, PauseEnds
    <3> QED  BY <1>p, <1>n, <3>1, <3>2
  <2>3. CASE ForkNone(t) \/ Finish(t)
    BY <1>p, <1>q, <2>3 DEF ForkNone, Finish
  <2>4. CASE ForkNew(t)
    <3>1. call[t].on # Nil
      BY <1>1, <2>4 DEF CallOK, ForkNew
    <3> QED  BY <1>p, <1>q, <2>4, <3>1 DEF ForkNew
  <2> QED  BY <1>8, <2>1, <2>3, <2>4
<1>9. CASE Fork(t) \/ Exit(t) \/ Reborn(t)
  <2>1. \/ UNCHANGED call /\ pc' = [pc EXCEPT ![t] = "newSelf"]
        \/ \E ret \in {"fork", "finish", "start"} : LockMutex(t, ThreadCall(ret, Nil))
    BY <1>9 DEF Fork, Exit, Reborn
  <2> QED  BY <1>l, <1>p, <1>q, <1>t, <2>1
<1>10. CASE CollectBegins(t)
  <2>1. LockCall(Call(threadMu, Nil, "collect", Nil, FALSE, pc[t]))
    BY SMT DEF LockCall, Call
  <2> QED  BY <1>l, <1>10, <2>1 DEF CollectBegins
<1>11. CASE Start(t) \/ Ends(t) \/ JoinDone(t) \/ JoinFinally(t) \/ Collect(t)
  <2>1. call[t].back \in {"run", "create", "newSelf"}
    BY <1>1, CallLemma
  <2>2. \E l \in {"run", "create", "newSelf", "gone"} :
          pc' = [pc EXCEPT ![t] = l] /\ call' = [call EXCEPT ![t] = NoCall]
    BY <1>11, <2>1 DEF Start, Ends, JoinDone, JoinFinally, Collect
  <2> QED  BY <1>m, <1>n, <2>2
<1>12. CASE Rouse(t)
  <2>1. CallOK("enter", ThreadCall("start", Nil))
    BY <1>t DEF CallOK, InLock, InWait
  <2>2. CASE pc[call[t].on] = "made"
    BY <1>1, <1>n, <1>12, <2>1, <2>2 DEF Rouse, CallsOK
  <2>3. CASE pc[call[t].on] # "made"
    BY <1>m, <1>n, <1>12, <2>3 DEF Rouse
  <2> QED  BY <2>2, <2>3
<1>13. CASE BroadcastEnd(t)
  <2>2. CASE call[t].on = Nil
    BY <1>l, <1>t, <1>13, <2>2 DEF BroadcastEnd
  <2>3. CASE call[t].on # Nil
    <3>1. CallOK("idle", call[call[t].on]) /\ CallOK("idle", NoCall)
      BY <1>q
    <3> QED  BY <1>1, <1>n, <1>13, <2>3, <3>1 DEF BroadcastEnd, CallsOK
  <2> QED  BY <2>2, <2>3
<1>14. CASE ForkIdle(t)
  <2>1. Head(idleThreads) \in Thread /\ Head(idleThreads) # Nil
    BY <1>k, <1>14, HeadTailProperties DEF ForkIdle, TypeOK
  <2>2. [call[t] EXCEPT !.on = Head(idleThreads)].on # Nil
    BY <1>1, <2>1, SMT DEF CallType
  <2>3. call' = [call EXCEPT ![t] = [call[t] EXCEPT !.on = Head(idleThreads)]]
    BY <1>14 DEF ForkIdle
  <2> QED  BY <1>m, <1>q, <1>14, <2>2, <2>3 DEF ForkIdle
<1>c. LET r == [call[t] EXCEPT !.c = Nil]
      IN /\ r.m = call[t].m /\ r.ret = call[t].ret /\ r.on = call[t].on
         /\ r.alert = call[t].alert
  BY <1>1, SMT DEF CallType
<1>15. CASE EnterCSect(t)
  <2> DEFINE r == call[t]
             q == [call[t] EXCEPT !.c = Nil]
  <2>1. pc' = [pc EXCEPT ![t] = r.ret] /\ LockCall(r)
    BY <1>1, <1>15 DEF EnterCSect, CallOK, InLock
  <2>2. CASE r.ret = "run"
    BY <1>m, <1>n, <1>15, <2>1, <2>2 DEF EnterCSect
  <2>3. CASE r.ret = "waited"
    <3>1. call' = [call EXCEPT ![t] = r] /\ CallOK("waited", r)
      BY <1>k, <1>15, <2>1, <2>3
         DEF EnterCSect, LockCall, WaitCall, CallOK, InLock, InWait
    <3> QED  BY <1>m, <2>1, <2>3, <3>1
  <2>4. CASE r.ret \notin {"run", "waited"}
    <3>1. call' = [call EXCEPT ![t] = q]
      BY <1>15, <2>4 DEF EnterCSect
    <3>2. CallOK(r.ret, q)
      BY <1>c, <2>1, <2>4 DEF LockCall, JoinCall, CallOK, InLock, InWait
    <3> QED  BY <1>m, <2>1, <3>1, <3>2
  <2> QED  BY <2>2, <2>3, <2>4
<1>16. CASE SemaWait(t) \/ AllocCSect(t) \/ InstallCSect(t)
  <2>1. LockCall(call[t])
    BY <1>1, <1>16 DEF SemaWait, AllocCSect, InstallCSect, CallOK, InLock, InWait,
       LockCall, WaitCall
  <2>2. \A x \in InLock : CallOK(x, call[t])
    BY <2>1 DEF CallOK, InLock, InWait
  <2>3. CASE SemaWait(t)
    BY <1>l, <2>1, <2>3 DEF SemaWait
  <2>4. CASE AllocCSect(t) \/ InstallCSect(t)
    <3>1. UNCHANGED call /\ \E x \in InLock : pc' = [pc EXCEPT ![t] = x]
      BY <2>4 DEF AllocCSect, InstallCSect, InLock
    <3> QED  BY <1>p, <2>2, <3>1
  <2> QED  BY <1>16, <2>3, <2>4
<1>17. CASE WaitUnlock(t) \/ WaitTest(t)
  <2>1. WaitCall(call[t])
    BY <1>1, <1>17 DEF WaitUnlock, WaitTest, CallOK, InWait
  <2>2. \A x \in InWait : CallOK(x, call[t])
    BY <2>1 DEF CallOK, InLock, InWait
  <2>3. UNCHANGED call /\ \E x \in InWait : pc' = [pc EXCEPT ![t] = x]
    BY <1>17 DEF WaitUnlock, WaitTest, InWait
  <2> QED  BY <1>p, <2>2, <2>3
<1>18. CASE WaitReturns(t)
  <2>0. WaitCall(call[t])
    BY <1>1, <1>18 DEF WaitReturns, CallOK, InWait
  <2>2. CASE call[t].on = Nil
    BY <1>m, <1>n, <1>18, <2>2 DEF WaitReturns
  <2>3. CASE call[t].on # Nil
    <3>1. call' = [call EXCEPT ![t] = [call[t] EXCEPT !.c = Nil]]
      BY <1>18, <2>3 DEF WaitReturns
    <3>2. \E l \in {"join", "finally"} : pc' = [pc EXCEPT ![t] = l]
      BY <1>18, <2>3 DEF WaitReturns
    <3>3. JoinCall([call[t] EXCEPT !.c = Nil])
      BY <1>c, <2>0, <2>3 DEF WaitCall, JoinCall
    <3>4. \A l \in {"join", "finally"} : CallOK(l, [call[t] EXCEPT !.c = Nil])
      BY <3>3 DEF CallOK, InLock, InWait
    <3> QED  BY <1>m, <3>1, <3>2, <3>4
  <2> QED  BY <2>2, <2>3
<1>19. CASE JoinWaits(t)
  <2>0. JoinCall(call[t])
    BY <1>1, <1>19 DEF JoinWaits, CallOK
  <2>1. call[t].on \in Thread
    BY <1>r, <2>0 DEF JoinCall
  <2>2. cond[call[t].on] # Nil
    BY <1>k, <2>1 DEF TypeOK
  <2> DEFINE r == [call[t] EXCEPT !.c = cond[call[t].on]]
             q == [r EXCEPT !.ret = "waited"]
  <2>3. /\ r.m = call[t].m /\ r.c = cond[call[t].on] /\ r.ret = call[t].ret
        /\ r.on = call[t].on /\ r.alert = call[t].alert
    BY <1>1, SMT DEF CallType
  <2>4. /\ q.m = call[t].m /\ q.c = cond[call[t].on] /\ q.ret = "waited"
        /\ q.on = call[t].on /\ q.alert = call[t].alert
    BY <1>1, SMT DEF CallType
  <2>5. WaitCall(q)
    BY <2>0, <2>2, <2>4 DEF WaitCall, JoinCall
  <2>6. WaitCall(r)
    BY <2>0, <2>2, <2>3 DEF WaitCall, JoinCall
  <2>7. CASE r.alert /\ alerted[t]
    <3>1. CallOK("finally", call[t])
      BY <2>0 DEF CallOK, InLock, InWait
    <3> QED  BY <1>p, <1>19, <2>7, <3>1 DEF JoinWaits, AlertEnter
  <2>8. CASE r.alert /\ ~alerted[t]
    BY <1>w, <1>19, <2>5, <2>8 DEF JoinWaits, AlertEnter
  <2>9. CASE ~r.alert
    BY <1>w, <1>19, <2>6, <2>9 DEF JoinWaits
  <2> QED  BY <2>7, <2>8, <2>9
<1> QED
  BY CallFrame, <1>2, <1>3, <1>4, <1>6, <1>7, <1>8, <1>9, <1>10, <1>11, <1>12,
     <1>13, <1>14, <1>15, <1>16, <1>17, <1>18, <1>19

\* What the collector puts in the cache: what was there, or was freed.
LEMMA FreeLemma ==
  ASSUME MutexTypes, NEW dead \in SUBSET Mutex, \A m \in dead : cs[m] # Nil,
         FreeCSect(dead)
  PROVE  /\ cs' = [m \in Lock |-> IF m \in dead THEN Nil ELSE cs[m]]
         /\ cSectCache' \in Seq(CSect) /\ Len(cSectCache') <= CSectCacheSize
         /\ Len(cSectCache') <= Len(cSectCache) + Cardinality({cs[m] : m \in dead})
         /\ Cardinality({cs[m] : m \in dead}) \in Nat
         /\ \A s : Contains(cSectCache', s) =>
              Contains(cSectCache, s) \/ \E m \in dead : cs[m] = s
<1> DEFINE S == {cs[m] : m \in dead}
           q == SetToSeq(S)
           freed == cSectCache \o q
           n == Cardinality(S)
<1>1. S \subseteq CSect
  BY Constants DEF MutexTypes
<1>2. IsFiniteSet(S)
  <2>1. /\ Cardinality(Lock) \in Nat /\ Cardinality(Thread) \in Nat
        /\ CSectCacheSize \in Nat
    BY Constants, FS_CardinalityType, FiniteAssumption, BoundsAssumption
  <2>2. Cardinality(Lock) + CSectCacheSize + Cardinality(Thread) \in Int /\ 1 \in Int
    BY <2>1, SMT
  <2>3. IsFiniteSet(CSect)
    BY <2>2, FS_Interval DEF CSect
  <2> QED  BY <1>1, <2>3, FS_Subset
<1> HIDE DEF S
<1>3. n \in Nat /\ \E f \in [1 .. n -> S] : IsInjective(f)
  <2>1. n \in Nat /\ ExistsBijection(1 .. n, S)
    BY <1>2, FS_CardinalityType
  <2> QED  BY <2>1 DEF ExistsBijection, Bijection, Injection
<1>4. q \in [1 .. n -> S]
  BY <1>3 DEF SetToSeq
<1>5. q \in Seq(CSect) /\ Len(q) = n /\ \A i \in 1 .. n : q[i] \in S
  <2>1. q \in Seq(S)
    BY <1>3, <1>4, IsASeq
  <2>2. DOMAIN q = 1 .. Len(q) /\ Len(q) \in Nat /\ DOMAIN q = 1 .. n
    BY <1>4, <2>1, LenProperties
  <2>3. Len(q) = n
    BY <1>3, <2>2, SMT
  <2>4. q \in [1 .. n -> CSect]
    BY <1>1, <1>4
  <2> QED  BY <1>3, <1>4, <2>3, <2>4, IsASeq
<1> HIDE DEF q, n
<1>6. cSectCache \in Seq(CSect) /\ Len(cSectCache) \in Nat
  BY LenProperties DEF MutexTypes
<1>7. /\ freed \in Seq(CSect) /\ Len(freed) = Len(cSectCache) + n
      /\ \A i \in 1 .. Len(cSectCache) + n :
           freed[i] = IF i <= Len(cSectCache) THEN cSectCache[i]
                      ELSE q[i - Len(cSectCache)]
  BY <1>5, <1>6, ConcatProperties, Zenon
<1>8. \A i \in 1 .. Len(freed) : Contains(cSectCache, freed[i]) \/ freed[i] \in S
  <2> SUFFICES ASSUME NEW i \in 1 .. Len(freed)
               PROVE  Contains(cSectCache, freed[i]) \/ freed[i] \in S
    OBVIOUS
  <2>1. CASE i <= Len(cSectCache)
    <3>1. i \in 1 .. Len(cSectCache) /\ freed[i] = cSectCache[i]
      BY <1>3, <1>6, <1>7, <2>1, SMT
    <3> QED  BY <3>1 DEF Contains
  <2>2. CASE ~(i <= Len(cSectCache))
    <3>1. i - Len(cSectCache) \in 1 .. n /\ freed[i] = q[i - Len(cSectCache)]
      BY <1>3, <1>6, <1>7, <2>2, SMT
    <3> QED  BY <1>5, <3>1
  <2> QED  BY <2>1, <2>2
<1> HIDE DEF freed
<1>9. CSectCacheSize \in Nat
  BY BoundsAssumption
<1>10. cSectCache' = IF Len(freed) > CSectCacheSize
                     THEN SubSeq(freed, 1, CSectCacheSize) ELSE freed
  BY DEF FreeCSect, freed, q, S
<1>11. /\ cSectCache' \in Seq(CSect) /\ Len(cSectCache') <= CSectCacheSize
       /\ Len(cSectCache') <= Len(freed)
       /\ \A i \in 1 .. Len(cSectCache') : i \in 1 .. Len(freed) /\ cSectCache'[i] = freed[i]
  <2>0. Len(freed) \in Nat
    BY <1>7, LenProperties
  <2>1. CASE Len(freed) > CSectCacheSize
    <3>1. \A i \in 1 .. CSectCacheSize : i \in 1 .. Len(freed)
      BY <1>9, <2>0, <2>1, SMT
    <3>2. \A i \in 1 .. CSectCacheSize : freed[i] \in CSect
      BY <1>7, <3>1, ElementOfSeq
    <3>3. LET p == SubSeq(freed, 1, CSectCacheSize)
          IN /\ p \in Seq(CSect) /\ Len(p) = CSectCacheSize
             /\ \A i \in 1 .. CSectCacheSize : p[i] = freed[i]
      BY <1>9, <2>0, <3>2, SubSeqProperties, SMT
    <3>4. cSectCache' = SubSeq(freed, 1, CSectCacheSize)
      BY <1>10, <2>1
    <3> QED  BY <1>9, <2>0, <2>1, <3>1, <3>3, <3>4, SMT
  <2>2. CASE ~(Len(freed) > CSectCacheSize)
    BY <1>7, <1>9, <1>10, <2>0, <2>2, SMT
  <2> QED  BY <2>1, <2>2
<1>12. \A s : Contains(cSectCache', s) => Contains(cSectCache, s) \/ s \in S
  BY <1>8, <1>11 DEF Contains
<1> QED
  BY <1>3, <1>7, <1>11, <1>12 DEF FreeCSect, S, n

\* Every step keeps the types of mutexes and critical sections.
LEMMA MutexTypesStep ==
  ASSUME TypeOK, CallsOK, NEW t \in Thread, Step(t)
  PROVE  MutexTypes'
<1>0. MutexTypes /\ threadMu \in Lock /\ Mutex \subseteq Lock
  BY Constants DEF TypeOK, MutexTypes
<1>1. /\ cs \in [Lock -> CSect \cup {Nil}]
      /\ held \in [Lock -> BOOLEAN]
      /\ csOwner \in [CSect -> Thread \cup {Nil}]
      /\ cSectCache \in Seq(CSect) /\ Len(cSectCache) <= CSectCacheSize
  BY <1>0 DEF MutexTypes
<1>2. ASSUME NEW m \in Lock, UnlockMutex(m)
      PROVE  MutexTypes'
  <2>1. held' \in [Lock -> BOOLEAN]
    BY <1>1, <1>2 DEF UnlockMutex
  <2>2. csOwner' \in [CSect -> Thread \cup {Nil}]
    BY <1>1, <1>2 DEF UnlockMutex
  <2>3. cs' = cs /\ cSectCache' = cSectCache
    BY <1>2 DEF UnlockMutex
  <2> QED  BY <1>1, <2>1, <2>2, <2>3 DEF MutexTypes
<1>3. pc[t] \in InLock \cup InWait => call[t].m \in Lock
  BY <1>0 DEF CallsOK, CallOK, LockCall, WaitCall
<1>4. CASE UNCHANGED mutexVars
  BY <1>0, <1>4 DEF mutexVars, MutexTypes
<1>5. CASE SomeRelease(t)
  BY <1>0, <1>2, <1>5 DEF SomeRelease, Release
<1>6. CASE AllocCSect(t)
  <2>1. call[t].m \in Lock
    BY <1>3, <1>6 DEF AllocCSect, InLock
  <2>2. CASE cSectCache = <<>>
    BY <1>1, <1>6, <2>2 DEF AllocCSect, MutexTypes
  <2>3. CASE cSectCache # <<>>
    <3>1. Len(cSectCache) \in Nat /\ Len(cSectCache) # 0
      BY <1>1, <2>3, LenProperties, EmptySeq
    <3>2. Len(cSectCache) \in 1 .. Len(cSectCache)
      BY <3>1, SMT
    <3>3. Last(cSectCache) \in CSect
      BY <1>1, <3>2, ElementOfSeq DEF Last
    <3>4. \A i \in 1 .. Len(cSectCache) - 1 : cSectCache[i] \in CSect
      <4>1. \A i \in 1 .. Len(cSectCache) - 1 : i \in 1 .. Len(cSectCache)
        BY <3>1, SMT
      <4> QED  BY <1>1, <4>1, ElementOfSeq
    <3>5. /\ Front(cSectCache) \in Seq(CSect)
          /\ Len(Front(cSectCache)) = Len(cSectCache) - 1
      <4> DEFINE n == Len(cSectCache) - 1
      <4>1. n \in Int /\ 1 \in Int /\ 1 <= n + 1 /\ n - 1 + 1 = n
        BY <3>1, SMT
      <4>2. \A i \in 1 .. n : cSectCache[i] \in CSect
        BY <3>4
      <4>3. Front(cSectCache) = SubSeq(cSectCache, 1, n)
        BY DEF Front
      <4> HIDE DEF n
      <4>4. /\ SubSeq(cSectCache, 1, n) \in Seq(CSect)
            /\ Len(SubSeq(cSectCache, 1, n)) = IF 1 <= n THEN n - 1 + 1 ELSE 0
        BY <4>1, <4>2, SubSeqProperties
      <4>5. (IF 1 <= n THEN n - 1 + 1 ELSE 0) = n
        <5>1. \A k \in Nat : k # 0 =>
                (IF 1 <= k - 1 THEN k - 1 - 1 + 1 ELSE 0) = k - 1
          BY SMT
        <5> QED  BY <3>1, <5>1, Zenon DEF n
      <4> QED  BY <4>3, <4>4, <4>5 DEF n
    <3>6. CSectCacheSize \in Nat
      BY BoundsAssumption
    <3>7. Len(Front(cSectCache)) <= CSectCacheSize
      BY <1>1, <3>1, <3>5, <3>6, SMT
    <3> QED
      BY <1>1, <1>6, <2>1, <2>3, <3>3, <3>5, <3>7 DEF AllocCSect, MutexTypes
  <2> QED  BY <2>2, <2>3
<1>7. CASE InstallCSect(t)
  <2>1. NewCSect \in CSect
    BY <1>7 DEF InstallCSect, NewCSect, NotMade
  <2>2. call[t].m \in Lock
    BY <1>3, <1>7 DEF InstallCSect, InLock
  <2> QED  BY <1>1, <1>7, <2>1, <2>2, SMT DEF InstallCSect, MutexTypes
<1>8. CASE EnterCSect(t)
  <2>2. call[t].m \in Lock
    BY <1>3, <1>8 DEF EnterCSect, InLock
  <2>3. held' \in [Lock -> BOOLEAN]
    BY <1>1, <1>8, <2>2 DEF EnterCSect
  <2>4. csOwner' \in [CSect -> Thread \cup {Nil}]
    BY <1>1, <1>8 DEF EnterCSect
  <2>5. cs' = cs /\ cSectCache' = cSectCache
    BY <1>8 DEF EnterCSect
  <2> QED  BY <1>1, <2>3, <2>4, <2>5 DEF MutexTypes
<1>9. CASE WaitUnlock(t)
  BY <1>2, <1>3, <1>9 DEF WaitUnlock, InWait
<1>10. CASE \/ ForkIdle(t) \/ ForkNone(t) \/ ForkNew(t) \/ Start(t) \/ Finish(t)
            \/ Ends(t) \/ JoinDone(t) \/ JoinFinally(t)
  BY <1>0, <1>2, <1>10 DEF ForkIdle, ForkNone, ForkNew, Start, Finish, Ends,
     JoinDone, JoinFinally
<1>11. CASE Collect(t)
  <2>1. PICK dead \in SUBSET {m \in Mutex : Unused(m)} : FreeCSect(dead)
    BY <1>11 DEF Collect
  <2>2. dead \in SUBSET Mutex /\ \A m \in dead : cs[m] # Nil
    BY DEF Unused
  <2>3. /\ cs' = [m \in Lock |-> IF m \in dead THEN Nil ELSE cs[m]]
        /\ cSectCache' \in Seq(CSect) /\ Len(cSectCache') <= CSectCacheSize
    BY <1>0, <2>1, <2>2, FreeLemma
  <2>4. cs' \in [Lock -> CSect \cup {Nil}]
    BY <1>1, <2>3
  <2> QED  BY <1>1, <1>11, <2>3, <2>4 DEF Collect, MutexTypes
<1> QED
  BY MutexFrame, <1>4, <1>5, <1>6, <1>7, <1>8, <1>9, <1>10, <1>11

-----------------------------------------------------------------------------
(* Which steps concern the births and deaths of threads.                   *)

\* The records of calls, with a field changed.
LEMMA FieldLemma ==
  ASSUME NEW r \in CallType
  PROVE  /\ \A c : LET q == [r EXCEPT !.c = c]
                   IN /\ q.m = r.m /\ q.c = c /\ q.ret = r.ret /\ q.on = r.on
                      /\ q.alert = r.alert
         /\ \A u : LET q == [r EXCEPT !.on = u]
                   IN /\ q.m = r.m /\ q.c = r.c /\ q.ret = r.ret /\ q.on = u
                      /\ q.alert = r.alert
         /\ \A ret : LET q == [r EXCEPT !.ret = ret]
                     IN /\ q.m = r.m /\ q.c = r.c /\ q.ret = ret /\ q.on = r.on
                        /\ q.alert = r.alert
BY SMT DEF CallType

\* t alone moves, in none of the parts of RolesOK, or goes on in the same.
Alone(t) == \A x \in Thread : x # t => pc'[x] = pc[x] /\ call'[x] = call[x]

SameRoles(t) ==
  /\ Alone(t)
  /\ pc[t] \notin Unborn \cup {"idle", "gone", "bcast"}
  /\ pc'[t] \notin Unborn \cup {"idle", "gone", "bcast"}
  /\ \A u \in Thread : /\ Forks(t, u)' <=> Forks(t, u)
                       /\ Rouses(t, u)' <=> Rouses(t, u)
                       /\ Leaves(t, u)' <=> Leaves(t, u)
  /\ Starts(t)' => Starts(t)

PlainStep(t) ==
  \/ SomeAcquire(t) \/ SomeJoin(t) \/ Fork(t) \/ Exit(t) \/ CollectBegins(t)
  \/ SemaWait(t) \/ AlertPause(t) \/ PauseAgain(t) \/ PauseWakes(t)
  \/ PauseEnds(t) \/ WaitUnlock(t) \/ WaitTest(t) \/ ForkNone(t) \/ SomeWait(t)
  \/ SomeAlertWait(t) \/ JoinWaits(t) \/ JoinDone(t) \/ JoinFinally(t)
  \/ Collect(t) \/ WaitReturns(t) \/ AllocCSect(t) \/ InstallCSect(t)
  \/ Start(t) \/ EnterCSect(t)

LEMMA PlainRoles ==
  ASSUME TypeOK, CallsOK, NEW t \in Thread, PlainStep(t)
  PROVE  SameRoles(t)
<1>1. /\ pc \in [Thread -> Labels] /\ call \in [Thread -> CallType]
      /\ CallOK(pc[t], call[t]) /\ call[t] \in CallType
  BY DEF TypeOK, CallsOK
<1>r. call[t].on \in Thread \cup {Nil} /\ call[t].ret \in Returns
  BY <1>1, CallLemma
<1>k. Nil \notin Thread /\ Nil \notin Waitable /\ Nil \notin Mutex
  BY Constants
<1> DEFINE Plain(l) == l \notin Unborn \cup {"idle", "gone", "bcast", "rouse", "forkNew", "finish", "start"}
           NoRole(r) == r.ret \notin {"forkNew", "finish", "start"}
\* t moves from where it has no role to where it has none.
<1>m. ASSUME NEW l, NEW r, pc' = [pc EXCEPT ![t] = l], call' = [call EXCEPT ![t] = r],
             Plain(pc[t]), Plain(l),
             pc[t] \in InLock => NoRole(call[t]), l \in InLock => NoRole(r)
      PROVE  SameRoles(t)
  BY <1>1, <1>m DEF SameRoles, Alone, Forks, Rouses, Leaves, Starts, InLock
<1>p. ASSUME NEW l, pc' = [pc EXCEPT ![t] = l], UNCHANGED call,
             Plain(pc[t]), Plain(l),
             pc[t] \in InLock => NoRole(call[t]), l \in InLock => NoRole(call[t])
      PROVE  SameRoles(t)
  BY <1>1, <1>p DEF SameRoles, Alone, Forks, Rouses, Leaves, Starts, InLock
<1>l. ASSUME NEW r, LockMutex(t, r), Plain(pc[t]), pc[t] \notin InLock, NoRole(r)
      PROVE  SameRoles(t)
  <2>1. Plain("alloc") /\ Plain("enter")
    BY DEF Unborn
  <2> HIDE DEF Plain, NoRole
  <2> QED  BY <1>m, <1>l, <2>1 DEF LockMutex
<1>n. NoRole(NoCall)
  BY MadeFields
<1>a. \A x \in {"run", "unlock", "sema", "waited", "return", "raise", "pause", "pausing", "paused", "join", "finally",
                "create", "newSelf", "collect", "fork", "exit", "alloc", "new", "enter"} : Plain(x)
  BY DEF Unborn
<1>b. \A x \in {"run", "unlock", "sema", "waited", "return", "raise", "pause", "pausing", "paused", "join", "finally",
                "create", "newSelf", "collect", "fork", "exit"} : Plain(x) /\ x \notin InLock
  BY DEF Unborn, InLock
<1> HIDE DEF Plain, NoRole
<1>c. /\ \A m : NoRole(Call(m, Nil, "run", Nil, FALSE, "run"))
      /\ \A u, a : NoRole(Call(threadMu, Nil, "join", u, a, "run"))
      /\ \A b : NoRole(Call(threadMu, Nil, "collect", Nil, FALSE, b))
  BY SMT DEF Call, NoRole
<1>2. ASSUME SomeAcquire(t) \/ SomeJoin(t)
      PROVE  SameRoles(t)
  <2>1. pc[t] = "run"
    BY <1>2 DEF SomeAcquire, Acquire, SomeJoin, Join, Client
  <2>2. PICK r : LockMutex(t, r) /\ NoRole(r)
    <3>1. CASE SomeAcquire(t)
      <4>1. PICK m \in Mutex : LockMutex(t, Call(m, Nil, "run", Nil, FALSE, "run"))
        BY <3>1 DEF SomeAcquire, Acquire
      <4> QED  BY <1>c, <4>1
    <3>2. CASE SomeJoin(t)
      <4>1. PICK u \in Thread, a \in BOOLEAN : LockMutex(t, Call(threadMu, Nil, "join", u, a, "run"))
        BY <3>2 DEF SomeJoin, Join
      <4> QED  BY <1>c, <4>1
    <3> QED  BY <1>2, <3>1, <3>2
  <2> QED  BY <1>b, <1>l, <2>1, <2>2
<1>3. ASSUME Fork(t)
      PROVE  SameRoles(t)
  <2>1. NoRole(ThreadCall("fork", Nil))
    BY MadeFields DEF NoRole
  <2> QED  BY <1>b, <1>l, <1>3, <2>1 DEF Fork, Client
<1>4. ASSUME Exit(t)
      PROVE  SameRoles(t)
  <2>1. pc[t] = "run"
    BY <1>4 DEF Exit, Client
  <2>2. CASE pc' = [pc EXCEPT ![t] = "newSelf"] /\ UNCHANGED call
    BY <1>b, <1>p, <2>1, <2>2
  <2>3. CASE LockMutex(t, ThreadCall("finish", Nil))
    <3>1. PICK l \in {"alloc", "enter"} : pc' = [pc EXCEPT ![t] = l]
      BY <2>3 DEF LockMutex
    <3>2. call' = [call EXCEPT ![t] = ThreadCall("finish", Nil)]
      BY <2>3 DEF LockMutex
    <3>3. /\ pc'[t] = l /\ call'[t].on = Nil /\ call'[t].ret = "finish"
          /\ Alone(t)
      BY <1>1, <3>1, <3>2, MadeFields DEF Alone
    <3> QED
      BY <1>k, <2>1, <3>3, Zenon
         DEF SameRoles, Forks, Rouses, Leaves, Starts, InLock, Unborn
  <2> QED  BY <1>4, <2>2, <2>3 DEF Exit
<1>5. ASSUME CollectBegins(t)
      PROVE  SameRoles(t)
  BY <1>b, <1>c, <1>l, <1>5 DEF CollectBegins
<1>6. ASSUME SemaWait(t)
      PROVE  SameRoles(t)
  <2>1. call[t].ret \in {"run", "waited", "join"}
    BY <1>1, <1>6 DEF SemaWait, CallOK, WaitCall, InWait
  <2>2. NoRole(call[t])
    BY <2>1 DEF NoRole
  <2> QED  BY <1>b, <1>l, <1>6, <2>2 DEF SemaWait
<1>7. ASSUME \/ AlertPause(t) \/ PauseAgain(t) \/ PauseWakes(t) \/ PauseEnds(t)
             \/ WaitUnlock(t) \/ WaitTest(t) \/ ForkNone(t)
      PROVE  SameRoles(t)
  <2>1. /\ pc[t] \in {"run", "pause", "pausing", "paused", "unlock", "waited", "fork"}
        /\ UNCHANGED call
        /\ \E l \in {"run", "pause", "pausing", "paused", "sema", "return", "raise", "create"} :
             pc' = [pc EXCEPT ![t] = l]
    BY <1>7 DEF AlertPause, PauseAgain, PauseTurn, PauseWakes, PauseEnds, Client,
       WaitUnlock, WaitTest, ForkNone
  <2> QED  BY <1>b, <1>p, <2>1
<1>8. ASSUME NEW r, pc[t] \in {"run", "join"}, InnerWait(t, r)
      PROVE  SameRoles(t)
  BY <1>b, <1>m, <1>8 DEF InnerWait
<1>9. ASSUME NEW r, NEW l \in {"run", "finally"}, pc[t] \in {"run", "join"}, AlertEnter(t, r, l)
      PROVE  SameRoles(t)
  <2>1. CASE alerted[t]
    BY <1>b, <1>p, <1>9, <2>1 DEF AlertEnter
  <2>2. CASE ~alerted[t]
    BY <1>8, <1>9, <2>2 DEF AlertEnter
  <2> QED  BY <2>1, <2>2
<1>10. ASSUME SomeWait(t) \/ SomeAlertWait(t)
      PROVE  SameRoles(t)
  <2>1. PICK m \in Mutex, c \in Cond : Wait(t, m, c) \/ AlertWait(t, m, c)
    BY <1>10 DEF SomeWait, SomeAlertWait
  <2>2. CASE Wait(t, m, c)
    <3> DEFINE r == Call(m, c, "run", Nil, FALSE, "run")
    <3>1. pc[t] = "run" /\ InnerWait(t, r)
      BY <2>2 DEF Wait, Client
    <3> HIDE DEF r
    <3> QED  BY <1>8, <3>1
  <2>3. CASE AlertWait(t, m, c)
    BY <1>9, <2>3 DEF AlertWait, Client
  <2> QED  BY <2>1, <2>2, <2>3
<1>11. ASSUME JoinWaits(t)
      PROVE  SameRoles(t)
  BY <1>8, <1>9, <1>11 DEF JoinWaits
<1>12. ASSUME JoinDone(t) \/ JoinFinally(t) \/ Collect(t) \/ WaitReturns(t)
      PROVE  SameRoles(t)
  <2>1. /\ pc[t] \in {"join", "finally", "collect", "return", "raise"}
        /\ \E l \in {"run", "join", "finally", "create", "newSelf"} : \E r :
             pc' = [pc EXCEPT ![t] = l] /\ call' = [call EXCEPT ![t] = r]
    <3>1. call[t].back \in {"run", "create", "newSelf"}
      BY <1>1, CallLemma
    <3>2. CASE JoinDone(t) \/ JoinFinally(t) \/ Collect(t)
      BY <3>1, <3>2 DEF JoinDone, JoinFinally, Collect
    <3>3. CASE WaitReturns(t)
      <4>1. CASE call[t].on = Nil
        BY <3>3, <4>1 DEF WaitReturns
      <4>2. CASE call[t].on # Nil
        <5>1. call' = [call EXCEPT ![t] = [call[t] EXCEPT !.c = Nil]]
          BY <3>3, <4>2 DEF WaitReturns
        <5> QED  BY <3>3, <4>2, <5>1 DEF WaitReturns
      <4> QED  BY <4>1, <4>2
    <3> QED  BY <1>12, <3>2, <3>3
  <2> QED  BY <1>b, <1>m, <2>1
<1>13. ASSUME AllocCSect(t) \/ InstallCSect(t)
      PROVE  SameRoles(t)
  <2>1. /\ pc[t] \in InLock /\ UNCHANGED call
        /\ \E l \in InLock : pc' = [pc EXCEPT ![t] = l]
    BY <1>13 DEF AllocCSect, InstallCSect, InLock
  <2>2. pc'[t] \in InLock /\ Alone(t)
    BY <1>1, <2>1 DEF Alone
  <2> QED
    BY <2>1, <2>2 DEF SameRoles, Forks, Rouses, Leaves, Starts, InLock, Unborn
<1>14. ASSUME Start(t)
      PROVE  SameRoles(t)
  <2>1. /\ pc[t] = "start" /\ pc'[t] = "run" /\ Alone(t)
    BY <1>1, <1>14 DEF Start, Alone
  <2> QED
    BY <2>1 DEF SameRoles, Forks, Rouses, Leaves, Starts, InLock, Unborn
<1>15. ASSUME EnterCSect(t)
      PROVE  SameRoles(t)
  <2>1. /\ pc[t] = "enter" /\ pc'[t] = call[t].ret /\ Alone(t) /\ LockCall(call[t])
    BY <1>1, <1>15 DEF EnterCSect, Alone, CallOK, InLock
  <2>2. call[t].ret \in {"run", "waited", "forkNew", "join", "fork", "start", "finish",
                         "exit", "collect"}
    BY <2>1 DEF LockCall
  <2>3. call'[t].on = call[t].on \/ call[t].ret = "run"
    BY <1>1, <1>15, FieldLemma DEF EnterCSect
  <2> QED
    BY <2>1, <2>2, <2>3 DEF SameRoles, Forks, Rouses, Leaves, Starts, InLock, Unborn
<1> QED
  BY <1>2, <1>3, <1>4, <1>5, <1>6, <1>7, <1>10, <1>11, <1>12, <1>13, <1>14,
     <1>15 DEF PlainStep

LEMMA RolesFrame ==
  ASSUME TypeOK, CallsOK, NEW t \in Thread, Step(t)
  PROVE  \/ SameRoles(t) /\ UNCHANGED <<waitSema, cond, completed, idleThreads, slots>>
         \/ UNCHANGED callVars /\ UNCHANGED <<waitSema, cond, completed, idleThreads, slots>>
         \/ SomeCreateT(t) \/ SomeNewSelf(t) \/ ForkIdle(t) \/ ForkNew(t)
         \/ Rouse(t) \/ Finish(t) \/ BroadcastEnd(t) \/ Reborn(t) \/ Ends(t)
<1> DEFINE Kept == UNCHANGED <<waitSema, cond, completed, idleThreads, slots>>
<1>1. Kept \/ ForkIdle(t) \/ ForkNew(t) \/ Finish(t) \/ Ends(t)
  BY ThreadFrame DEF threadVars, JoinDone
<1>2. \/ UNCHANGED callVars
      \/ PlainStep(t)
      \/ SomeCreateT(t) \/ SomeNewSelf(t) \/ ForkIdle(t) \/ ForkNew(t)
      \/ Rouse(t) \/ Finish(t) \/ BroadcastEnd(t) \/ Reborn(t) \/ Ends(t)
  BY CallFrame DEF PlainStep
<1> QED  BY <1>1, <1>2, PlainRoles

\* Without its head, a list has all the others.
LEMMA TailLemma ==
  ASSUME NEW s \in Seq(Thread), s # <<>>, NoRepeats(s)
  PROVE  /\ Head(s) \in Thread /\ Contains(s, Head(s))
         /\ Tail(s) \in Seq(Thread) /\ NoRepeats(Tail(s))
         /\ \A w : Contains(Tail(s), w) <=> Contains(s, w) /\ w # Head(s)
<1>1. /\ Head(s) \in Thread /\ Tail(s) \in Seq(Thread)
      /\ Len(Tail(s)) = Len(s) - 1
      /\ \A i \in 1 .. Len(Tail(s)) : Tail(s)[i] = s[i + 1]
      /\ Head(s) = s[1]
  BY HeadTailProperties
<1>2. Len(s) \in Nat /\ Len(s) # 0
  BY LenProperties, EmptySeq
<1>3. 1 \in 1 .. Len(s)
  BY <1>2, SMT
<1>4. \A i \in 1 .. Len(Tail(s)) :
        /\ i + 1 \in 1 .. Len(s) /\ i + 1 # 1 /\ Tail(s)[i] = s[i + 1]
        /\ \A j \in 1 .. Len(Tail(s)) : i + 1 = j + 1 => i = j
  BY <1>1, <1>2, SMT
<1>5. \A i \in 1 .. Len(s) : i = 1 \/ \E k \in 1 .. Len(Tail(s)) : i = k + 1
  <2> SUFFICES ASSUME NEW i \in 1 .. Len(s), i # 1
               PROVE  \E k \in 1 .. Len(Tail(s)) : i = k + 1
    OBVIOUS
  <2>1. i - 1 \in 1 .. Len(Tail(s)) /\ i = (i - 1) + 1
    BY <1>1, <1>2, SMT
  <2> QED  BY <2>1
<1>6. NoRepeats(Tail(s))
  BY <1>4, Zenon DEF NoRepeats
<1>7. Contains(s, Head(s))
  BY <1>1, <1>3 DEF Contains
<1>8. ASSUME NEW w
      PROVE  Contains(Tail(s), w) <=> Contains(s, w) /\ w # Head(s)
  <2>1. Contains(Tail(s), w) => Contains(s, w) /\ w # Head(s)
    BY <1>1, <1>3, <1>4, Zenon DEF Contains, NoRepeats
  <2>2. Contains(s, w) /\ w # Head(s) => Contains(Tail(s), w)
    <3> SUFFICES ASSUME NEW i \in 1 .. Len(s), s[i] # Head(s)
                 PROVE  Contains(Tail(s), s[i])
      BY DEF Contains
    <3>1. PICK k \in 1 .. Len(Tail(s)) : i = k + 1
      BY <1>1, <1>5
    <3>2. Tail(s)[k] = s[i]
      BY <1>1, <3>1
    <3> QED  BY <3>2 DEF Contains
  <2> QED  BY <2>1, <2>2
<1> QED  BY <1>1, <1>6, <1>7, <1>8

\* Where no part of them changes, IdleOK, RolesOK and SemasOwn stay true.
LEMMA RolesSame ==
  ASSUME IdleOK, RolesOK, SemasOwn,
         UNCHANGED <<waitSema, idleThreads, slots>>,
         \A x, u \in Thread : /\ Forks(x, u)' <=> Forks(x, u)
                              /\ Rouses(x, u)' => Rouses(x, u)
                              /\ Leaves(x, u)' <=> Leaves(x, u)
                              /\ Left(x, u)' <=> Left(x, u),
         \A x \in Thread : Starts(x)' => Starts(x),
         \A x \in Thread : \A l \in Unborn \cup {"idle", "gone"} : pc'[x] = l <=> pc[x] = l
  PROVE  IdleOK' /\ RolesOK' /\ SemasOwn'
<1>0. "none" \in Unborn /\ "made" \in Unborn /\ "promised" \in Unborn
  BY DEF Unborn
<1>1. IdleOK'
  BY <1>0 DEF IdleOK
<1>2. SemasOwn'
  BY DEF SemasOwn
<1>3. \A x, u \in Thread : RoleOK(x, u)'
  <2> SUFFICES ASSUME NEW x \in Thread, NEW u \in Thread
               PROVE  RoleOK(x, u)'
    BY Zenon
  <2>1. RoleOK(x, u)
    BY DEF RolesOK
  <2> QED  BY <1>0, <2>1 DEF RoleOK
<1>4. \A x, y, u \in Thread : OneRole(x, y, u)'
  BY DEF RolesOK, OneRole
<1> QED  BY <1>1, <1>2, <1>3, <1>4 DEF RolesOK

\* Every step keeps what is said of births, handing out and succession.
LEMMA RolesStep ==
  ASSUME TypeOK, CallsOK, IdleOK, RolesOK, SemasOwn, SemaphoresOK,
         NEW t \in Thread, Step(t)
  PROVE  IdleOK' /\ RolesOK' /\ SemasOwn'
<1>1. /\ pc \in [Thread -> Labels] /\ call \in [Thread -> CallType]
      /\ call[t] \in CallType /\ idleThreads \in Seq(Thread)
      /\ waitSema \in [Thread -> Thread]
  BY DEF TypeOK
<1>r. call[t].on \in Thread \cup {Nil}
  BY <1>1, CallLemma
<1>k. Nil \notin Thread
  BY Constants
<1>o. \A x, u \in Thread : RoleOK(x, u) /\ \A y \in Thread : OneRole(x, y, u)
  BY DEF RolesOK
<1>i. /\ NoRepeats(idleThreads)
      /\ \A u \in Thread : Contains(idleThreads, u)
           => pc[u] \in {"promised", "idle"} /\ u \notin slots
  BY DEF IdleOK
<1>2. CASE SameRoles(t) /\ UNCHANGED <<waitSema, cond, completed, idleThreads, slots>>
  <2>1. \A x, u \in Thread : /\ Forks(x, u)' <=> Forks(x, u)
                             /\ Rouses(x, u)' => Rouses(x, u)
                             /\ Leaves(x, u)' <=> Leaves(x, u)
                             /\ Left(x, u)' <=> Left(x, u)
    <3> SUFFICES ASSUME NEW x \in Thread, NEW u \in Thread
                 PROVE  /\ Forks(x, u)' <=> Forks(x, u)
                        /\ Rouses(x, u)' => Rouses(x, u)
                        /\ Leaves(x, u)' <=> Leaves(x, u)
                        /\ Left(x, u)' <=> Left(x, u)
      BY Zenon
    <3>1. CASE x = t
      BY <1>2, <3>1 DEF SameRoles, Left
    <3>2. CASE x # t
      BY <1>2, <3>2 DEF SameRoles, Alone, Forks, Rouses, Leaves, Left
    <3> QED  BY <3>1, <3>2
  <2>2. \A x \in Thread : Starts(x)' => Starts(x)
    BY <1>2 DEF SameRoles, Alone, Starts
  <2>3. \A x \in Thread : \A l \in Unborn \cup {"idle", "gone"} : pc'[x] = l <=> pc[x] = l
    BY <1>2 DEF SameRoles, Alone
  <2> QED  BY <1>2, <2>1, <2>2, <2>3, RolesSame
<1>3. CASE UNCHANGED callVars /\ UNCHANGED <<waitSema, cond, completed, idleThreads, slots>>
  <2>1. pc' = pc /\ call' = call
    BY <1>3 DEF callVars
  <2>2. \A x, u \in Thread : /\ Forks(x, u)' <=> Forks(x, u)
                             /\ Rouses(x, u)' => Rouses(x, u)
                             /\ Leaves(x, u)' <=> Leaves(x, u)
                             /\ Left(x, u)' <=> Left(x, u)
    BY <2>1, Zenon DEF Forks, Rouses, Leaves, Left
  <2>3. \A x \in Thread : Starts(x)' => Starts(x)
    BY <2>1, Zenon DEF Starts
  <2> QED  BY <1>3, <2>1, <2>2, <2>3, RolesSame
<1>4. CASE SomeCreateT(t)
  <2>1. PICK u \in Thread : CreateT(t, u)
    BY <1>4 DEF SomeCreateT
  <2>2. /\ pc[t] = "create" /\ pc[u] = "none" /\ t # u
        /\ \A x \in Thread : /\ pc'[x] = IF x = t THEN "enter" ELSE IF x = u THEN "made" ELSE pc[x]
                             /\ call'[x] = IF x = t THEN ThreadCall("forkNew", u) ELSE call[x]
        /\ UNCHANGED <<waitSema, idleThreads, slots>>
    BY <1>1, <2>1 DEF CreateT, threadVars
  <2>3. \A x, v \in Thread : /\ Forks(x, v)' <=> Forks(x, v) \/ (x = t /\ v = u)
                             /\ Rouses(x, v)' <=> Rouses(x, v)
                             /\ Leaves(x, v)' <=> Leaves(x, v)
                             /\ Left(x, v)' <=> Left(x, v)
    BY <2>2, MadeFields DEF Forks, Rouses, Leaves, Left, InLock
  <2>4. \A x \in Thread : Starts(x)' <=> Starts(x)
    BY <2>2, MadeFields DEF Starts, InLock
  <2>5. IdleOK'
    BY <1>i, <2>2 DEF IdleOK
  <2>6. SemasOwn'
    BY <2>2, <2>3 DEF SemasOwn
  <2>7. \A x, v \in Thread : RoleOK(x, v)'
    <3> SUFFICES ASSUME NEW x \in Thread, NEW v \in Thread PROVE RoleOK(x, v)'
      BY Zenon
    <3>1. RoleOK(x, v)
      BY <1>o
    <3> QED  BY <2>2, <2>3, <2>4, <3>1 DEF RoleOK
  <2>8. \A x, y, v \in Thread : OneRole(x, y, v)'
    <3>1. \A x \in Thread : ~Forks(x, u)
      BY <1>o, <2>2 DEF RoleOK
    <3> QED  BY <1>o, <2>3, <3>1 DEF OneRole
  <2> QED  BY <2>5, <2>6, <2>7, <2>8 DEF RolesOK
<1>5. CASE SomeNewSelf(t)
  <2>1. PICK u \in Thread : NewSelf(t, u)
    BY <1>5 DEF SomeNewSelf
  <2>2. /\ pc[t] = "newSelf" /\ pc[u] = "none" /\ t # u
        /\ \A x \in Thread : /\ pc'[x] = IF x = t THEN "enter" ELSE IF x = u THEN "promised" ELSE pc[x]
                             /\ call'[x] = IF x = t THEN ThreadCall("finish", u) ELSE call[x]
        /\ UNCHANGED <<waitSema, idleThreads, slots>>
    BY <1>1, <2>1 DEF NewSelf, threadVars
  <2>3. \A x, v \in Thread : /\ Forks(x, v)' <=> Forks(x, v)
                             /\ Rouses(x, v)' <=> Rouses(x, v)
                             /\ Leaves(x, v)' <=> Leaves(x, v) \/ (x = t /\ v = u)
                             /\ Left(x, v)' <=> Left(x, v)
    BY <2>2, MadeFields DEF Forks, Rouses, Leaves, Left, InLock
  <2>4. \A x \in Thread : Starts(x)' <=> Starts(x)
    BY <2>2, MadeFields DEF Starts, InLock
  <2>5. IdleOK'
    BY <1>i, <2>2 DEF IdleOK
  <2>6. SemasOwn'
    BY <2>2, <2>3 DEF SemasOwn
  <2>7. \A x, v \in Thread : RoleOK(x, v)'
    <3> SUFFICES ASSUME NEW x \in Thread, NEW v \in Thread PROVE RoleOK(x, v)'
      BY Zenon
    <3>1. RoleOK(x, v) /\ (Contains(idleThreads, v) => pc[v] \in {"promised", "idle"})
      BY <1>o, <1>i
    <3> QED  BY <2>2, <2>3, <2>4, <3>1 DEF RoleOK
  <2>8. \A x, y, v \in Thread : OneRole(x, y, v)'
    <3>1. \A x \in Thread : ~Leaves(x, u)
      BY <1>o, <2>2 DEF RoleOK
    <3> QED  BY <1>o, <2>3, <3>1 DEF OneRole
  <2> QED  BY <2>5, <2>6, <2>7, <2>8 DEF RolesOK
<1>6. CASE ForkIdle(t)
  <2> DEFINE h == Head(idleThreads)
  <2>0. /\ h \in Thread /\ Contains(idleThreads, h) /\ NoRepeats(Tail(idleThreads))
        /\ \A w : Contains(Tail(idleThreads), w) <=> Contains(idleThreads, w) /\ w # h
    BY <1>1, <1>i, <1>6, TailLemma DEF ForkIdle
  <2>2. /\ pc[t] = "fork"
        /\ \A x \in Thread : /\ pc'[x] = IF x = t THEN "rouse" ELSE pc[x]
                             /\ x # t => call'[x] = call[x]
        /\ call'[t].on = h
        /\ UNCHANGED waitSema /\ idleThreads' = Tail(idleThreads)
        /\ slots' = slots \cup {h}
    <3>1. call' = [call EXCEPT ![t] = [call[t] EXCEPT !.on = h]]
      BY <1>6 DEF ForkIdle
    <3>2. call'[t].on = h
      BY <1>1, <3>1, FieldLemma
    <3> QED  BY <1>1, <1>6, <3>1, <3>2 DEF ForkIdle, AssignSlot
  <2> HIDE DEF h
  <2>3. \A x, v \in Thread : /\ Forks(x, v)' <=> Forks(x, v)
                             /\ Rouses(x, v)' <=> Rouses(x, v) \/ (x = t /\ v = h)
                             /\ Leaves(x, v)' <=> Leaves(x, v)
                             /\ Left(x, v)' <=> Left(x, v)
    BY <2>2 DEF Forks, Rouses, Leaves, Left, InLock
  <2>4. \A x \in Thread : Starts(x)' <=> Starts(x)
    BY <2>2 DEF Starts, InLock
  <2>5. IdleOK'
    BY <1>i, <2>0, <2>2 DEF IdleOK
  <2>6. SemasOwn'
    BY <2>2, <2>3 DEF SemasOwn
  <2>h. pc[h] \in {"promised", "idle"} /\ h \notin slots /\ h # t
    BY <1>i, <2>0, <2>2
  <2>7. \A x, v \in Thread : RoleOK(x, v)'
    <3> SUFFICES ASSUME NEW x \in Thread, NEW v \in Thread PROVE RoleOK(x, v)'
      BY Zenon
    <3>1. RoleOK(x, v)
      BY <1>o
    <3> QED  BY <2>0, <2>2, <2>3, <2>4, <2>h, <3>1 DEF RoleOK
  <2>8. \A x, y, v \in Thread : OneRole(x, y, v)'
    <3>1. \A x \in Thread : ~Rouses(x, h)
      BY <1>o, <2>0, <2>h DEF RoleOK
    <3> QED  BY <1>o, <2>3, <3>1 DEF OneRole
  <2> QED  BY <2>5, <2>6, <2>7, <2>8 DEF RolesOK
<1>7. CASE ForkNew(t)
  <2> DEFINE u == call[t].on
  <2>1. u \in Thread
    BY <1>r, <1>7 DEF ForkNew, CallsOK, CallOK
  <2>2. /\ pc[t] = "forkNew" /\ UNCHANGED call
        /\ \A x \in Thread : pc'[x] = IF x = t THEN "rouse" ELSE pc[x]
        /\ UNCHANGED <<waitSema, idleThreads>> /\ slots' = slots \cup {u}
    BY <1>1, <1>7 DEF ForkNew, AssignSlot
  <2>0. Forks(t, u) /\ pc[u] = "made" /\ u \notin slots
    BY <1>o, <2>1, <2>2 DEF Forks, RoleOK
  <2>3. \A x, v \in Thread : /\ Forks(x, v)' <=> Forks(x, v) /\ x # t
                             /\ Rouses(x, v)' <=> Rouses(x, v) \/ (x = t /\ v = u)
                             /\ Leaves(x, v)' <=> Leaves(x, v)
                             /\ Left(x, v)' <=> Left(x, v)
    BY <2>2 DEF Forks, Rouses, Leaves, Left, InLock
  <2>4. \A x \in Thread : Starts(x)' <=> Starts(x)
    BY <2>2 DEF Starts, InLock
  <2> HIDE DEF u
  <2>5. IdleOK'
    BY <1>i, <2>0, <2>2 DEF IdleOK
  <2>6. SemasOwn'
    BY <2>2, <2>3 DEF SemasOwn
  <2>7. \A x, v \in Thread : RoleOK(x, v)'
    <3> SUFFICES ASSUME NEW x \in Thread, NEW v \in Thread PROVE RoleOK(x, v)'
      BY Zenon
    <3>1. RoleOK(x, v) /\ OneRole(x, t, v)
      BY <1>o
    <3> QED  BY <2>0, <2>1, <2>2, <2>3, <2>4, <3>1 DEF RoleOK, OneRole
  <2>8. \A x, y, v \in Thread : OneRole(x, y, v)'
    <3>1. \A x \in Thread : ~Rouses(x, u)
      BY <1>o, <2>0, <2>1 DEF RoleOK
    <3> QED  BY <1>o, <2>3, <3>1 DEF OneRole
  <2> QED  BY <2>5, <2>6, <2>7, <2>8 DEF RolesOK
<1>8. CASE Rouse(t)
  <2> DEFINE u == call[t].on
  <2>1. u \in Thread
    BY <1>r, <1>8 DEF Rouse, CallsOK, CallOK
  <2>2. Rouses(t, u) /\ u \in slots /\ pc[t] = "rouse"
    BY <1>8, <1>o, <2>1 DEF Rouse, Rouses, RoleOK
  <2>3. CASE pc[u] # "made"
    <3>1. /\ \A x \in Thread : /\ pc'[x] = IF x = t THEN "run" ELSE pc[x]
                               /\ call'[x] = IF x = t THEN NoCall ELSE call[x]
          /\ UNCHANGED <<waitSema, idleThreads, slots>>
      BY <1>1, <1>8, <2>3 DEF Rouse, threadVars
    <3>2. \A x, v \in Thread : /\ Forks(x, v)' <=> Forks(x, v)
                               /\ Rouses(x, v)' => Rouses(x, v)
                               /\ Leaves(x, v)' <=> Leaves(x, v)
                               /\ Left(x, v)' <=> Left(x, v)
      BY <2>2, <3>1 DEF Forks, Rouses, Leaves, Left, InLock
    <3>3. \A x \in Thread : Starts(x)' => Starts(x)
      BY <2>2, <3>1 DEF Starts, InLock
    <3>4. \A x \in Thread : \A l \in Unborn \cup {"idle", "gone"} : pc'[x] = l <=> pc[x] = l
      BY <2>2, <3>1 DEF Unborn
    <3> QED  BY <3>1, <3>2, <3>3, <3>4, RolesSame
  <2>4. CASE pc[u] = "made"
    <3>1. /\ u # t
          /\ \A x \in Thread : /\ pc'[x] = IF x = t THEN "run" ELSE IF x = u THEN "enter" ELSE pc[x]
                               /\ call'[x] = IF x = t THEN NoCall
                                             ELSE IF x = u THEN ThreadCall("start", Nil) ELSE call[x]
          /\ UNCHANGED <<waitSema, idleThreads, slots>>
      BY <1>1, <1>8, <2>1, <2>2, <2>4 DEF Rouse, threadVars
    <3>2. \A x, v \in Thread : /\ Forks(x, v)' <=> Forks(x, v)
                               /\ Rouses(x, v)' <=> Rouses(x, v) /\ x # t
                               /\ Leaves(x, v)' <=> Leaves(x, v)
                               /\ Left(x, v)' <=> Left(x, v)
      BY <1>k, <2>2, <2>4, <3>1, MadeFields DEF Forks, Rouses, Leaves, Left, InLock
    <3>3. \A x \in Thread : Starts(x)' <=> Starts(x) \/ x = u
      BY <2>2, <2>4, <3>1, MadeFields DEF Starts, InLock
    <3> HIDE DEF u
    <3>5. IdleOK'
      BY <1>i, <2>2, <2>4, <3>1 DEF IdleOK
    <3>6. SemasOwn'
      BY <2>1, <2>2, <2>4, <3>1, <3>2 DEF SemasOwn
    <3>7. \A x, v \in Thread : RoleOK(x, v)'
      <4> SUFFICES ASSUME NEW x \in Thread, NEW v \in Thread PROVE RoleOK(x, v)'
        BY Zenon
      <4>1. RoleOK(x, v) /\ OneRole(x, t, v)
        BY <1>o
      <4> QED  BY <2>1, <2>2, <2>4, <3>1, <3>2, <3>3, <4>1 DEF RoleOK, OneRole
    <3>8. \A x, y, v \in Thread : OneRole(x, y, v)'
      BY <1>o, <3>2 DEF OneRole
    <3> QED  BY <3>5, <3>6, <3>7, <3>8 DEF RolesOK
  <2> QED  BY <2>3, <2>4
<1>9. CASE Finish(t)
  <2> DEFINE u == call[t].on
  <2>2. /\ pc[t] = "finish" /\ UNCHANGED <<call, slots>>
        /\ \A x \in Thread : pc'[x] = IF x = t THEN "bcast" ELSE pc[x]
    BY <1>1, <1>9 DEF Finish
  <2>3. \A x, v \in Thread : /\ Forks(x, v)' <=> Forks(x, v)
                             /\ Rouses(x, v)' <=> Rouses(x, v)
                             /\ Leaves(x, v)' <=> Leaves(x, v) /\ x # t
                             /\ Left(x, v)' <=> Left(x, v) \/ (x = t /\ v = u)
    BY <2>2 DEF Forks, Rouses, Leaves, Left, InLock
  <2>4. \A x \in Thread : Starts(x)' <=> Starts(x)
    BY <2>2 DEF Starts, InLock
  <2>5. CASE u = Nil
    <3>1. UNCHANGED <<waitSema, idleThreads>>
      BY <1>9, <2>5 DEF Finish
    <3>2. \A v \in Thread : v # u
      BY <1>k, <2>5
    <3> HIDE DEF u
    <3>5. IdleOK'
      BY <1>i, <2>2, <3>1 DEF IdleOK
    <3>6. SemasOwn'
      BY <2>2, <2>3, <3>1 DEF SemasOwn
    <3>7. \A x, v \in Thread : RoleOK(x, v)'
      <4> SUFFICES ASSUME NEW x \in Thread, NEW v \in Thread PROVE RoleOK(x, v)'
        BY Zenon
      <4>1. RoleOK(x, v)
        BY <1>o
      <4> QED  BY <2>2, <2>3, <2>4, <3>1, <3>2, <4>1 DEF RoleOK
    <3>8. \A x, y, v \in Thread : OneRole(x, y, v)'
      BY <1>o, <2>3, <3>2 DEF OneRole
    <3> QED  BY <3>5, <3>6, <3>7, <3>8 DEF RolesOK
  <2>6. CASE u # Nil
    <3>0. PICK w \in Thread : w = call[t].on
      BY <1>r, <2>6
    <3>1. /\ idleThreads' = <<w>> \o idleThreads
          /\ \A x \in Thread : waitSema'[x] = IF x = w THEN waitSema[t] ELSE waitSema[x]
      BY <1>1, <1>9, <2>6, <3>0 DEF Finish
    <3>9. \A x, v \in Thread : Left(x, v)' <=> Left(x, v) \/ (x = t /\ v = w)
      BY <2>3, <3>0
    <3> HIDE DEF u
    <3>2. Leaves(t, w) /\ pc[w] = "promised" /\ w \notin slots /\ ~Contains(idleThreads, w)
      BY <1>o, <2>2, <3>0 DEF Leaves, RoleOK
    <3>3. NoRepeats(idleThreads') /\ \A x : Contains(idleThreads', x) <=> x = w \/ Contains(idleThreads, x)
      BY <1>1, <1>i, <3>0, <3>1, <3>2, PushLemma
    <3>5. IdleOK'
      BY <1>i, <2>2, <3>2, <3>3 DEF IdleOK
    <3>6. SemasOwn'
      <4>1. \A x \in Thread : ~Left(t, x) /\ ~Left(x, t)
        BY <1>o, <2>2 DEF RoleOK, Left
      <4>2. ASSUME NEW x \in Thread, x # w, waitSema[x] = waitSema[t]
            PROVE  x = t \/ pc[x] = "gone"
        BY <2>2, <4>1, <4>2 DEF SemasOwn
      <4>3. Left(t, w)'
        BY <3>9
      <4> SUFFICES ASSUME NEW x \in Thread, NEW y \in Thread, x # y, (waitSema[x] = waitSema[y])'
                   PROVE  (pc[x] = "gone" \/ pc[y] = "gone" \/ Left(x, y) \/ Left(y, x))'
        BY Zenon DEF SemasOwn
      <4>4. CASE x # w /\ y # w
        BY <2>2, <3>1, <3>9, <4>4 DEF SemasOwn
      <4>5. CASE x = w
        <5>1. y = t \/ pc[y] = "gone"
          BY <3>1, <4>2, <4>5
        <5> QED  BY <2>2, <4>3, <4>5, <5>1
      <4>6. CASE y = w
        <5>1. x = t \/ pc[x] = "gone"
          BY <3>1, <4>2, <4>6
        <5> QED  BY <2>2, <4>3, <4>6, <5>1
      <4> QED  BY <4>4, <4>5, <4>6
    <3>7. \A x, v \in Thread : RoleOK(x, v)'
      <4> SUFFICES ASSUME NEW x \in Thread, NEW v \in Thread PROVE RoleOK(x, v)'
        BY Zenon
      <4>1. RoleOK(x, v) /\ OneRole(x, t, v)
        BY <1>o
      <4> QED  BY <2>2, <2>3, <2>4, <3>2, <3>9, <3>3, <4>1 DEF RoleOK, OneRole
    <3>8. \A x, y, v \in Thread : OneRole(x, y, v)'
      <4>1. \A x \in Thread : ~Left(x, w)
        BY <1>o, <3>0, <3>2 DEF RoleOK
      <4> QED  BY <1>o, <2>3, <3>9, <4>1 DEF OneRole
    <3> QED  BY <3>5, <3>6, <3>7, <3>8 DEF RolesOK
  <2> QED  BY <2>5, <2>6
<1>10. CASE BroadcastEnd(t)
  <2> DEFINE u == call[t].on
  <2>1. pc[t] = "bcast" /\ UNCHANGED <<waitSema, idleThreads, slots>>
    BY <1>10 DEF BroadcastEnd, threadVars
  <2>2. CASE u = Nil
    <3>1. \A v \in Thread : ~Left(t, v)
      BY <1>k, <2>2 DEF Left
    <3>2. PICK l \in {"alloc", "enter"} : pc' = [pc EXCEPT ![t] = l]
      BY <1>10, <2>2 DEF BroadcastEnd, LockMutex
    <3>3. call' = [call EXCEPT ![t] = ThreadCall("exit", Nil)]
      BY <1>10, <2>2 DEF BroadcastEnd, LockMutex
    <3>4. \A x \in Thread : /\ pc'[x] = IF x = t THEN l ELSE pc[x]
                            /\ call'[x] = IF x = t THEN ThreadCall("exit", Nil) ELSE call[x]
      BY <1>1, <3>2, <3>3
    <3>5. \A x, v \in Thread : /\ Forks(x, v)' <=> Forks(x, v)
                               /\ Rouses(x, v)' => Rouses(x, v)
                               /\ Leaves(x, v)' <=> Leaves(x, v)
                               /\ Left(x, v)' <=> Left(x, v)
      BY <1>k, <2>1, <3>1, <3>4, MadeFields DEF Forks, Rouses, Leaves, Left, InLock
    <3>6. \A x \in Thread : Starts(x)' => Starts(x)
      BY <2>1, <3>4, MadeFields DEF Starts, InLock
    <3>7. \A x \in Thread : \A k \in Unborn \cup {"idle", "gone"} : pc'[x] = k <=> pc[x] = k
      BY <2>1, <3>4 DEF Unborn
    <3> QED  BY <2>1, <3>5, <3>6, <3>7, RolesSame
  <2>3. CASE u # Nil
    <3>0. u \in Thread
      BY <1>r, <2>3
    <3>1. Left(t, u) /\ pc[u] = "promised" /\ (u \in slots \/ Contains(idleThreads, u)) /\ u # t
      BY <1>o, <2>1, <3>0 DEF Left, RoleOK
    <3>2. \A x \in Thread : /\ pc'[x] = IF x = t THEN "gone" ELSE IF x = u THEN "idle" ELSE pc[x]
                            /\ call'[x] = IF x = t THEN NoCall ELSE call[x]
      BY <1>1, <1>10, <2>3, <3>0, <3>1 DEF BroadcastEnd
    <3>3. \A x, v \in Thread : /\ Forks(x, v)' <=> Forks(x, v)
                               /\ Rouses(x, v)' <=> Rouses(x, v)
                               /\ Leaves(x, v)' <=> Leaves(x, v)
                               /\ Left(x, v)' <=> Left(x, v) /\ x # t
      BY <1>k, <2>1, <3>1, <3>2, MadeFields DEF Forks, Rouses, Leaves, Left, InLock
    <3>4. \A x \in Thread : Starts(x)' <=> Starts(x)
      BY <2>1, <3>1, <3>2 DEF Starts, InLock
    <3>5. IdleOK'
      BY <1>i, <2>1, <3>1, <3>2 DEF IdleOK
    <3>6. SemasOwn'
      BY <2>1, <3>1, <3>2, <3>3 DEF SemasOwn
    <3> HIDE DEF u
    <3>7. \A x, v \in Thread : RoleOK(x, v)'
      <4> SUFFICES ASSUME NEW x \in Thread, NEW v \in Thread PROVE RoleOK(x, v)'
        BY Zenon
      <4>1. RoleOK(x, v) /\ OneRole(x, t, v)
        BY <1>o
      <4> QED  BY <2>1, <3>1, <3>2, <3>3, <3>4, <4>1 DEF RoleOK, OneRole
    <3>8. \A x, y, v \in Thread : OneRole(x, y, v)'
      BY <1>o, <3>3 DEF OneRole
    <3> QED  BY <3>5, <3>6, <3>7, <3>8 DEF RolesOK
  <2> QED  BY <2>2, <2>3
<1>11. CASE Reborn(t)
  <2>1. /\ pc[t] = "idle" /\ sema[waitSema[t]] = 1
        /\ UNCHANGED <<waitSema, idleThreads, slots>>
    BY <1>11 DEF Reborn, threadVars
  <2>2. t \in slots /\ ~\E x \in Thread : Rouses(x, t)
    BY <2>1 DEF SemaphoresOK, SemaphoreOK, Blocked, Pausing, HandedOut, Past, Left
  <2>3. PICK l \in {"alloc", "enter"} : pc' = [pc EXCEPT ![t] = l]
    BY <1>11 DEF Reborn, LockMutex
  <2>4. call' = [call EXCEPT ![t] = ThreadCall("start", Nil)]
    BY <1>11 DEF Reborn, LockMutex
  <2>5. \A x \in Thread : /\ pc'[x] = IF x = t THEN l ELSE pc[x]
                          /\ call'[x] = IF x = t THEN ThreadCall("start", Nil) ELSE call[x]
    BY <1>1, <2>3, <2>4
  <2>6. \A x, v \in Thread : /\ Forks(x, v)' <=> Forks(x, v)
                             /\ Rouses(x, v)' <=> Rouses(x, v)
                             /\ Leaves(x, v)' <=> Leaves(x, v)
                             /\ Left(x, v)' <=> Left(x, v)
    BY <1>k, <2>1, <2>5, MadeFields DEF Forks, Rouses, Leaves, Left, InLock
  <2>7. \A x \in Thread : Starts(x)' => Starts(x) \/ x = t
    BY <2>1, <2>5 DEF Starts, InLock
  <2>8. IdleOK'
    BY <1>i, <2>1, <2>2, <2>5 DEF IdleOK
  <2>9. SemasOwn'
    BY <2>1, <2>5, <2>6 DEF SemasOwn
  <2>10. \A x, v \in Thread : RoleOK(x, v)'
    <3> SUFFICES ASSUME NEW x \in Thread, NEW v \in Thread PROVE RoleOK(x, v)'
      BY Zenon
    <3>1. RoleOK(x, v)
      BY <1>o
    <3> QED  BY <2>1, <2>2, <2>5, <2>6, <2>7, <3>1 DEF RoleOK
  <2>11. \A x, y, v \in Thread : OneRole(x, y, v)'
    BY <1>o, <2>6 DEF OneRole
  <2> QED  BY <2>8, <2>9, <2>10, <2>11 DEF RolesOK
<1>12. CASE Ends(t)
  <2>1. /\ pc[t] = "exit" /\ UNCHANGED <<waitSema, idleThreads>> /\ slots' = slots \ {t}
        /\ \A x \in Thread : /\ pc'[x] = IF x = t THEN "gone" ELSE pc[x]
                             /\ call'[x] = IF x = t THEN NoCall ELSE call[x]
    BY <1>1, <1>12 DEF Ends
  <2>2. \A x, v \in Thread : /\ Forks(x, v)' <=> Forks(x, v)
                             /\ Rouses(x, v)' <=> Rouses(x, v)
                             /\ Leaves(x, v)' <=> Leaves(x, v)
                             /\ Left(x, v)' <=> Left(x, v)
    BY <1>k, <2>1, MadeFields DEF Forks, Rouses, Leaves, Left, InLock
  <2>3. \A x \in Thread : Starts(x)' => Starts(x) /\ x # t
    BY <2>1 DEF Starts, InLock
  <2>4. IdleOK'
    BY <1>i, <2>1 DEF IdleOK
  <2>5. SemasOwn'
    BY <2>1, <2>2 DEF SemasOwn
  <2>6. \A x, v \in Thread : RoleOK(x, v)'
    <3> SUFFICES ASSUME NEW x \in Thread, NEW v \in Thread PROVE RoleOK(x, v)'
      BY Zenon
    <3>1. RoleOK(x, v)
      BY <1>o
    <3> QED  BY <2>1, <2>2, <2>3, <3>1 DEF RoleOK
  <2>7. \A x, y, v \in Thread : OneRole(x, y, v)'
    BY <1>o, <2>2 DEF OneRole
  <2> QED  BY <2>4, <2>5, <2>6, <2>7 DEF RolesOK
<1> QED
  BY RolesFrame, <1>2, <1>3, <1>4, <1>5, <1>6, <1>7, <1>8, <1>9, <1>10, <1>11,
     <1>12

-----------------------------------------------------------------------------
(* Lists, semaphores and alerts.                                           *)

\* Where t is in the middle of a call that keeps its semaphore, the semaphore
\* is that of no other thread which is still to live.
LEMMA OwnSema ==
  ASSUME SemasOwn, RolesOK, NEW t \in Thread, NEW x \in Thread,
         pc[t] \notin {"gone", "bcast", "promised"}, waitSema[x] = waitSema[t]
  PROVE  x = t \/ pc[x] = "gone"
<1>1. RoleOK(x, t)
  BY DEF RolesOK
<1> QED  BY <1>1 DEF SemasOwn, RoleOK, Left

\* Nothing that the lists, the semaphores and the alerts depend on changes.
Quiet ==
  \A x \in Thread :
    /\ Blocked(x)' <=> Blocked(x)
    /\ Blocked(x) => call'[x].c = call[x].c
    /\ Pausing(x)' <=> Pausing(x)
    /\ HandedOut(x) => HandedOut(x)'
    /\ Past(x) => Past(x)'

WaitOK == ListsOK /\ SemaphoresOK /\ AlertableOK

LEMMA WaitsSame ==
  ASSUME WaitOK, Quiet, UNCHANGED <<waiters, sema, alertable, waitSema>>,
         \A x \in Thread : Pausing(x) => alerted'[x] = alerted[x]
  PROVE  WaitOK'
<1>1. ListsOK'
  BY DEF WaitOK, ListsOK, Quiet
<1>w. \A x \in Thread : Waits(x)' <=> Waits(x)
  BY DEF Waits
<1>2. SemaphoresOK'
  <2> SUFFICES ASSUME NEW x \in Thread PROVE SemaphoreOK(x)'
    BY DEF SemaphoresOK
  <2>1. SemaphoreOK(x)
    BY DEF WaitOK, SemaphoresOK
  <2> QED  BY <1>w, <2>1 DEF SemaphoreOK, Quiet
<1>3. AlertableOK'
  BY <1>w DEF WaitOK, AlertableOK, Quiet
<1> QED  BY <1>1, <1>2, <1>3 DEF WaitOK

\* The threads in W, which wait, are woken.
Woken(W) ==
  /\ W \subseteq Thread
  /\ \A c \in Waitable :
       /\ waiters'[c] \in Seq(Thread) /\ NoRepeats(waiters'[c])
       /\ \A x : Contains(waiters'[c], x) <=> Contains(waiters[c], x) /\ x \notin W
  /\ ReleaseSemaphores(W)
  /\ \A x \in Thread :
       /\ alertable'[x] <=> alertable[x] /\ x \notin W
       /\ alerted[x] => alerted'[x]
       /\ alertable'[x] => alerted'[x] = alerted[x]
  /\ \A x \in W : \/ Blocked(x) /\ Waits(x)
                  \/ Pausing(x) /\ ~alerted[x] /\ alerted'[x]

LEMMA WokenLemma ==
  ASSUME TypeOK, RolesOK, SemasOwn, WaitOK, Quiet, UNCHANGED waitSema,
         NEW W, Woken(W)
  PROVE  WaitOK' /\ fatal' = fatal /\ sema' \in [Thread -> {0, 1}]
<1>1. ListsOK'
  BY DEF WaitOK, ListsOK, Quiet, Woken
<1>w. \A x \in Thread : Waits(x)' <=> Waits(x) /\ x \notin W
  <2>1. ASSUME NEW x \in Thread, Waits(x), x \notin W PROVE Waits(x)'
    BY <2>1 DEF Waits, Woken
  <2>2. ASSUME NEW x \in Thread, Waits(x)' PROVE Waits(x) /\ x \notin W
    BY <2>2 DEF Waits, Woken
  <2> QED  BY <2>1, <2>2
<1> DEFINE named == {waitSema[x] : x \in W}
<1>n. /\ \A s \in Thread : sema'[s] = IF s \in named THEN 1 ELSE sema[s]
      /\ sema' \in [Thread -> {0, 1}]
      /\ fatal' = IF \E s \in named : sema[s] = 1 THEN "choke" ELSE fatal
  BY DEF Woken, ReleaseSemaphores, TypeOK
<1>o. \A x \in W : x \in Thread /\ pc[x] \notin {"gone", "bcast", "promised", "idle"}
  BY DEF Woken, Blocked, Pausing
<1>s. \A x \in Thread : waitSema[x] \in Thread /\ waitSema'[x] = waitSema[x]
  BY DEF TypeOK
<1>m. \A x \in Thread : waitSema[x] \in named => x \in W \/ pc[x] = "gone"
  <2> SUFFICES ASSUME NEW x \in Thread, NEW y \in W, waitSema[x] = waitSema[y]
               PROVE  x \in W \/ pc[x] = "gone"
    BY Zenon
  <2> QED  BY <1>o, OwnSema
<1>d. \A x \in W : waitSema[x] \in named
  OBVIOUS
<1>f. \A s \in named : sema[s] # 1
  <2> SUFFICES ASSUME NEW x \in W PROVE sema[waitSema[x]] # 1
    OBVIOUS
  <2>1. SemaphoreOK(x)
    BY <1>o DEF WaitOK, SemaphoresOK
  <2>2. ~HandedOut(x) /\ ~Past(x)
    BY <1>o DEF HandedOut, Past, Left
  <2> QED  BY <2>1, <2>2 DEF SemaphoreOK, Woken, Blocked, Pausing
<1> HIDE DEF named
<1>2. SemaphoresOK'
  <2> SUFFICES ASSUME NEW x \in Thread PROVE SemaphoreOK(x)'
    BY DEF SemaphoresOK
  <2>1. SemaphoreOK(x)
    BY DEF WaitOK, SemaphoresOK
  <2>2. sema'[waitSema'[x]] = IF waitSema[x] \in named THEN 1 ELSE sema[waitSema[x]]
    BY <1>n, <1>s
  <2>3. CASE x \in W
    <3>1. sema'[waitSema'[x]] = 1
      BY <1>d, <2>2, <2>3
    <3> QED  BY <1>w, <2>3, <3>1 DEF SemaphoreOK, Quiet, Woken
  <2>4. CASE x \notin W /\ waitSema[x] \in named
    <3>1. Past(x)' /\ ~Blocked(x)
      BY <1>m, <2>4 DEF Past, Quiet, Blocked
    <3> QED  BY <3>1 DEF SemaphoreOK, Quiet
  <2>5. CASE x \notin W /\ waitSema[x] \notin named
    <3>1. sema'[waitSema'[x]] = sema[waitSema[x]]
      BY <2>2, <2>5
    <3>2. alerted[x] => alerted'[x]
      BY DEF Woken
    <3> QED  BY <1>w, <2>1, <2>5, <3>1, <3>2 DEF SemaphoreOK, Quiet
  <2> QED  BY <2>3, <2>4, <2>5
<1>3. AlertableOK'
  BY <1>w DEF WaitOK, AlertableOK, Quiet, Woken
<1> QED  BY <1>1, <1>2, <1>3, <1>n, <1>f DEF WaitOK

\* DequeueHead wakes threads of the one list, all of them when n is its length.
LEMMA DequeueLemma ==
  ASSUME TypeOK, ListsOK, NEW c \in Waitable, NEW n \in 0 .. Len(waiters[c]),
         DequeueHead(c, n)
  PROVE  /\ \E W : /\ Woken(W) /\ signalled' = signalled \cup W
                    /\ \A x \in W : Contains(waiters[c], x)
         /\ waiters' \in [Waitable -> Seq(Thread)]
         /\ alertable' \in [Thread -> BOOLEAN] /\ alerted' = alerted
         /\ signalled' \subseteq Thread
         /\ \A d \in Waitable : \A x : Contains(waiters'[d], x) => Contains(waiters[d], x)
         /\ n = Len(waiters[c]) => \A x : ~Contains(waiters'[c], x)
<1> DEFINE s == waiters[c]
           q == SubSeq(s, n + 1, Len(s))
           W == ToSet(SubSeq(s, 1, n))
<1>1. /\ waiters \in [Waitable -> Seq(Thread)] /\ s \in Seq(Thread) /\ NoRepeats(s)
      /\ alertable \in [Thread -> BOOLEAN] /\ signalled \subseteq Thread
      /\ alerted \in [Thread -> BOOLEAN]
  BY DEF TypeOK, ListsOK
<1>2. /\ q \in Seq(Thread) /\ W \subseteq Thread
      /\ n = Len(s) => \A x : ~Contains(q, x)
      /\ \A x : Contains(s, x) <=> x \in W \/ Contains(q, x)
      /\ NoRepeats(q) /\ \A x \in W : ~Contains(q, x)
  BY <1>1, DropLemma
<1>3. /\ waiters' = [waiters EXCEPT ![c] = q]
      /\ alertable' = [x \in Thread |-> alertable[x] /\ x \notin W]
      /\ signalled' = signalled \cup W /\ alerted' = alerted
      /\ ReleaseSemaphores(W)
  BY DEF DequeueHead
<1> HIDE DEF q, W
<1>4. \A d \in Waitable : waiters'[d] = IF d = c THEN q ELSE waiters[d]
  BY <1>1, <1>3
<1>5. \A x \in W : x \in Thread /\ Contains(waiters[c], x)
  BY <1>2
<1>6. \A d \in Waitable : /\ NoRepeats(waiters[d])
                          /\ \A x \in Thread : Contains(waiters[d], x) => Blocked(x) /\ call[x].c = d
  BY DEF ListsOK
<1>7. \A d \in Waitable : \A x \in W : d # c => ~Contains(waiters[d], x)
  BY <1>5, <1>6
<1>8. \A d \in Waitable :
        /\ waiters'[d] \in Seq(Thread) /\ NoRepeats(waiters'[d])
        /\ \A x : Contains(waiters'[d], x) <=> Contains(waiters[d], x) /\ x \notin W
  <2> SUFFICES ASSUME NEW d \in Waitable
               PROVE  /\ waiters'[d] \in Seq(Thread) /\ NoRepeats(waiters'[d])
                      /\ \A x : Contains(waiters'[d], x) <=> Contains(waiters[d], x) /\ x \notin W
    BY Zenon
  <2>1. CASE d = c
    BY <1>2, <1>4, <2>1
  <2>2. CASE d # c
    BY <1>1, <1>4, <1>6, <1>7, <2>2
  <2> QED  BY <2>1, <2>2
<1>9. \A x \in Thread : /\ alertable'[x] <=> alertable[x] /\ x \notin W
                        /\ alerted'[x] = alerted[x]
  BY <1>3
<1>10. \A x \in W : Blocked(x) /\ Waits(x)
  BY <1>5, <1>6 DEF Waits
<1>11. Woken(W)
  BY <1>2, <1>3, <1>8, <1>9, <1>10 DEF Woken
<1>12. /\ waiters' \in [Waitable -> Seq(Thread)]
       /\ alertable' \in [Thread -> BOOLEAN] /\ signalled' \subseteq Thread
  BY <1>1, <1>2, <1>3
<1>13. n = Len(waiters[c]) => \A x : ~Contains(waiters'[c], x)
  BY <1>2, <1>4
<1> QED  BY <1>3, <1>5, <1>8, <1>11, <1>12, <1>13

\* Alert wakes one thread at most.
LEMMA AlertLemma ==
  ASSUME TypeOK, ListsOK, AlertableOK, NEW t \in Thread, NEW u \in Thread, Alert(t, u)
  PROVE  /\ \E W : Woken(W) /\ \A x \in W : x = u /\ alertable[x]
         /\ waiters' \in [Waitable -> Seq(Thread)]
         /\ alertable' \in [Thread -> BOOLEAN] /\ alerted' \in [Thread -> BOOLEAN]
         /\ \A d \in Waitable : \A x : Contains(waiters'[d], x) => Contains(waiters[d], x)
<1>1. /\ waiters \in [Waitable -> Seq(Thread)]
      /\ alertable \in [Thread -> BOOLEAN] /\ alerted \in [Thread -> BOOLEAN]
  BY DEF TypeOK
<1>2. \A x \in Thread : /\ alertable'[x] = IF x = u THEN FALSE ELSE alertable[x]
                        /\ alerted'[x] = IF x = u THEN TRUE ELSE alerted[x]
  BY <1>1 DEF Alert
<1>3. alertable' \in [Thread -> BOOLEAN] /\ alerted' \in [Thread -> BOOLEAN]
  BY <1>1 DEF Alert
<1>4. \A d \in Waitable : waiters[d] \in Seq(Thread) /\ NoRepeats(waiters[d])
  BY <1>1 DEF ListsOK
<1>5. CASE ~alertable[u]
  <2>1. waiters' = waiters /\ ReleaseSemaphores({})
    BY <1>5 DEF Alert
  <2>2. Woken({})
    BY <1>2, <1>4, <1>5, <2>1 DEF Woken
  <2>3. \A x \in {} : x = u /\ alertable[x]
    OBVIOUS
  <2> QED  BY <1>1, <1>3, <2>1, <2>2, <2>3
<1>6. CASE alertable[u]
  <2>1. waiters' = Unlinked(u) /\ ReleaseSemaphores({u})
    BY <1>6 DEF Alert
  <2>2. \A d \in Waitable :
          /\ waiters'[d] \in Seq(Thread) /\ NoRepeats(waiters'[d])
          /\ \A x : Contains(waiters'[d], x) <=> Contains(waiters[d], x) /\ x \notin {u}
    <3> SUFFICES ASSUME NEW d \in Waitable
                 PROVE  /\ waiters'[d] \in Seq(Thread) /\ NoRepeats(waiters'[d])
                        /\ \A x : Contains(waiters'[d], x) <=> Contains(waiters[d], x) /\ x # u
      BY Zenon
    <3> DEFINE s == waiters[d]
               i == CHOOSE k \in DOMAIN s : s[k] = u
    <3>1. s \in Seq(Thread) /\ NoRepeats(s)
      BY <1>4
    <3>2. waiters'[d] = IF Contains(s, u) THEN RemoveAt(s, i) ELSE s
      BY <2>1 DEF Unlinked
    <3>3. CASE Contains(s, u)
      <4>1. DOMAIN s = 1 .. Len(s)
        BY <3>1, LenProperties
      <4>2. \E k \in DOMAIN s : s[k] = u
        BY <3>3, <4>1 DEF Contains
      <4>3. i \in 1 .. Len(s) /\ s[i] = u
        BY <4>1, <4>2
      <4> HIDE DEF i, s
      <4>4. /\ RemoveAt(s, i) \in Seq(Thread) /\ NoRepeats(RemoveAt(s, i))
            /\ \A x : Contains(RemoveAt(s, i), x) <=> Contains(s, x) /\ x # s[i]
        BY <3>1, <4>3, CutLemma
      <4> QED  BY <3>2, <3>3, <4>3, <4>4 DEF s
    <3>4. CASE ~Contains(s, u)
      BY <3>1, <3>2, <3>4
    <3> QED  BY <3>3, <3>4
  <2>3. \/ Blocked(u) /\ Waits(u)
        \/ Pausing(u) /\ ~alerted[u] /\ alerted'[u]
    BY <1>2, <1>6 DEF AlertableOK
  <2>4. Woken({u})
    BY <1>2, <2>1, <2>2, <2>3 DEF Woken
  <2>5. waiters' \in [Waitable -> Seq(Thread)]
    <3>1. waiters' = [d \in Waitable |-> waiters'[d]]
      BY <2>1 DEF Unlinked
    <3> HIDE DEF Unlinked
    <3> QED  BY <2>2, <3>1
  <2>6. \A x \in {u} : x = u /\ alertable[x]
    BY <1>6
  <2> QED  BY <1>3, <2>2, <2>4, <2>5, <2>6
<1> QED  BY <1>5, <1>6

\* Who keeps its part, and its place apart from t.
LEMMA QuietRoles ==
  ASSUME NEW t \in Thread, SameRoles(t), UNCHANGED slots
  PROVE  \A x \in Thread :
           /\ HandedOut(x) => HandedOut(x)'
           /\ Past(x) => Past(x)'
           /\ x # t => /\ Blocked(x)' <=> Blocked(x)
                       /\ Blocked(x) => call'[x].c = call[x].c
                       /\ Pausing(x)' <=> Pausing(x)
<1>1. \A x \in Thread : x # t => pc'[x] = pc[x] /\ call'[x] = call[x]
  BY DEF SameRoles, Alone
<1>2. \A x, y \in Thread : Rouses(x, y)' => Rouses(x, y)
  BY <1>1 DEF SameRoles, Rouses
<1>3. ASSUME NEW x \in Thread, HandedOut(x)
      PROVE  HandedOut(x)'
  BY <1>1, <1>2, <1>3 DEF HandedOut, SameRoles, Unborn
<1>4. ASSUME NEW x \in Thread, Past(x)
      PROVE  Past(x)'
  BY <1>1, <1>4 DEF Past, SameRoles, Left
<1> QED  BY <1>1, <1>3, <1>4 DEF Blocked, Pausing

\* t, which waits for nothing, enters a list.
LEMMA PushStep ==
  ASSUME TypeOK, WaitOK, NEW t \in Thread, NEW r, r.c \in Waitable,
         pc[t] \in {"run", "join"}, InnerWait(t, r), SameRoles(t),
         UNCHANGED <<waitSema, slots>>,
         \A x \in Thread : x # t => alertable'[x] = alertable[x]
  PROVE  /\ WaitOK' /\ waiters' \in [Waitable -> Seq(Thread)] /\ fatal' = fatal
<1> DEFINE c == r.c
           s == waiters[c]
<1>1. /\ waiters \in [Waitable -> Seq(Thread)] /\ s \in Seq(Thread)
      /\ call \in [Thread -> CallType] /\ pc \in [Thread -> Labels]
  BY DEF TypeOK
<1>2. \A d \in Waitable : /\ NoRepeats(waiters[d])
                          /\ \A x \in Thread : Contains(waiters[d], x) => Blocked(x) /\ call[x].c = d
  BY DEF WaitOK, ListsOK
<1>3. ~Blocked(t) /\ ~Pausing(t) /\ ~HandedOut(t) /\ ~Past(t)
  BY DEF Blocked, Pausing, HandedOut, Past, Left
<1>4. \A d \in Waitable : ~Contains(waiters[d], t)
  BY <1>2, <1>3
<1>5. /\ <<t>> \o s \in Seq(Thread) /\ NoRepeats(<<t>> \o s)
      /\ \A x : Contains(<<t>> \o s, x) <=> x = t \/ Contains(s, x)
  BY <1>1, <1>2, <1>4, PushLemma
<1>6. waiters' = [waiters EXCEPT ![c] = <<t>> \o s]
  BY DEF InnerWait
<1>7. \A d \in Waitable : waiters'[d] = IF d = c THEN <<t>> \o s ELSE waiters[d]
  BY <1>1, <1>6
<1>8. waiters' \in [Waitable -> Seq(Thread)]
  BY <1>1, <1>5, <1>6
<1>9. /\ pc'[t] = "unlock" /\ call'[t] = r /\ UNCHANGED <<sema, alerted>>
      /\ fatal' = IF Waits(t) THEN "assert" ELSE fatal
  BY <1>1 DEF InnerWait
<1> HIDE DEF s
<1>10. \A d \in Waitable, x \in Thread :
         Contains(waiters'[d], x) <=> Contains(waiters[d], x) \/ (d = c /\ x = t)
  BY <1>5, <1>7 DEF s
<1>11. \A x \in Thread : Waits(x)' <=> Waits(x) \/ x = t
  <2>1. \A x \in Thread : Waits(x)' <=> \E d \in Waitable : Contains(waiters'[d], x)
    BY DEF Waits
  <2>2. \A x \in Thread : Waits(x) <=> \E d \in Waitable : Contains(waiters[d], x)
    BY DEF Waits
  <2> QED  BY <1>10, <2>1, <2>2
<1>12. Blocked(t)' /\ call'[t].c = c
  BY <1>9 DEF Blocked
<1>13. /\ \A x \in Thread : HandedOut(x) => HandedOut(x)'
       /\ \A x \in Thread : Past(x) => Past(x)'
       /\ \A x \in Thread : x # t => /\ Blocked(x)' <=> Blocked(x)
                                     /\ Blocked(x) => call'[x].c = call[x].c
                                     /\ Pausing(x)' <=> Pausing(x)
  BY QuietRoles
<1>14. ListsOK'
  <2> SUFFICES ASSUME NEW d \in Waitable
               PROVE  /\ NoRepeats(waiters'[d])
                      /\ \A x \in Thread : Contains(waiters'[d], x) => Blocked(x)' /\ call'[x].c = d
    BY DEF ListsOK
  <2>1. NoRepeats(waiters'[d])
    BY <1>2, <1>5, <1>7
  <2>2. ASSUME NEW x \in Thread, Contains(waiters'[d], x)
        PROVE  Blocked(x)' /\ call'[x].c = d
    <3>1. CASE x = t
      BY <1>4, <1>10, <1>12, <2>2, <3>1
    <3>2. CASE x # t
      BY <1>2, <1>10, <1>13, <2>2, <3>2
    <3> QED  BY <3>1, <3>2
  <2> QED  BY <2>1, <2>2
<1>15. SemaphoresOK'
  <2> SUFFICES ASSUME NEW x \in Thread PROVE SemaphoreOK(x)'
    BY DEF SemaphoresOK
  <2>1. SemaphoreOK(x) /\ sema'[waitSema'[x]] = sema[waitSema[x]]
    BY <1>9 DEF WaitOK, SemaphoresOK
  <2>2. CASE x = t
    BY <1>3, <1>11, <2>1, <2>2 DEF SemaphoreOK
  <2>3. CASE x # t
    BY <1>9, <1>11, <1>13, <2>1, <2>3 DEF SemaphoreOK
  <2> QED  BY <2>2, <2>3
<1>16. AlertableOK'
  <2> SUFFICES ASSUME NEW x \in Thread, alertable'[x]
               PROVE  (Blocked(x) /\ Waits(x))' \/ (Pausing(x) /\ ~alerted[x])'
    BY DEF AlertableOK
  <2>1. CASE x = t
    BY <1>11, <1>12, <2>1
  <2>2. CASE x # t
    <3>1. (Blocked(x) /\ Waits(x)) \/ (Pausing(x) /\ ~alerted[x])
      BY <2>2 DEF WaitOK, AlertableOK
    <3> QED  BY <1>9, <1>11, <1>13, <2>2, <3>1
  <2> QED  BY <2>1, <2>2
<1>17. fatal' = fatal
  BY <1>4, <1>9 DEF Waits
<1> QED  BY <1>8, <1>14, <1>15, <1>16, <1>17 DEF WaitOK

\* t has no count on its semaphore any more, or had none, and does not wait.
LEMMA TakeStep ==
  ASSUME TypeOK, RolesOK, SemasOwn, WaitOK, NEW t \in Thread,
         pc[t] \notin {"gone", "bcast", "promised"}, ~Waits(t), ~Blocked(t)',
         UNCHANGED <<waiters, waitSema>>,
         sema' \in [Thread -> {0, 1}], sema'[waitSema[t]] # 1,
         \A s \in Thread : s # waitSema[t] => sema'[s] = sema[s],
         \A x \in Thread : x # t => /\ Blocked(x)' <=> Blocked(x)
                                    /\ Blocked(x) => call'[x].c = call[x].c
                                    /\ Pausing(x)' <=> Pausing(x)
                                    /\ HandedOut(x) => HandedOut(x)'
                                    /\ Past(x) => Past(x)'
                                    /\ alertable'[x] = alertable[x]
                                    /\ alerted'[x] = alerted[x],
         alertable'[t] => Pausing(t)' /\ ~alerted'[t]
  PROVE  WaitOK'
<1>1. waitSema \in [Thread -> Thread] /\ sema \in [Thread -> {0, 1}]
  BY DEF TypeOK
<1>w. \A x \in Thread : Waits(x)' <=> Waits(x)
  BY DEF Waits
<1>2. ListsOK'
  <2> SUFFICES ASSUME NEW d \in Waitable
               PROVE  /\ NoRepeats(waiters[d])
                      /\ \A x \in Thread : Contains(waiters[d], x) => Blocked(x)' /\ call'[x].c = d
    BY DEF ListsOK
  <2>1. NoRepeats(waiters[d])
    BY DEF WaitOK, ListsOK
  <2>2. ASSUME NEW x \in Thread, Contains(waiters[d], x)
        PROVE  Blocked(x)' /\ call'[x].c = d
    <3>1. x # t
      BY <2>2 DEF Waits
    <3> QED  BY <2>2, <3>1 DEF WaitOK, ListsOK
  <2> QED  BY <2>1, <2>2
<1>3. SemaphoresOK'
  <2> SUFFICES ASSUME NEW x \in Thread PROVE SemaphoreOK(x)'
    BY DEF SemaphoresOK
  <2>1. CASE x = t
    BY <2>1 DEF SemaphoreOK
  <2>2. CASE x # t
    <3>1. SemaphoreOK(x)
      BY DEF WaitOK, SemaphoresOK
    <3>2. CASE waitSema[x] = waitSema[t]
      <4>1. pc[x] = "gone"
        BY <2>2, <3>2, OwnSema
      <4>2. Past(x)' /\ ~Blocked(x)'
        BY <2>2, <4>1 DEF Past, Blocked
      <4> QED  BY <4>2 DEF SemaphoreOK
    <3>3. CASE waitSema[x] # waitSema[t]
      <4>1. sema'[waitSema'[x]] = sema[waitSema[x]]
        BY <1>1, <3>3
      <4> QED  BY <1>w, <2>2, <3>1, <4>1 DEF SemaphoreOK
    <3> QED  BY <3>2, <3>3
  <2> QED  BY <2>1, <2>2
<1>4. AlertableOK'
  <2> SUFFICES ASSUME NEW x \in Thread, alertable'[x]
               PROVE  (Blocked(x) /\ Waits(x))' \/ (Pausing(x) /\ ~alerted[x])'
    BY DEF AlertableOK
  <2>1. CASE x = t
    BY <2>1
  <2>2. CASE x # t
    <3>1. (Blocked(x) /\ Waits(x)) \/ (Pausing(x) /\ ~alerted[x])
      BY <2>2 DEF WaitOK, AlertableOK
    <3> QED  BY <1>w, <2>2, <3>1
  <2> QED  BY <2>1, <2>2
<1> QED  BY <1>2, <1>3, <1>4 DEF WaitOK

\* Every step keeps what is said of lists, semaphores and alerts; no thread
\* enters a second list, and no semaphore is released twice.
LEMMA WaitStep ==
  ASSUME TypeOK, CallsOK, IdleOK, RolesOK, SemasOwn, WaitOK, FatalOK,
         NEW t \in Thread, Step(t)
  PROVE  WaitOK' /\ WaitTypes' /\ FatalOK'
<1>1. /\ pc \in [Thread -> Labels] /\ call \in [Thread -> CallType]
      /\ call[t] \in CallType /\ waitSema \in [Thread -> Thread]
      /\ CallOK(pc[t], call[t]) /\ WaitTypes
  BY DEF TypeOK, CallsOK, WaitTypes
<1>y. /\ waiters \in [Waitable -> Seq(Thread)] /\ sema \in [Thread -> {0, 1}]
      /\ alertable \in [Thread -> BOOLEAN] /\ alerted \in [Thread -> BOOLEAN]
      /\ signalled \subseteq Thread
  BY <1>1 DEF WaitTypes
<1>r. call[t].on \in Thread \cup {Nil} /\ call[t].c \in Waitable \cup {Nil}
  BY <1>1, CallLemma
<1>k. Nil \notin Thread /\ Thread \subseteq Waitable /\ Cond \subseteq Waitable
  BY Constants
<1>o. /\ ListsOK /\ SemaphoresOK /\ AlertableOK /\ SemaphoreOK(t)
      /\ \A x, u \in Thread : RoleOK(x, u)
  BY DEF WaitOK, SemaphoresOK, RolesOK
<1>t. waitSema[t] \in Thread /\ sema[waitSema[t]] \in {0, 1}
  BY <1>1, <1>y
<1>w. /\ Waits(t) => Blocked(t)
      /\ sema[waitSema[t]] = 1 => \/ Blocked(t) /\ ~Waits(t)
                                  \/ Pausing(t) /\ alerted[t]
                                  \/ HandedOut(t) \/ Past(t)
      /\ alertable[t] => \/ Blocked(t) /\ Waits(t)
                         \/ Pausing(t) /\ ~alerted[t]
  BY <1>o DEF Waits, ListsOK, SemaphoreOK, AlertableOK
<1>q. ASSUME SameRoles(t), UNCHANGED slots,
             Blocked(t)' <=> Blocked(t), Blocked(t) => call'[t].c = call[t].c,
             Pausing(t)' <=> Pausing(t)
      PROVE  Quiet
  BY <1>q, QuietRoles DEF Quiet
<1>2. CASE \/ SomeAcquire(t) \/ SomeJoin(t) \/ Fork(t) \/ Exit(t) \/ CollectBegins(t)
           \/ AllocCSect(t) \/ InstallCSect(t) \/ WaitReturns(t) \/ ForkNone(t)
           \/ Start(t) \/ JoinDone(t) \/ JoinFinally(t) \/ Collect(t) \/ EnterCSect(t)
  <2> DEFINE Away(l) == l \notin {"unlock", "sema", "pausing", "paused"}
  <2>1. SameRoles(t)
    BY <1>2, PlainRoles DEF PlainStep
  <2>2. UNCHANGED waitVars /\ UNCHANGED <<waitSema, slots>> /\ Away(pc[t]) /\ Away(pc'[t])
    <3>1. CASE SomeAcquire(t) \/ SomeJoin(t)
      BY <1>1, <3>1 DEF SomeAcquire, Acquire, SomeJoin, Join, LockMutex, Client, threadVars
    <3>2. CASE Fork(t) \/ Exit(t) \/ CollectBegins(t)
      BY <1>1, <3>2 DEF Fork, Exit, CollectBegins, LockMutex, Client, threadVars
    <3>3. CASE AllocCSect(t) \/ InstallCSect(t) \/ WaitReturns(t) \/ ForkNone(t)
      BY <1>1, <3>3 DEF AllocCSect, InstallCSect, WaitReturns, ForkNone, threadVars
    <3>4. CASE Start(t) \/ JoinDone(t) \/ JoinFinally(t)
      BY <1>1, <3>4 DEF Start, JoinDone, JoinFinally, threadVars
    <3>5. CASE Collect(t)
      <4>1. call[t].back \in {"run", "create", "newSelf"}
        BY <1>1, CallLemma
      <4> QED  BY <1>1, <3>5, <4>1 DEF Collect, threadVars
    <3>6. CASE EnterCSect(t)
      <4>1. LockCall(call[t]) /\ pc'[t] = call[t].ret
        BY <1>1, <3>6 DEF EnterCSect, CallOK, InLock
      <4> QED  BY <1>1, <3>6, <4>1 DEF EnterCSect, LockCall, threadVars
    <3> QED  BY <1>2, <3>1, <3>2, <3>3, <3>4, <3>5, <3>6
  <2>3. Quiet
    BY <1>q, <2>1, <2>2 DEF Blocked, Pausing
  <2>4. WaitOK'
    BY <2>2, <2>3, WaitsSame DEF waitVars
  <2>5. WaitTypes'
    BY <1>1, <2>2 DEF WaitTypes, waitVars
  <2>6. FatalOK'
    <3>1. CASE Start(t)
      <4>1. t \in slots
        BY <1>o, <3>1 DEF RoleOK, Starts, Start
      <4> QED  BY <3>1, <4>1 DEF Start, FatalOK
    <3>2. CASE EnterCSect(t)
      BY <3>2 DEF EnterCSect, FatalOK
    <3>3. CASE ~Start(t) /\ ~EnterCSect(t)
      <4>1. fatal' = fatal
        BY <1>2, <3>3 DEF SomeAcquire, Acquire, SomeJoin, Join, Fork, Exit, CollectBegins,
           AllocCSect, InstallCSect, WaitReturns, ForkNone, JoinDone, JoinFinally, Collect
      <4> QED  BY <4>1 DEF FatalOK
    <3> QED  BY <3>1, <3>2, <3>3
  <2> QED  BY <2>4, <2>5, <2>6
<1>3. CASE WaitUnlock(t)
  <2>1. SameRoles(t)
    BY <1>3, PlainRoles DEF PlainStep
  <2>2. /\ UNCHANGED waitVars /\ UNCHANGED <<waitSema, slots, call, fatal>>
        /\ pc[t] = "unlock" /\ pc'[t] = "sema"
    BY <1>1, <1>3 DEF WaitUnlock, threadVars
  <2>3. Quiet
    BY <1>q, <2>1, <2>2 DEF Blocked, Pausing
  <2> QED
    BY <1>1, <2>2, <2>3, WaitsSame DEF waitVars, WaitTypes, FatalOK
<1>4. CASE WaitTest(t) \/ TestAlert(t)
  <2>1. /\ UNCHANGED <<waiters, sema, alertable, waitSema, slots, call, fatal>>
        /\ alerted' = [alerted EXCEPT ![t] = FALSE] /\ signalled' \subseteq Thread
        /\ ~Pausing(t)
    BY <1>1, <1>4, <1>y DEF WaitTest, TestAlert, threadVars, callVars, Client, Pausing
  <2>2. Quiet
    <3>1. CASE WaitTest(t)
      <4>1. SameRoles(t)
        BY <3>1, PlainRoles DEF PlainStep
      <4>2. pc[t] = "waited" /\ pc'[t] \in {"raise", "return"}
        BY <1>1, <3>1 DEF WaitTest
      <4> QED  BY <1>q, <2>1, <4>1, <4>2 DEF Blocked, Pausing
    <3>2. CASE TestAlert(t)
      <4>1. pc' = pc /\ call' = call /\ slots' = slots
        BY <3>2 DEF TestAlert, callVars, threadVars
      <4> QED
        BY <4>1, Zenon DEF Quiet, Blocked, Pausing, HandedOut, Past, Rouses, Left
    <3> QED  BY <1>4, <3>1, <3>2
  <2>3. /\ \A x \in Thread : Pausing(x) => alerted'[x] = alerted[x]
        /\ alerted' \in [Thread -> BOOLEAN]
    BY <1>y, <2>1
  <2>4. WaitOK'
    BY <2>1, <2>2, <2>3, WaitsSame
  <2> QED
    BY <1>y, <2>1, <2>3, <2>4 DEF WaitTypes, FatalOK
<1>5. CASE SomeRelease(t)
  <2>1. /\ pc' = pc /\ call' = call /\ slots' = slots /\ waitSema' = waitSema
        /\ UNCHANGED waitVars /\ fatal' = fatal
    BY <1>5 DEF SomeRelease, Release, callVars, threadVars
  <2>2. Quiet
    BY <2>1, Zenon DEF Quiet, Blocked, Pausing, HandedOut, Past, Rouses, Left
  <2> QED
    BY <1>1, <2>1, <2>2, WaitsSame DEF waitVars, WaitTypes, FatalOK
\* The wakers.
<1>6. CASE SomeSignal(t) \/ SomeBroadcast(t)
  <2>1. PICK c \in Waitable : Signal(t, c) \/ Broadcast(t, c)
    BY <1>6, <1>k DEF SomeSignal, SomeBroadcast
  <2>2. PICK n \in 0 .. Len(waiters[c]) : DequeueHead(c, n)
    <3>1. waiters[c] \in Seq(Thread) /\ waiters[c] # <<>>
      BY <1>y, <2>1 DEF Signal, Broadcast
    <3>2. Len(waiters[c]) \in Nat /\ Len(waiters[c]) # 0
      BY <3>1, LenProperties, EmptySeq
    <3>3. 1 \in 0 .. Len(waiters[c]) /\ Len(waiters[c]) \in 0 .. Len(waiters[c])
      BY <3>2, SMT
    <3> QED  BY <2>1, <3>3 DEF Signal, Broadcast
  <2>3. /\ pc' = pc /\ call' = call /\ slots' = slots /\ waitSema' = waitSema
    BY <2>1 DEF Signal, Broadcast, callVars, threadVars
  <2>4. Quiet
    BY <2>3, Zenon DEF Quiet, Blocked, Pausing, HandedOut, Past, Rouses, Left
  <2>5. /\ \E W : Woken(W)
        /\ waiters' \in [Waitable -> Seq(Thread)]
        /\ alertable' \in [Thread -> BOOLEAN] /\ alerted' = alerted
        /\ signalled' \subseteq Thread
    BY <1>o, <2>2, DequeueLemma
  <2>6. WaitOK' /\ fatal' = fatal /\ sema' \in [Thread -> {0, 1}]
    BY <2>3, <2>4, <2>5, WokenLemma
  <2> QED  BY <1>y, <2>5, <2>6 DEF WaitTypes, FatalOK
<1>7. CASE SomeAlert(t)
  <2>1. PICK u \in Thread : Alert(t, u)
    BY <1>7 DEF SomeAlert
  <2>3. /\ pc' = pc /\ call' = call /\ slots' = slots /\ waitSema' = waitSema
        /\ signalled' = signalled
    BY <2>1 DEF Alert, callVars, threadVars
  <2>4. Quiet
    BY <2>3, Zenon DEF Quiet, Blocked, Pausing, HandedOut, Past, Rouses, Left
  <2>5. /\ \E W : Woken(W)
        /\ waiters' \in [Waitable -> Seq(Thread)]
        /\ alertable' \in [Thread -> BOOLEAN] /\ alerted' \in [Thread -> BOOLEAN]
    BY <1>o, <2>1, AlertLemma
  <2>6. WaitOK' /\ fatal' = fatal /\ sema' \in [Thread -> {0, 1}]
    BY <2>3, <2>4, <2>5, WokenLemma
  <2> QED  BY <1>y, <2>3, <2>5, <2>6 DEF WaitTypes, FatalOK
\* Those who begin to wait.
<1>p. ASSUME NEW r, r.c \in Waitable, pc[t] \in {"run", "join"}, InnerWait(t, r),
             SameRoles(t), UNCHANGED <<waitSema, slots>>,
             alertable' \in [Thread -> BOOLEAN],
             \A x \in Thread : x # t => alertable'[x] = alertable[x]
      PROVE  WaitOK' /\ WaitTypes' /\ FatalOK'
  <2>1. WaitOK' /\ waiters' \in [Waitable -> Seq(Thread)] /\ fatal' = fatal
    BY <1>p, PushStep
  <2>2. UNCHANGED <<sema, alerted, signalled>>
    BY <1>p DEF InnerWait
  <2> QED  BY <1>p, <1>y, <2>1, <2>2 DEF WaitTypes, FatalOK
<1>a. ASSUME NEW r, r.c \in Waitable, NEW l \in {"run", "finally"},
             pc[t] \in {"run", "join"}, AlertEnter(t, r, l),
             SameRoles(t), UNCHANGED <<waitSema, slots>>
      PROVE  WaitOK' /\ WaitTypes' /\ FatalOK'
  <2>1. CASE alerted[t]
    <3>1. /\ UNCHANGED <<waiters, sema, alertable, signalled, call, fatal>>
          /\ alerted' = [alerted EXCEPT ![t] = FALSE] /\ pc'[t] = l
      BY <1>1, <1>a, <2>1 DEF AlertEnter
    <3>2. Quiet
      BY <1>a, <1>q, <3>1 DEF Blocked, Pausing
    <3>3. /\ \A x \in Thread : Pausing(x) => alerted'[x] = alerted[x]
          /\ alerted' \in [Thread -> BOOLEAN]
      BY <1>a, <1>y, <3>1 DEF Pausing
    <3>4. WaitOK'
      BY <1>a, <3>1, <3>2, <3>3, WaitsSame
    <3> QED  BY <1>y, <3>1, <3>3, <3>4 DEF WaitTypes, FatalOK
  <2>2. CASE ~alerted[t]
    <3>1. InnerWait(t, r) /\ alertable' = [alertable EXCEPT ![t] = TRUE]
      BY <1>a, <2>2 DEF AlertEnter
    <3>2. /\ alertable' \in [Thread -> BOOLEAN]
          /\ \A x \in Thread : x # t => alertable'[x] = alertable[x]
      BY <1>y, <3>1
    <3> QED  BY <1>a, <1>p, <3>1, <3>2
  <2> QED  BY <2>1, <2>2
<1>8. CASE SomeWait(t)
  <2>1. PICK m \in Mutex, c \in Cond : Wait(t, m, c)
    BY <1>8 DEF SomeWait
  <2> DEFINE r == Call(m, c, "run", Nil, FALSE, "run")
  <2>2. /\ pc[t] = "run" /\ InnerWait(t, r) /\ UNCHANGED <<alertable, waitSema, slots>>
    BY <2>1 DEF Wait, Client, threadVars
  <2>3. r.c \in Waitable
    <3>1. r.c = c
      BY SMT DEF Call
    <3> QED  BY <1>k, <3>1
  <2>4. SameRoles(t)
    BY <1>8, PlainRoles DEF PlainStep
  <2> HIDE DEF r
  <2> QED  BY <1>p, <1>y, <2>2, <2>3, <2>4
<1>9. CASE SomeAlertWait(t)
  <2>1. PICK m \in Mutex, c \in Cond : AlertWait(t, m, c)
    BY <1>9 DEF SomeAlertWait
  <2> DEFINE r == Call(m, c, "waited", Nil, TRUE, "run")
  <2>2. /\ pc[t] = "run" /\ AlertEnter(t, r, "run") /\ UNCHANGED <<waitSema, slots>>
    BY <2>1 DEF AlertWait, Client, threadVars
  <2>3. r.c \in Waitable
    <3>1. r.c = c
      BY SMT DEF Call
    <3> QED  BY <1>k, <3>1
  <2>4. SameRoles(t)
    BY <1>9, PlainRoles DEF PlainStep
  <2> HIDE DEF r
  <2> QED  BY <1>a, <2>2, <2>3, <2>4
<1>10. CASE JoinWaits(t)
  <2> DEFINE r == [call[t] EXCEPT !.c = cond[call[t].on]]
             q == [r EXCEPT !.ret = "waited"]
  <2>1. call[t].on \in Thread /\ pc[t] = "join"
    BY <1>1, <1>10, <1>r DEF JoinWaits, CallOK, JoinCall
  <2>2. cond[call[t].on] \in Waitable
    BY <1>k, <2>1 DEF TypeOK
  <2>3. r.c \in Waitable /\ q.c \in Waitable
    BY <1>1, <2>2, SMT DEF CallType
  <2>4. SameRoles(t)
    BY <1>10, PlainRoles DEF PlainStep
  <2>5. /\ UNCHANGED <<waitSema, slots>>
        /\ IF r.alert THEN AlertEnter(t, q, "finally")
           ELSE InnerWait(t, r) /\ UNCHANGED alertable
    BY <1>10 DEF JoinWaits, threadVars
  <2> HIDE DEF r, q
  <2>6. CASE r.alert
    BY <1>a, <2>1, <2>3, <2>4, <2>5, <2>6
  <2>7. CASE ~r.alert
    BY <1>p, <1>y, <2>1, <2>3, <2>4, <2>5, <2>7
  <2> QED  BY <2>6, <2>7
\* Pauses, and those who take a count.
<1>u. ASSUME SameRoles(t), UNCHANGED slots
      PROVE  \A x \in Thread : x # t => /\ Blocked(x)' <=> Blocked(x)
                                        /\ Blocked(x) => call'[x].c = call[x].c
                                        /\ Pausing(x)' <=> Pausing(x)
                                        /\ HandedOut(x) => HandedOut(x)'
                                        /\ Past(x) => Past(x)'
  BY <1>u, QuietRoles
<1>11. CASE AlertPause(t) \/ PauseAgain(t)
  <2>1. pc[t] \in {"run", "pause"} /\ PauseTurn(t) /\ UNCHANGED <<waitSema, slots>>
    BY <1>11 DEF AlertPause, PauseAgain, PauseTurn, Client, threadVars
  <2>2. SameRoles(t)
    BY <1>11, PlainRoles DEF PlainStep
  <2>3. CASE alerted[t]
    <3>1. /\ UNCHANGED <<waiters, sema, alertable, signalled, call, fatal>>
          /\ alerted' = [alerted EXCEPT ![t] = FALSE] /\ pc'[t] = "run"
      BY <1>1, <2>1, <2>3 DEF PauseTurn
    <3>2. Quiet
      BY <1>q, <2>1, <2>2, <3>1 DEF Blocked, Pausing
    <3>3. /\ \A x \in Thread : Pausing(x) => alerted'[x] = alerted[x]
          /\ alerted' \in [Thread -> BOOLEAN]
      BY <1>y, <2>1, <3>1 DEF Pausing
    <3>4. WaitOK'
      BY <2>1, <3>1, <3>2, <3>3, WaitsSame
    <3> QED  BY <1>y, <3>1, <3>3, <3>4 DEF WaitTypes, FatalOK
  <2>4. CASE ~alerted[t]
    <3>1. /\ UNCHANGED <<waiters, sema, alerted, signalled, call>>
          /\ alertable' = [alertable EXCEPT ![t] = TRUE] /\ pc'[t] = "pausing"
          /\ fatal' = IF Waits(t) THEN "assert" ELSE fatal
      BY <1>1, <2>1, <2>4 DEF PauseTurn
    <3>2. ~Waits(t) /\ sema[waitSema[t]] # 1
      BY <1>w, <2>1 DEF Blocked, Pausing, HandedOut, Past, Left
    <3>3. ~Blocked(t)' /\ Pausing(t)'
      BY <3>1 DEF Blocked, Pausing
    <3>4. /\ \A x \in Thread : x # t => alertable'[x] = alertable[x]
          /\ alertable' \in [Thread -> BOOLEAN]
      BY <1>y, <3>1
    <3>5. WaitOK'
      BY <1>u, <1>y, <2>1, <2>2, <2>4, <3>1, <3>2, <3>3, <3>4, TakeStep
    <3> QED  BY <1>y, <3>1, <3>2, <3>4, <3>5 DEF WaitTypes, FatalOK
  <2> QED  BY <2>3, <2>4
<1>12. CASE PauseWakes(t)
  <2>1. /\ pc[t] = "pausing" /\ pc'[t] = "paused"
        /\ UNCHANGED <<waiters, alertable, alerted, signalled, waitSema, slots, call, fatal>>
        /\ sema' = [sema EXCEPT ![waitSema[t]] = 0]
    BY <1>1, <1>12 DEF PauseWakes, threadVars
  <2>2. SameRoles(t)
    BY <1>12, PlainRoles DEF PlainStep
  <2>3. ~Waits(t) /\ (alertable[t] => ~alerted[t]) /\ ~Blocked(t)' /\ Pausing(t)'
    BY <1>w, <2>1 DEF Blocked, Pausing
  <2>4. /\ sema' \in [Thread -> {0, 1}] /\ sema'[waitSema[t]] # 1
        /\ \A s \in Thread : s # waitSema[t] => sema'[s] = sema[s]
    BY <1>t, <1>y, <2>1
  <2>5. WaitOK'
    BY <1>u, <2>1, <2>2, <2>3, <2>4, TakeStep
  <2> QED  BY <1>y, <2>1, <2>4, <2>5 DEF WaitTypes, FatalOK
<1>13. CASE PauseEnds(t)
  <2>1. /\ pc[t] = "paused" /\ pc'[t] \in {"run", "pause"}
        /\ UNCHANGED <<waiters, signalled, waitSema, slots, call, fatal>>
        /\ alertable' = [alertable EXCEPT ![t] = FALSE]
        /\ alerted' = [alerted EXCEPT ![t] = FALSE]
        /\ sema' = IF alerted[t] THEN [sema EXCEPT ![waitSema[t]] = 0] ELSE sema
    BY <1>1, <1>13 DEF PauseEnds, threadVars
  <2>2. SameRoles(t)
    BY <1>13, PlainRoles DEF PlainStep
  <2>3. ~Waits(t) /\ (~alerted[t] => sema[waitSema[t]] # 1) /\ ~Blocked(t)'
    BY <1>w, <2>1 DEF Blocked, Pausing, HandedOut, Past, Left
  <2>4. /\ sema' \in [Thread -> {0, 1}] /\ sema'[waitSema[t]] # 1
        /\ \A s \in Thread : s # waitSema[t] => sema'[s] = sema[s]
    <3>1. CASE alerted[t]
      BY <1>t, <1>y, <2>1, <3>1
    <3>2. CASE ~alerted[t]
      BY <1>y, <2>1, <2>3, <3>2
    <3> QED  BY <3>1, <3>2
  <2>5. /\ \A x \in Thread : x # t => alertable'[x] = alertable[x] /\ alerted'[x] = alerted[x]
        /\ ~alertable'[t]
        /\ alertable' \in [Thread -> BOOLEAN] /\ alerted' \in [Thread -> BOOLEAN]
    BY <1>y, <2>1
  <2>6. WaitOK'
    BY <1>u, <2>1, <2>2, <2>3, <2>4, <2>5, TakeStep
  <2> QED  BY <1>y, <2>1, <2>4, <2>5, <2>6 DEF WaitTypes, FatalOK
<1>14. CASE SemaWait(t)
  <2>1. /\ pc[t] = "sema" /\ pc'[t] \in {"alloc", "enter"} /\ sema[waitSema[t]] = 1
        /\ UNCHANGED <<waiters, alertable, alerted, waitSema, slots, fatal>>
        /\ sema' = [sema EXCEPT ![waitSema[t]] = 0]
        /\ signalled' \subseteq Thread
    BY <1>1, <1>y, <1>14 DEF SemaWait, LockMutex, threadVars
  <2>2. SameRoles(t)
    BY <1>14, PlainRoles DEF PlainStep
  <2>3. ~Waits(t) /\ ~alertable[t] /\ ~Blocked(t)'
    BY <1>w, <2>1 DEF Blocked, Pausing, HandedOut, Past, Left
  <2>4. /\ sema' \in [Thread -> {0, 1}] /\ sema'[waitSema[t]] # 1
        /\ \A s \in Thread : s # waitSema[t] => sema'[s] = sema[s]
    BY <1>t, <1>y, <2>1
  <2>5. WaitOK'
    BY <1>u, <2>1, <2>2, <2>3, <2>4, TakeStep
  <2> QED  BY <1>y, <2>1, <2>4, <2>5 DEF WaitTypes, FatalOK
\* Births and deaths.
<1>15. CASE SomeCreateT(t) \/ SomeNewSelf(t)
  <2>1. PICK u \in Thread : CreateT(t, u) \/ NewSelf(t, u)
    BY <1>15 DEF SomeCreateT, SomeNewSelf
  <2>2. /\ pc[t] \in {"create", "newSelf"} /\ pc[u] = "none" /\ t # u
        /\ \E l \in {"made", "promised"} :
             \A x \in Thread : pc'[x] = IF x = t THEN "enter" ELSE IF x = u THEN l ELSE pc[x]
        /\ \A x \in Thread : x # t => call'[x] = call[x]
        /\ UNCHANGED <<waitSema, slots, fatal>> /\ UNCHANGED waitVars
    BY <1>1, <2>1 DEF CreateT, NewSelf, threadVars
  <2>3. \A x, v \in Thread : /\ Rouses(x, v)' <=> Rouses(x, v)
                             /\ Left(x, v)' <=> Left(x, v)
    BY <2>2 DEF Rouses, Left
  <2>4. Quiet
    <3>1. \A x \in Thread : /\ Blocked(x)' <=> Blocked(x)
                            /\ Blocked(x) => call'[x].c = call[x].c
                            /\ Pausing(x)' <=> Pausing(x)
      BY <2>2 DEF Blocked, Pausing
    <3>2. \A x \in Thread : HandedOut(x) => HandedOut(x)'
      BY <2>2, <2>3 DEF HandedOut
    <3>3. \A x \in Thread : Past(x) => Past(x)'
      BY <2>2, <2>3 DEF Past
    <3> QED  BY <3>1, <3>2, <3>3 DEF Quiet
  <2> QED
    BY <1>1, <2>2, <2>4, WaitsSame DEF waitVars, WaitTypes, FatalOK
<1>16. CASE ForkIdle(t) \/ ForkNew(t) \/ Ends(t)
  <2>1. /\ pc[t] \in {"fork", "forkNew", "exit"}
        /\ pc'[t] \in {"rouse", "gone"} /\ Alone(t)
        /\ UNCHANGED waitVars /\ UNCHANGED waitSema /\ fatal' \in {fatal, "relock"}
    BY <1>1, <1>16 DEF ForkIdle, ForkNew, Ends, Alone, AssignSlot
  <2>2. ASSUME NEW x \in Thread, HandedOut(x)
        PROVE  HandedOut(x)'
    <3>1. pc[x] \in {"promised", "idle"} /\ x \in slots /\ x # t
      BY <2>1, <2>2 DEF HandedOut
    <3>2. x \in slots' /\ ~Rouses(t, x)'
      <4>1. CASE ForkIdle(t)
        <5> DEFINE h == Head(idleThreads)
        <5>1. h \in Thread /\ Contains(idleThreads, h)
          BY <4>1, TailLemma DEF ForkIdle, IdleOK, TypeOK
        <5>2. x # h
          BY <3>1, <5>1 DEF IdleOK
        <5>3. call' = [call EXCEPT ![t] = [call[t] EXCEPT !.on = h]] /\ slots' = slots \cup {h}
          BY <4>1 DEF ForkIdle, AssignSlot
        <5>4. call'[t].on = h
          BY <1>1, <5>3, FieldLemma
        <5> QED  BY <3>1, <5>2, <5>3, <5>4 DEF Rouses
      <4>2. CASE ForkNew(t)
        <5>1. call[t].on # x
          BY <1>o, <3>1, <4>2 DEF ForkNew, Forks, RoleOK
        <5> QED  BY <3>1, <4>2, <5>1 DEF ForkNew, AssignSlot, Rouses
      <4>3. CASE Ends(t)
        <5>1. pc'[t] = "gone" /\ slots' = slots \ {t}
          BY <1>1, <4>3 DEF Ends
        <5> QED  BY <3>1, <5>1 DEF Rouses
      <4> QED  BY <1>16, <4>1, <4>2, <4>3
    <3>3. \A s \in Thread : ~Rouses(s, x)'
      BY <2>1, <2>2, <3>2 DEF HandedOut, Rouses, Alone
    <3> QED  BY <2>1, <3>1, <3>2, <3>3 DEF HandedOut, Alone
  <2>3. ASSUME NEW x \in Thread, Past(x)
        PROVE  Past(x)'
    BY <2>1, <2>3 DEF Past, Left, Alone
  <2>4. Quiet
    BY <2>1, <2>2, <2>3 DEF Quiet, Blocked, Pausing, Alone
  <2> QED
    BY <1>1, <2>1, <2>4, WaitsSame DEF waitVars, WaitTypes, FatalOK
<1>17. CASE Rouse(t)
  <2>0. call[t].on \in Thread /\ pc[t] = "rouse"
    BY <1>1, <1>r, <1>17 DEF Rouse, CallOK
  <2>1. PICK u \in Thread : u = call[t].on
    BY <2>0
  <2>2. /\ Rouses(t, u) /\ u \in slots /\ pc[u] \in {"made", "promised", "idle"}
        /\ \A s \in Thread : Rouses(s, u) => s = t
    BY <1>o, <2>0, <2>1 DEF Rouses, RoleOK, RolesOK, OneRole
  <2>3. /\ \A x \in Thread : x \notin {t, u} => pc'[x] = pc[x] /\ call'[x] = call[x]
        /\ pc'[t] = "run" /\ call'[t].on = Nil
        /\ UNCHANGED <<waiters, alertable, alerted, signalled, waitSema, slots>>
    <3>1. CASE pc[u] = "made"
      BY <1>1, <1>17, <2>0, <2>1, <2>2, <3>1, MadeFields DEF Rouse, threadVars
    <3>2. CASE pc[u] # "made"
      BY <1>1, <1>17, <2>0, <2>1, <2>2, <3>2, MadeFields DEF Rouse, threadVars
    <3> QED  BY <3>1, <3>2
  <2>4. CASE pc[u] = "made"
    <3>1. pc'[u] = "enter" /\ UNCHANGED <<sema, fatal>>
      BY <1>1, <1>17, <2>0, <2>1, <2>4 DEF Rouse
    <3>2. \A x, v \in Thread : /\ Rouses(x, v)' => Rouses(x, v)
                               /\ Left(x, v)' <=> Left(x, v)
      BY <2>0, <2>1, <2>3, <2>4, <3>1 DEF Rouses, Left
    <3>3. \A x \in Thread : HandedOut(x) => HandedOut(x)'
      BY <2>0, <2>1, <2>3, <2>4, <3>1, <3>2 DEF HandedOut
    <3>4. \A x \in Thread : Past(x) => Past(x)'
      BY <2>0, <2>1, <2>3, <2>4, <3>1, <3>2 DEF Past
    <3>5. \A x \in Thread : /\ Blocked(x)' <=> Blocked(x)
                            /\ Blocked(x) => call'[x].c = call[x].c
                            /\ Pausing(x)' <=> Pausing(x)
      BY <2>0, <2>1, <2>3, <2>4, <3>1 DEF Blocked, Pausing
    <3>6. Quiet
      BY <3>3, <3>4, <3>5 DEF Quiet
    <3> QED
      BY <1>y, <2>3, <3>1, <3>6, WaitsSame DEF WaitTypes, FatalOK
  <2>5. CASE pc[u] # "made"
    <3>1. /\ pc'[u] = pc[u] /\ call'[u] = call[u] /\ ReleaseSemaphores({u})
      BY <1>1, <1>17, <2>0, <2>1, <2>2, <2>5 DEF Rouse
    <3>2. \A x, v \in Thread : /\ Rouses(x, v)' <=> Rouses(x, v) /\ x # t
                               /\ Left(x, v)' <=> Left(x, v)
      BY <1>k, <2>0, <2>1, <2>3, <3>1 DEF Rouses, Left
    <3>3. /\ \A x \in Thread : HandedOut(x) => HandedOut(x)'
          /\ HandedOut(u)'
      BY <2>0, <2>1, <2>2, <2>3, <2>5, <3>1, <3>2 DEF HandedOut
    <3>4. \A x \in Thread : Past(x) => Past(x)'
      BY <2>0, <2>1, <2>3, <3>1, <3>2 DEF Past
    <3>5. \A x \in Thread : /\ Blocked(x)' <=> Blocked(x)
                            /\ Blocked(x) => call'[x].c = call[x].c
                            /\ Pausing(x)' <=> Pausing(x)
      BY <2>0, <2>1, <2>3, <3>1 DEF Blocked, Pausing
    <3>6. /\ \A s \in Thread : sema'[s] = IF s = waitSema[u] THEN 1 ELSE sema[s]
          /\ sema' \in [Thread -> {0, 1}]
          /\ fatal' = IF sema[waitSema[u]] = 1 THEN "choke" ELSE fatal
      BY <1>y, <3>1 DEF ReleaseSemaphores
    <3>7. fatal' = fatal
      <4>1. SemaphoreOK(u)
        BY <1>o, <2>1 DEF SemaphoresOK
      <4>2. ~Blocked(u) /\ ~Pausing(u) /\ ~HandedOut(u) /\ ~Past(u)
        BY <2>0, <2>1, <2>2, <2>5 DEF Blocked, Pausing, HandedOut, Past, Left
      <4> QED  BY <3>6, <4>1, <4>2 DEF SemaphoreOK
    <3>8. \A x \in Thread : waitSema[x] = waitSema[u] => x = u \/ (Past(x) /\ ~Blocked(x))
      BY <2>0, <2>1, <2>2, <2>5 DEF SemasOwn, Past, Left, Blocked
    <3>w. \A x \in Thread : Waits(x)' <=> Waits(x)
      BY <2>3 DEF Waits
    <3>9. SemaphoresOK'
      <4> SUFFICES ASSUME NEW x \in Thread PROVE SemaphoreOK(x)'
        BY DEF SemaphoresOK
      <4>1. SemaphoreOK(x) /\ waitSema[x] \in Thread /\ waitSema'[x] = waitSema[x]
            /\ alerted' = alerted
        BY <1>1, <1>o, <2>3 DEF SemaphoresOK
      <4>2. CASE waitSema[x] = waitSema[u]
        <5>1. sema'[waitSema'[x]] = 1 /\ (HandedOut(x)' \/ Past(x)')
          BY <3>3, <3>4, <3>6, <3>8, <4>1, <4>2
        <5> QED  BY <5>1 DEF SemaphoreOK
      <4>3. CASE waitSema[x] # waitSema[u]
        <5>1. sema'[waitSema'[x]] = sema[waitSema[x]]
          BY <3>6, <4>1, <4>3
        <5> QED  BY <3>3, <3>4, <3>5, <3>w, <4>1, <5>1 DEF SemaphoreOK
      <4> QED  BY <4>2, <4>3
    <3>10. ListsOK'
      BY <1>o, <2>3, <3>5 DEF ListsOK
    <3>11. AlertableOK'
      BY <1>o, <2>3, <3>5, <3>w DEF AlertableOK
    <3> QED
      BY <1>y, <2>3, <3>6, <3>7, <3>9, <3>10, <3>11 DEF WaitOK, WaitTypes, FatalOK
  <2> QED  BY <2>4, <2>5
<1>18. CASE Finish(t)
  <2>1. /\ pc[t] = "finish" /\ UNCHANGED <<call, slots, fatal>> /\ UNCHANGED waitVars
        /\ \A x \in Thread : pc'[x] = IF x = t THEN "bcast" ELSE pc[x]
    BY <1>1, <1>18 DEF Finish
  <2>2. Quiet
    <3>1. \A x, v \in Thread : /\ Rouses(x, v)' <=> Rouses(x, v)
                               /\ Left(x, v) => Left(x, v)'
      BY <2>1 DEF Rouses, Left
    <3>2. \A x \in Thread : /\ Blocked(x)' <=> Blocked(x)
                            /\ Blocked(x) => call'[x].c = call[x].c
                            /\ Pausing(x)' <=> Pausing(x)
      BY <2>1 DEF Blocked, Pausing
    <3>3. \A x \in Thread : HandedOut(x) => HandedOut(x)'
      BY <2>1, <3>1 DEF HandedOut
    <3>4. \A x \in Thread : Past(x) => Past(x)'
      BY <2>1, <3>1 DEF Past
    <3> QED  BY <3>2, <3>3, <3>4 DEF Quiet
  <2>3. WaitOK'
    <3>1. CASE call[t].on = Nil
      <4>1. waitSema' = waitSema
        BY <1>18, <3>1 DEF Finish
      <4> QED  BY <2>1, <2>2, <4>1, WaitsSame DEF waitVars
    <3>2. CASE call[t].on # Nil
      <4>0. PICK u \in Thread : u = call[t].on
        BY <1>r, <3>2
      <4>1. \A x \in Thread : waitSema'[x] = IF x = u THEN waitSema[t] ELSE waitSema[x]
        BY <1>1, <1>18, <3>2, <4>0 DEF Finish
      <4>2. pc[u] = "promised"
        BY <1>o, <2>1, <4>0 DEF Leaves, RoleOK
      <4>3. sema[waitSema[t]] # 1
        BY <1>w, <2>1 DEF Blocked, Pausing, HandedOut, Past, Left
      <4>w. \A x \in Thread : Waits(x)' <=> Waits(x)
        BY <2>1 DEF Waits, waitVars
      <4>4. SemaphoresOK'
        <5> SUFFICES ASSUME NEW x \in Thread PROVE SemaphoreOK(x)'
          BY DEF SemaphoresOK
        <5>1. CASE x = u
          <6>1. ~Blocked(x)' /\ sema' = sema /\ waitSema'[x] = waitSema[t]
            BY <2>1, <2>2, <4>1, <4>2, <5>1 DEF Quiet, Blocked, waitVars
          <6> QED  BY <4>3, <6>1 DEF SemaphoreOK
        <5>2. CASE x # u
          <6>1. /\ SemaphoreOK(x) /\ sema' = sema /\ alerted' = alerted
                /\ waitSema'[x] = waitSema[x]
            BY <1>o, <2>1, <4>1, <5>2 DEF SemaphoresOK, waitVars
          <6> QED  BY <2>2, <4>w, <6>1 DEF SemaphoreOK, Quiet
        <5> QED  BY <5>1, <5>2
      <4>5. ListsOK'
        BY <1>o, <2>1, <2>2 DEF ListsOK, Quiet, waitVars
      <4>6. AlertableOK'
        BY <1>o, <2>1, <2>2, <4>w DEF AlertableOK, Quiet, waitVars
      <4> QED  BY <4>4, <4>5, <4>6 DEF WaitOK
    <3> QED  BY <3>1, <3>2
  <2> QED  BY <1>1, <2>1, <2>3 DEF waitVars, WaitTypes, FatalOK
<1>19. CASE BroadcastEnd(t)
  <2> DEFINE c == cond[t]
  <2>1. c \in Waitable /\ waiters[c] \in Seq(Thread)
    BY <1>k, <1>y DEF TypeOK
  <2>2. Len(waiters[c]) \in 0 .. Len(waiters[c])
    <3>1. Len(waiters[c]) \in Nat
      BY <2>1, LenProperties
    <3> QED  BY <3>1, SMT
  <2>3. DequeueHead(c, Len(waiters[c])) /\ UNCHANGED <<waitSema, slots>> /\ pc[t] = "bcast"
    BY <1>19 DEF BroadcastEnd, threadVars
  <2>4. Quiet
    <3>1. CASE call[t].on = Nil
      <4>1. /\ pc'[t] \in {"alloc", "enter"} /\ Alone(t)
        BY <1>1, <1>19, <3>1 DEF BroadcastEnd, LockMutex, Alone
      <4>2. \A x, v \in Thread : /\ Rouses(x, v)' <=> Rouses(x, v)
                                 /\ Left(x, v) => Left(x, v)'
        BY <1>k, <2>3, <3>1, <4>1 DEF Rouses, Left, Alone
      <4>3. \A x \in Thread : HandedOut(x) => HandedOut(x)'
        BY <2>3, <4>1, <4>2 DEF HandedOut, Alone
      <4>4. \A x \in Thread : Past(x) => Past(x)'
        BY <2>3, <4>1, <4>2 DEF Past, Alone
      <4> QED  BY <2>3, <4>1, <4>3, <4>4 DEF Quiet, Blocked, Pausing, Alone
    <3>2. CASE call[t].on # Nil
      <4>0. PICK u \in Thread : u = call[t].on
        BY <1>r, <3>2
      <4>1. pc[u] = "promised" /\ u # t
        BY <1>o, <2>3, <4>0 DEF Left, RoleOK
      <4>2. /\ \A x \in Thread : pc'[x] = IF x = t THEN "gone" ELSE IF x = u THEN "idle" ELSE pc[x]
            /\ \A x \in Thread : x # t => call'[x] = call[x]
        BY <1>1, <1>19, <3>2, <4>0, <4>1 DEF BroadcastEnd
      <4>3. \A x, v \in Thread : /\ Rouses(x, v)' <=> Rouses(x, v)
                                 /\ Left(x, v) => Left(x, v)' \/ x = t
        BY <2>3, <4>1, <4>2 DEF Rouses, Left
      <4>4. \A x \in Thread : HandedOut(x) => HandedOut(x)'
        BY <2>3, <4>1, <4>2, <4>3 DEF HandedOut
      <4>5. \A x \in Thread : Past(x) => Past(x)'
        BY <2>3, <4>1, <4>2, <4>3 DEF Past
      <4> QED  BY <2>3, <4>1, <4>2, <4>4, <4>5 DEF Quiet, Blocked, Pausing
    <3> QED  BY <3>1, <3>2
  <2> HIDE DEF c
  <2>5. /\ \E W : Woken(W)
        /\ waiters' \in [Waitable -> Seq(Thread)]
        /\ alertable' \in [Thread -> BOOLEAN] /\ alerted' = alerted
        /\ signalled' \subseteq Thread
    BY <1>o, <2>1, <2>2, <2>3, DequeueLemma
  <2>6. WaitOK' /\ fatal' = fatal /\ sema' \in [Thread -> {0, 1}]
    BY <2>3, <2>4, <2>5, WokenLemma
  <2> QED  BY <1>y, <2>5, <2>6 DEF WaitTypes, FatalOK
<1>20. CASE Reborn(t)
  <2>1. /\ pc[t] = "idle" /\ pc'[t] \in {"alloc", "enter"} /\ Alone(t)
        /\ call'[t].on = Nil
        /\ UNCHANGED <<waiters, alertable, alerted, waitSema, slots, signalled, fatal>>
        /\ sema' = [sema EXCEPT ![waitSema[t]] = 0]
    BY <1>1, <1>20, MadeFields DEF Reborn, LockMutex, threadVars, Alone
  <2>2. ~Waits(t) /\ ~alertable[t] /\ ~Blocked(t)'
    BY <1>w, <2>1 DEF Blocked, Pausing
  <2>3. /\ sema' \in [Thread -> {0, 1}] /\ sema'[waitSema[t]] # 1
        /\ \A s \in Thread : s # waitSema[t] => sema'[s] = sema[s]
    BY <1>t, <1>y, <2>1
  <2>4. \A x, v \in Thread : /\ Rouses(x, v)' <=> Rouses(x, v)
                             /\ Left(x, v) <=> Left(x, v)'
    BY <1>k, <2>1 DEF Rouses, Left, Alone
  <2>5. \A x \in Thread : x # t => /\ HandedOut(x) => HandedOut(x)'
                                   /\ Past(x) => Past(x)'
    BY <2>1, <2>4 DEF HandedOut, Past, Alone
  <2>6. \A x \in Thread : x # t => /\ Blocked(x)' <=> Blocked(x)
                                   /\ Blocked(x) => call'[x].c = call[x].c
                                   /\ Pausing(x)' <=> Pausing(x)
                                   /\ HandedOut(x) => HandedOut(x)'
                                   /\ Past(x) => Past(x)'
                                   /\ alertable'[x] = alertable[x]
                                   /\ alerted'[x] = alerted[x]
    BY <2>1, <2>5 DEF Blocked, Pausing, Alone
  <2>9. pc[t] \notin {"gone", "bcast", "promised"}
    BY <2>1
  <2>10. UNCHANGED <<waiters, waitSema>>
    BY <2>1
  <2>11. alertable'[t] => Pausing(t)' /\ ~alerted'[t]
    BY <2>1, <2>2
  <2>7. WaitOK'
    BY <2>2, <2>3, <2>6, <2>9, <2>10, <2>11, TakeStep, Zenon
  <2> QED  BY <1>y, <2>1, <2>3, <2>7 DEF WaitTypes, FatalOK
<1> QED
  BY StepCases, <1>2, <1>3, <1>4, <1>5, <1>6, <1>7, <1>8, <1>9, <1>10, <1>11,
     <1>12, <1>13, <1>14, <1>15, <1>16, <1>17, <1>18, <1>19, <1>20

-----------------------------------------------------------------------------
(* Completion, and who joins.                                              *)

\* In some places a thread has one step to take.
LEMMA PlaceLemma ==
  ASSUME NEW t \in Thread, Step(t)
  PROVE  /\ pc[t] = "unlock" => WaitUnlock(t)
         /\ pc[t] = "sema" => SemaWait(t)
         /\ pc[t] = "bcast" => BroadcastEnd(t)
         /\ pc[t] = "exit" => Ends(t)
         /\ pc[t] \in InLock => AllocCSect(t) \/ InstallCSect(t) \/ EnterCSect(t)
         /\ pc[t] # "gone"
<1> DEFINE Elsewhere == pc[t] \notin {"unlock", "sema", "bcast", "exit", "alloc",
                                      "new", "enter", "gone"}
<1>1. CASE \/ SomeAcquire(t) \/ SomeRelease(t) \/ SomeWait(t) \/ SomeAlertWait(t)
           \/ SomeSignal(t) \/ SomeBroadcast(t) \/ SomeAlert(t) \/ SomeJoin(t)
  <2>1. Elsewhere
    BY <1>1 DEF SomeAcquire, SomeRelease, SomeWait, SomeAlertWait, SomeSignal,
       SomeBroadcast, SomeAlert, SomeJoin, Acquire, Release, Wait, AlertWait,
       Signal, Broadcast, Alert, Join, Client
  <2> QED  BY <2>1 DEF InLock
<1>2. CASE \/ SomeCreateT(t) \/ SomeNewSelf(t) \/ TestAlert(t) \/ AlertPause(t)
           \/ Fork(t) \/ Exit(t) \/ CollectBegins(t)
  <2>1. Elsewhere
    BY <1>2 DEF SomeCreateT, SomeNewSelf, CreateT, NewSelf, TestAlert, AlertPause,
       Fork, Exit, CollectBegins, Client
  <2> QED  BY <2>1 DEF InLock
<1>3. CASE \/ WaitTest(t) \/ WaitReturns(t) \/ PauseAgain(t) \/ PauseWakes(t)
           \/ PauseEnds(t) \/ ForkIdle(t) \/ ForkNone(t) \/ ForkNew(t) \/ Rouse(t)
  <2>1. Elsewhere
    BY <1>3 DEF WaitTest, WaitReturns, PauseAgain, PauseWakes, PauseEnds,
       ForkIdle, ForkNone, ForkNew, Rouse
  <2> QED  BY <2>1 DEF InLock
<1>4. CASE \/ Start(t) \/ Finish(t) \/ Reborn(t) \/ JoinDone(t) \/ JoinWaits(t)
           \/ JoinFinally(t) \/ Collect(t)
  <2>1. Elsewhere
    BY <1>4 DEF Start, Finish, Reborn, JoinDone, JoinWaits, JoinFinally, Collect
  <2> QED  BY <2>1 DEF InLock
<1>5. CASE WaitUnlock(t) \/ SemaWait(t) \/ BroadcastEnd(t) \/ Ends(t)
  BY <1>5 DEF WaitUnlock, SemaWait, BroadcastEnd, Ends, InLock
<1>6. CASE AllocCSect(t) \/ InstallCSect(t) \/ EnterCSect(t)
  BY <1>6 DEF AllocCSect, InstallCSect, EnterCSect, InLock
<1> QED
  BY StepCases, <1>1, <1>2, <1>3, <1>4, <1>5, <1>6

\* Every step keeps the types of what a T has.
LEMMA ThreadTypesStep ==
  ASSUME TypeOK, CallsOK, NEW t \in Thread, Step(t)
  PROVE  ThreadTypes' /\ (heap \in Thread \cup {Nil})'
<1>1. /\ waitSema \in [Thread -> Thread] /\ cond \in [Thread -> Thread]
      /\ completed \in [Thread -> BOOLEAN] /\ joined \in [Thread -> BOOLEAN]
      /\ idleThreads \in Seq(Thread) /\ slots \subseteq Thread
      /\ call[t] \in CallType
  BY DEF TypeOK
<1>2. call[t].on \in Thread \cup {Nil}
  BY <1>1, CallLemma
<1>3. ThreadTypes'
  <2>1. CASE UNCHANGED threadVars
    BY <1>1, <2>1 DEF threadVars, ThreadTypes
  <2>2. CASE ForkIdle(t)
    <3>1. Head(idleThreads) \in Thread /\ Tail(idleThreads) \in Seq(Thread)
      BY <1>1, <2>2, HeadTailProperties DEF ForkIdle
    <3> QED  BY <1>1, <2>2, <3>1 DEF ForkIdle, AssignSlot, ThreadTypes
  <2>3. CASE ForkNew(t)
    <3>1. call[t].on \in Thread
      BY <1>2, <2>3 DEF ForkNew, CallsOK, CallOK
    <3> QED  BY <1>1, <2>3, <3>1 DEF ForkNew, AssignSlot, ThreadTypes
  <2>4. CASE Finish(t)
    <3>1. completed' \in [Thread -> BOOLEAN] /\ UNCHANGED <<joined, slots>>
      BY <1>1, <2>4 DEF Finish
    <3>2. CASE call[t].on = Nil
      BY <1>1, <2>4, <3>1, <3>2 DEF Finish, ThreadTypes
    <3>3. ASSUME call[t].on # Nil
          PROVE  ThreadTypes'
      <4>1. PICK u \in Thread : u = call[t].on
        BY <1>2, <3>3
      <4>2. idleThreads' = <<u>> \o idleThreads
        BY <2>4, <3>3, <4>1 DEF Finish
      <4>3. <<u>> \o idleThreads \in Seq(Thread)
        BY <1>1, PushLemma
      <4>4. /\ waitSema' = [waitSema EXCEPT ![u] = waitSema[t]]
            /\ cond' = [cond EXCEPT ![u] = cond[t]]
        BY <2>4, <3>3, <4>1 DEF Finish
      <4>5. waitSema' \in [Thread -> Thread] /\ cond' \in [Thread -> Thread]
        BY <1>1, <4>4
      <4>6. idleThreads' \in Seq(Thread)
        BY <4>2, <4>3
      <4>7. joined' \in [Thread -> BOOLEAN] /\ slots' \subseteq Thread
        BY <1>1, <3>1
      <4> QED  BY <3>1, <4>5, <4>6, <4>7 DEF ThreadTypes
    <3> QED  BY <3>2, <3>3
  <2>5. CASE Ends(t)
    BY <1>1, <2>5 DEF Ends, ThreadTypes
  <2>6. CASE JoinDone(t)
    BY <1>1, <2>6 DEF JoinDone, ThreadTypes
  <2> QED  BY ThreadFrame, <2>1, <2>2, <2>3, <2>4, <2>5, <2>6
<1>4. (heap \in Thread \cup {Nil})'
  <2>1. heap' = heap \/ heap' = t \/ heap' = Nil
    <3>1. CASE \/ SomeAcquire(t) \/ SomeRelease(t) \/ SomeWait(t) \/ SomeAlertWait(t)
               \/ SomeSignal(t) \/ SomeBroadcast(t) \/ SomeAlert(t) \/ SomeJoin(t)
      BY <3>1 DEF SomeAcquire, SomeRelease, SomeWait, SomeAlertWait, SomeSignal,
         SomeBroadcast, SomeAlert, SomeJoin, Acquire, Release, Wait, AlertWait,
         Signal, Broadcast, Alert, Join
    <3>2. CASE \/ SomeCreateT(t) \/ SomeNewSelf(t) \/ TestAlert(t) \/ AlertPause(t)
               \/ Fork(t) \/ Exit(t) \/ CollectBegins(t)
      BY <3>2 DEF SomeCreateT, SomeNewSelf, CreateT, NewSelf, TestAlert, AlertPause,
         PauseTurn, Fork, Exit, CollectBegins
    <3>3. CASE \/ AllocCSect(t) \/ InstallCSect(t) \/ WaitUnlock(t) \/ SemaWait(t)
               \/ WaitTest(t) \/ WaitReturns(t) \/ PauseAgain(t) \/ PauseWakes(t)
               \/ PauseEnds(t) \/ ForkIdle(t)
      BY <3>3 DEF AllocCSect, InstallCSect, WaitUnlock, SemaWait, WaitTest,
         WaitReturns, PauseAgain, PauseTurn, PauseWakes, PauseEnds, ForkIdle
    <3>4. CASE \/ ForkNone(t) \/ ForkNew(t) \/ Rouse(t) \/ Start(t) \/ Finish(t)
               \/ BroadcastEnd(t) \/ Reborn(t) \/ Ends(t)
      BY <3>4 DEF ForkNone, ForkNew, Rouse, Start, Finish, BroadcastEnd, Reborn, Ends
    <3>5. CASE \/ JoinDone(t) \/ JoinWaits(t) \/ JoinFinally(t) \/ Collect(t)
               \/ EnterCSect(t)
      BY <3>5 DEF JoinDone, JoinWaits, JoinFinally, Collect, EnterCSect
    <3> QED  BY StepCases, <3>1, <3>2, <3>3, <3>4, <3>5
  <2> QED  BY <2>1 DEF TypeOK
<1> QED  BY <1>3, <1>4

\* Only who waits enters a list, and the last Broadcast of a T empties its own.
LEMMA ListsShrink ==
  ASSUME TypeOK, ListsOK, AlertableOK, NEW t \in Thread, Step(t)
  PROVE  /\ \A d \in Waitable : \A x \in Thread :
              Contains(waiters'[d], x)
                => \/ Contains(waiters[d], x)
                   \/ x = t /\ (SomeWait(t) \/ SomeAlertWait(t) \/ JoinWaits(t))
         /\ BroadcastEnd(t) => \A x : ~Contains(waiters'[cond[t]], x)
<1>1. /\ waiters \in [Waitable -> Seq(Thread)] /\ cond[t] \in Waitable
      /\ call[t] \in CallType
  BY Constants DEF TypeOK
<1>k. Cond \subseteq Waitable /\ Thread \subseteq Waitable
  BY Constants
<1>2. \A d \in Waitable : Len(waiters[d]) \in 0 .. Len(waiters[d])
  <2> SUFFICES ASSUME NEW d \in Waitable PROVE Len(waiters[d]) \in 0 .. Len(waiters[d])
    OBVIOUS
  <2>1. Len(waiters[d]) \in Nat
    BY <1>1, LenProperties
  <2> QED  BY <2>1, SMT
<1>3. ASSUME BroadcastEnd(t)
      PROVE  /\ \A d \in Waitable : \A x : Contains(waiters'[d], x) => Contains(waiters[d], x)
             /\ \A x : ~Contains(waiters'[cond[t]], x)
  <2>1. DequeueHead(cond[t], Len(waiters[cond[t]]))
    BY <1>3 DEF BroadcastEnd
  <2> QED  BY <1>1, <1>2, <2>1, DequeueLemma
<1>4. ASSUME SomeSignal(t) \/ SomeBroadcast(t)
      PROVE  \A d \in Waitable : \A x : Contains(waiters'[d], x) => Contains(waiters[d], x)
  <2>1. PICK c \in Waitable : Signal(t, c) \/ Broadcast(t, c)
    BY <1>4, <1>k DEF SomeSignal, SomeBroadcast
  <2>2. PICK n \in 0 .. Len(waiters[c]) : DequeueHead(c, n)
    <3>1. CASE Signal(t, c)
      <4>1. Len(waiters[c]) \in Nat /\ Len(waiters[c]) # 0
        BY <1>1, <3>1, LenProperties, EmptySeq DEF Signal
      <4>2. 1 \in 0 .. Len(waiters[c])
        BY <4>1, SMT
      <4> QED  BY <3>1, <4>2 DEF Signal
    <3>2. CASE Broadcast(t, c)
      BY <1>2, <3>2 DEF Broadcast
    <3> QED  BY <2>1, <3>1, <3>2
  <2> QED  BY <2>2, DequeueLemma
<1>5. ASSUME SomeAlert(t)
      PROVE  \A d \in Waitable : \A x : Contains(waiters'[d], x) => Contains(waiters[d], x)
  BY <1>5, AlertLemma DEF SomeAlert
<1>6. ASSUME SomeWait(t) \/ SomeAlertWait(t) \/ JoinWaits(t)
      PROVE  \A d \in Waitable : \A x \in Thread :
               Contains(waiters'[d], x) => Contains(waiters[d], x) \/ x = t
  <2>1. waiters' = waiters \/ \E r : InnerWait(t, r)
    BY <1>6 DEF SomeWait, SomeAlertWait, JoinWaits, Wait, AlertWait, AlertEnter
  <2>2. ASSUME NEW r, InnerWait(t, r), NEW d \in Waitable, NEW x \in Thread,
               Contains(waiters'[d], x), x # t
        PROVE  Contains(waiters[d], x)
    <3>1. waiters'[d] = IF d = r.c THEN <<t>> \o waiters[d] ELSE waiters[d]
      BY <1>1, <2>2 DEF InnerWait
    <3>2. waiters[d] \in Seq(Thread)
      BY <1>1
    <3> QED  BY <2>2, <3>1, <3>2, PushLemma
  <2> QED  BY <2>1, <2>2
<1>7. CASE \/ UNCHANGED waitVars \/ TestAlert(t) \/ AlertPause(t) \/ SemaWait(t)
           \/ WaitTest(t) \/ PauseAgain(t) \/ PauseWakes(t) \/ PauseEnds(t)
           \/ Rouse(t) \/ Reborn(t)
  <2>1. waiters' = waiters
    BY <1>7 DEF waitVars, TestAlert, AlertPause, SemaWait, WaitTest, PauseAgain,
       PauseTurn, PauseWakes, PauseEnds, Rouse, Reborn
  <2> QED  BY <1>3, <2>1
<1> QED  BY WaitFrame, <1>3, <1>4, <1>5, <1>6, <1>7

\* Who has completed goes on to its Broadcast and its end.
LEMMA CompletedStep ==
  ASSUME TypeOK, CallsOK, RolesOK, CompletedOK, NEW t \in Thread, Step(t)
  PROVE  /\ CompletedOK'
         /\ \A x \in Thread : completed'[x] => completed[x] \/ (x = t /\ pc'[x] = "bcast")
         /\ \A x \in Thread : completed[x] /\ pc[x] = "bcast"
              => pc'[x] = "bcast" \/ (x = t /\ BroadcastEnd(t))
         /\ \A x \in Thread : completed[x] => cond'[x] = cond[x]
         /\ \A x \in Thread : Blocked(x) /\ Blocked(x)' => call'[x] = call[x]
<1>1. /\ pc \in [Thread -> Labels] /\ call \in [Thread -> CallType]
      /\ call[t] \in CallType /\ completed \in [Thread -> BOOLEAN]
      /\ cond \in [Thread -> Thread]
  BY DEF TypeOK
<1>r. call[t].on \in Thread \cup {Nil}
  BY <1>1, CallLemma
<1>c. \A x \in Thread : completed[x] => \/ pc[x] \in {"bcast", "exit", "gone"}
                                        \/ pc[x] \in InLock /\ call[x].ret = "exit"
  BY DEF CompletedOK
<1>l. InLock = {"alloc", "new", "enter"} /\ Unborn = {"none", "made", "promised"}
  BY DEF InLock, Unborn
<1>p. /\ pc[t] = "unlock" => WaitUnlock(t)
      /\ pc[t] = "sema" => SemaWait(t)
      /\ pc[t] = "bcast" => BroadcastEnd(t)
      /\ pc[t] = "exit" => Ends(t)
      /\ pc[t] \in InLock => AllocCSect(t) \/ InstallCSect(t) \/ EnterCSect(t)
      /\ pc[t] # "gone"
  BY PlaceLemma
<1>2. \A x \in Thread : x # t =>
        \/ pc'[x] = pc[x] /\ call'[x] = call[x]
        \/ pc[x] \in {"none", "made", "promised"}
  <2>1. CASE Alone(t)
    BY <2>1 DEF Alone
  <2>2. CASE UNCHANGED callVars
    BY <2>2 DEF callVars
  <2>3. CASE SomeCreateT(t) \/ SomeNewSelf(t)
    BY <1>1, <2>3 DEF SomeCreateT, SomeNewSelf, CreateT, NewSelf
  <2>4. CASE ForkIdle(t) \/ ForkNew(t) \/ Finish(t) \/ Reborn(t) \/ Ends(t)
    BY <1>1, <2>4 DEF ForkIdle, ForkNew, Finish, Reborn, Ends, LockMutex
  <2>5. CASE Rouse(t)
    BY <1>1, <1>r, <2>5 DEF Rouse
  <2>6. CASE BroadcastEnd(t)
    <3>1. call[t].on # Nil => pc[call[t].on] = "promised"
      BY <1>r, <2>6 DEF RolesOK, RoleOK, Left, BroadcastEnd
    <3> QED  BY <1>1, <1>r, <2>6, <3>1 DEF BroadcastEnd, LockMutex
  <2> QED  BY RolesFrame, <2>1, <2>2, <2>3, <2>4, <2>5, <2>6 DEF SameRoles
<1>3. /\ \A x \in Thread : completed'[x] = IF x = t /\ Finish(t) THEN TRUE ELSE completed[x]
      /\ Finish(t) => pc'[t] = "bcast"
  <2>1. CASE Finish(t)
    BY <1>1, <2>1 DEF Finish
  <2>2. ASSUME ~Finish(t) PROVE completed' = completed
    BY <2>2, ThreadFrame DEF threadVars, ForkIdle, ForkNew, Ends, JoinDone
  <2> QED  BY <2>1, <2>2
<1>4. CompletedOK'
  <2> SUFFICES ASSUME NEW x \in Thread, completed'[x]
               PROVE  \/ pc'[x] \in {"bcast", "exit", "gone"}
                      \/ pc'[x] \in InLock /\ call'[x].ret = "exit"
    BY DEF CompletedOK
  <2>1. CASE x # t
    BY <1>2, <1>3, <1>c, <1>l, <2>1
  <2>2. CASE x = t /\ Finish(t)
    BY <1>3, <2>2
  <2>3. CASE x = t /\ ~Finish(t)
    <3>1. CASE pc[t] = "bcast"
      <4>1. BroadcastEnd(t)
        BY <1>p, <3>1
      <4>2. CASE call[t].on = Nil
        BY <1>1, <1>l, <2>3, <4>1, <4>2, MadeFields DEF BroadcastEnd, LockMutex
      <4>3. CASE call[t].on # Nil
        <5>1. call[t].on # t
          BY <1>r, <3>1, <4>3 DEF RolesOK, RoleOK, Left
        <5> QED  BY <1>1, <2>3, <4>1, <4>3, <5>1 DEF BroadcastEnd
      <4> QED  BY <4>2, <4>3
    <3>2. CASE pc[t] = "exit"
      BY <1>1, <1>p, <2>3, <3>2 DEF Ends
    <3>3. CASE pc[t] \in InLock /\ call[t].ret = "exit"
      BY <1>1, <1>l, <1>p, <2>3, <3>3 DEF AllocCSect, InstallCSect, EnterCSect
    <3> QED  BY <1>c, <1>3, <1>p, <2>3, <3>1, <3>2, <3>3
  <2> QED  BY <2>1, <2>2, <2>3
<1>5. \A x \in Thread : completed[x] /\ pc[x] = "bcast"
        => pc'[x] = "bcast" \/ (x = t /\ BroadcastEnd(t))
  BY <1>2, <1>p
<1>6. \A x \in Thread : completed[x] => cond'[x] = cond[x]
  <2>1. CASE Finish(t)
    <3>1. call[t].on # Nil => pc[call[t].on] = "promised"
      BY <1>r, <2>1 DEF RolesOK, RoleOK, Leaves, Finish
    <3> QED  BY <1>1, <1>c, <1>l, <1>r, <2>1, <3>1 DEF Finish
  <2>2. CASE ~Finish(t)
    BY <2>2, ThreadFrame DEF threadVars, ForkIdle, ForkNew, Ends, JoinDone
  <2> QED  BY <2>1, <2>2
<1>7. \A x \in Thread : Blocked(x) /\ Blocked(x)' => call'[x] = call[x]
  <2> SUFFICES ASSUME NEW x \in Thread, Blocked(x), Blocked(x)'
               PROVE  call'[x] = call[x]
    OBVIOUS
  <2>1. CASE x # t
    BY <1>2, <2>1 DEF Blocked
  <2>2. CASE x = t
    BY <1>1, <1>p, <2>2 DEF Blocked, WaitUnlock, SemaWait, LockMutex
  <2> QED  BY <2>1, <2>2
<1> QED  BY <1>3, <1>4, <1>5, <1>6, <1>7

\* Who waits for a thread is not in the list that its last Broadcast has left.
LEMMA JoinersStep ==
  ASSUME TypeOK, CallsOK, RolesOK, ListsOK, AlertableOK, CompletedOK, JoinersWoken,
         ListsOK', NEW t \in Thread, Step(t)
  PROVE  JoinersWoken'
<1>1. /\ cond \in [Thread -> Thread] /\ call \in [Thread -> CallType]
      /\ Thread \subseteq Waitable /\ Nil \notin Thread
  BY Constants DEF TypeOK
<1>2. /\ \A x \in Thread : completed'[x] => completed[x] \/ (x = t /\ pc'[x] = "bcast")
      /\ \A x \in Thread : completed[x] /\ pc[x] = "bcast"
           => pc'[x] = "bcast" \/ (x = t /\ BroadcastEnd(t))
      /\ \A x \in Thread : completed[x] => cond'[x] = cond[x]
      /\ \A x \in Thread : Blocked(x) /\ Blocked(x)' => call'[x] = call[x]
  BY CompletedStep
<1>3. /\ \A d \in Waitable : \A x \in Thread :
           Contains(waiters'[d], x)
             => \/ Contains(waiters[d], x)
                \/ x = t /\ (SomeWait(t) \/ SomeAlertWait(t) \/ JoinWaits(t))
      /\ BroadcastEnd(t) => \A x : ~Contains(waiters'[cond[t]], x)
  BY ListsShrink
<1> SUFFICES ASSUME NEW s \in Thread, NEW u \in Thread, Joining(s, u)', completed'[u],
                    Contains(waiters'[cond'[u]], s), pc'[u] # "bcast"
             PROVE  FALSE
  BY DEF JoinersWoken
<1>4. completed[u] /\ cond'[u] = cond[u] /\ cond[u] \in Waitable
  BY <1>1, <1>2
<1>5. Contains(waiters'[cond[u]], s) /\ Blocked(s)'
  BY <1>4 DEF ListsOK
<1>6. CASE Contains(waiters[cond[u]], s)
  <2>1. Blocked(s)
    BY <1>4, <1>6 DEF ListsOK
  <2>2. Joining(s, u)
    BY <1>2, <1>5, <2>1 DEF Joining
  <2>3. pc[u] = "bcast"
    BY <1>4, <1>6, <2>2 DEF JoinersWoken
  <2> QED  BY <1>2, <1>3, <1>4, <1>5, <2>3
<1>7. CASE s = t /\ (SomeWait(t) \/ SomeAlertWait(t) \/ JoinWaits(t))
  <2>1. call'[t].on = u
    BY <1>7 DEF Joining
  <2>2. CASE ~Contains(waiters[cond[u]], s) /\ JoinWaits(t)
    <3>1. waiters' # waiters
      BY <1>4, <1>5, <2>2
    <3>2. /\ ~completed[call[t].on] /\ call[t] \in CallType
          /\ \/ call'[t] = [call[t] EXCEPT !.c = cond[call[t].on]]
             \/ call'[t] = [[call[t] EXCEPT !.c = cond[call[t].on]] EXCEPT !.ret = "waited"]
      BY <1>1, <2>2, <3>1 DEF JoinWaits, AlertEnter, InnerWait
    <3> DEFINE q == [call[t] EXCEPT !.c = cond[call[t].on]]
    <3>3. q \in CallType
      <4>1. pc[t] = "join" /\ CallOK(pc[t], call[t])
        BY <2>2 DEF JoinWaits, CallsOK
      <4>2. call[t].on \in Thread
        BY <3>2, <4>1, CallLemma DEF CallOK, JoinCall
      <4>3. cond[call[t].on] \in Waitable
        BY <1>1, <4>2
      <4> HIDE DEF JoinWaits
      <4> QED  BY <3>2, <4>3, SMT DEF CallType
    <3>4. q.on = call[t].on
      BY <3>2, FieldLemma
    <3>5. [q EXCEPT !.ret = "waited"].on = q.on
      BY <3>3, FieldLemma
    <3>6. call'[t] = q \/ call'[t] = [q EXCEPT !.ret = "waited"]
      BY <3>2
    <3> HIDE DEF q
    <3>7. call'[t].on = call[t].on
      BY <3>4, <3>5, <3>6
    <3> QED  BY <1>4, <2>1, <3>2, <3>7
  <2>3. CASE ~Contains(waiters[cond[u]], s) /\ (SomeWait(t) \/ SomeAlertWait(t))
    <3>1. waiters' # waiters
      BY <1>4, <1>5, <2>3
    <3>2. PICK m \in Mutex, c \in Cond : Wait(t, m, c) \/ AlertWait(t, m, c)
      BY <2>3 DEF SomeWait, SomeAlertWait
    <3>3. \/ call'[t] = Call(m, c, "run", Nil, FALSE, "run")
          \/ call'[t] = Call(m, c, "waited", Nil, TRUE, "run")
      BY <1>1, <3>1, <3>2 DEF Wait, AlertWait, AlertEnter, InnerWait
    <3>4. call'[t].on = Nil
      BY <3>3, SMT DEF Call
    <3> QED  BY <1>1, <2>1, <3>4
  <2> QED  BY <1>6, <1>7, <2>2, <2>3
<1> QED  BY <1>3, <1>4, <1>5, <1>6, <1>7

-----------------------------------------------------------------------------
(* The theorems.                                                           *)

LEMMA InitTypes ==
  Init => TypeOK
<1> SUFFICES ASSUME Init PROVE TypeOK
  OBVIOUS
<1>1. MutexTypes
  <2>1. 1 \in CSect /\ CSectCacheSize \in Nat
    BY Constants, BoundsAssumption
  <2>2. /\ cs \in [Lock -> CSect \cup {Nil}] /\ held \in [Lock -> BOOLEAN]
        /\ csOwner \in [CSect -> Thread \cup {Nil}]
    BY <2>1 DEF Init
  <2>3. cSectCache \in Seq(CSect) /\ Len(cSectCache) = 0
    BY EmptySeq DEF Init
  <2>4. 0 <= CSectCacheSize
    BY <2>1, SMT
  <2> QED  BY <2>2, <2>3, <2>4 DEF MutexTypes
<1>2. WaitTypes
  BY EmptySeq DEF Init, WaitTypes
<1>3. ThreadTypes
  BY EmptySeq, MainAssumption DEF Init, ThreadTypes
<1>4. CallTypes
  BY MadeCalls DEF Init, CallTypes, Labels, Unborn, Returns
<1> QED  BY <1>1, <1>2, <1>3, <1>4, TypeParts DEF Init, Errors

LEMMA InitInv ==
  Init => WaitInv
<1> SUFFICES ASSUME Init PROVE WaitInv
  OBVIOUS
<1>0. TypeOK
  BY InitTypes
<1>1. /\ \A x \in Thread : /\ pc[x] = IF x = Main THEN "run" ELSE "none"
                           /\ call[x] = NoCall
                           /\ waitSema[x] = x /\ sema[x] = 0
                           /\ ~alertable[x] /\ ~completed[x]
      /\ idleThreads = <<>> /\ slots = {Main} /\ fatal = "none"
      /\ \A c \in Waitable : waiters[c] = <<>>
  BY DEF Init
<1>2. \A x : ~Contains(<<>>, x)
  <2>1. 1 .. Len(<<>>) = {}
    BY EmptySeq, SMT
  <2> QED  BY <2>1 DEF Contains
<1>3. NoRepeats(<<>>)
  <2>1. 1 .. Len(<<>>) = {}
    BY EmptySeq, SMT
  <2> QED  BY <2>1 DEF NoRepeats
<1>4. CallsOK
  BY <1>1 DEF CallsOK, CallOK, InLock, InWait
<1>5. IdleOK
  BY <1>1, <1>2, <1>3 DEF IdleOK
<1>6. RolesOK
  <2>1. \A x, u \in Thread : ~Forks(x, u) /\ ~Rouses(x, u) /\ ~Leaves(x, u) /\ ~Left(x, u)
    BY <1>1, MadeFields, Constants DEF Forks, Rouses, Leaves, Left
  <2>2. \A x \in Thread : ~Starts(x)
    BY <1>1 DEF Starts, InLock
  <2>3. \A x \in Thread : pc[x] = "none" => x \notin slots
    BY <1>1
  <2> QED  BY <2>1, <2>2, <2>3 DEF RolesOK, RoleOK, OneRole
<1>7. SemasOwn
  BY <1>1 DEF SemasOwn
<1>8. ListsOK /\ \A x \in Thread : ~Waits(x)
  BY <1>1, <1>2, <1>3 DEF ListsOK, Waits
<1>9. SemaphoresOK
  BY <1>1 DEF SemaphoresOK, SemaphoreOK, Blocked
<1>10. AlertableOK /\ CompletedOK /\ JoinersWoken
  BY <1>1 DEF AlertableOK, CompletedOK, JoinersWoken
<1> QED  BY <1>0, <1>1, <1>4, <1>5, <1>6, <1>7, <1>8, <1>9, <1>10 DEF WaitInv, FatalOK

LEMMA StepInv ==
  WaitInv /\ [Next]_vars => WaitInv'
<1> SUFFICES ASSUME WaitInv, [Next]_vars PROVE WaitInv'
  OBVIOUS
<1>1. ASSUME NEW t \in Thread, Step(t)
      PROVE  WaitInv'
  <2>0. /\ TypeOK /\ CallsOK /\ IdleOK /\ RolesOK /\ SemasOwn /\ ListsOK
        /\ SemaphoresOK /\ AlertableOK /\ CompletedOK /\ JoinersWoken
        /\ FatalOK /\ WaitOK
    BY DEF WaitInv, WaitOK
  <2>1. CallTypes'
    BY <1>1, <2>0, CallTypesStep
  <2>2. CallsOK'
    BY <1>1, <2>0, CallsStep
  <2>3. MutexTypes'
    BY <1>1, <2>0, MutexTypesStep
  <2>4. ThreadTypes' /\ (heap \in Thread \cup {Nil})'
    BY <1>1, <2>0, ThreadTypesStep
  <2>5. WaitOK' /\ WaitTypes' /\ FatalOK'
    BY <1>1, <2>0, WaitStep
  <2>6. IdleOK' /\ RolesOK' /\ SemasOwn'
    BY <1>1, <2>0, RolesStep
  <2>7. CompletedOK'
    BY <1>1, <2>0, CompletedStep
  <2>8. ListsOK' /\ SemaphoresOK' /\ AlertableOK'
    BY <2>5 DEF WaitOK
  <2>9. JoinersWoken'
    BY <1>1, <2>0, <2>8, JoinersStep
  <2>10. TypeOK'
    <3>1. fatal' \in Errors
      BY <2>5 DEF FatalOK, Errors
    <3> QED  BY <2>1, <2>3, <2>4, <2>5, <3>1
             DEF TypeOK, MutexTypes, WaitTypes, ThreadTypes, CallTypes
  <2> QED  BY <2>2, <2>5, <2>6, <2>7, <2>8, <2>9, <2>10 DEF WaitInv
<1>2. CASE UNCHANGED vars
  <2>1. /\ UNCHANGED <<cs, held, csOwner, cSectCache, waiters, sema, alertable, alerted>>
        /\ UNCHANGED <<signalled, waitSema, cond, completed, joined, idleThreads, slots>>
        /\ UNCHANGED <<pc, call, heap, fatal>>
    BY <1>2 DEF vars, mutexVars, waitVars, threadVars, callVars
  <2>2. TypeOK' /\ CallsOK' /\ IdleOK'
    BY <2>1 DEF WaitInv, TypeOK, CallsOK, IdleOK
  <2>3. RolesOK' /\ SemasOwn'
    BY <2>1 DEF WaitInv, RolesOK, RoleOK, OneRole, SemasOwn, Forks, Rouses, Leaves, Left, Starts
  <2>4. ListsOK' /\ SemaphoresOK' /\ AlertableOK'
    BY <2>1 DEF WaitInv, ListsOK, SemaphoresOK, SemaphoreOK, AlertableOK, Blocked,
       Pausing, HandedOut, Past, Waits, Rouses, Left
  <2>5. CompletedOK' /\ JoinersWoken' /\ FatalOK'
    BY <2>1 DEF WaitInv, FatalOK, CompletedOK, JoinersWoken, Joining
  <2> QED  BY <2>2, <2>3, <2>4, <2>5 DEF WaitInv
<1> QED  BY <1>1, <1>2 DEF Next, Step

\* Threads, semaphores and lists stay as the code has them: the invariant holds.
THEOREM InvariantHolds ==
  Spec => []WaitInv
BY InitInv, StepInv, PTL DEF Spec

\* Every variable keeps its type.
THEOREM TypeCorrect ==
  Spec => []TypeOK
<1>1. WaitInv => TypeOK
  BY DEF WaitInv
<1> QED  BY InvariantHolds, <1>1, PTL

\* Neither signals, broadcasts, alerts and timeouts together, nor the handing on
\* of kernel threads, release a semaphore that has its count or put a thread in
\* two lists, which would end the program.
THEOREM SemaphoresNeverChoke ==
  Spec => [](fatal \notin {"assert", "choke", "unslotted"})
<1>1. WaitInv => fatal \notin {"assert", "choke", "unslotted"}
  BY DEF WaitInv, FatalOK
<1> QED  BY InvariantHolds, <1>1, PTL

\* No join is lost: who waits for a thread that has completed is still to be
\* woken by its Broadcast, whatever T the kernel thread goes on to.
THEOREM JoinersCorrect ==
  Spec => []JoinersWoken
<1>1. WaitInv => JoinersWoken
  BY DEF WaitInv
<1> QED  BY InvariantHolds, <1>1, PTL

-----------------------------------------------------------------------------
(* Mutexes.  What is proved here needs what the constants say: the slots   *)
(* are enough, and no mutex gets a critical section from the cache while   *)
(* another thread gives it one.                                            *)

CacheSafe ==
  \/ CSectCacheSize = 0 \/ "Collect" \notin MainOps \cup Ops
  \/ \E m \in Mutex : Mutex = {m}
SlotsSafe == "Collect" \notin MainOps \cup Ops \/ Cardinality(Thread) <= LastSlot

\* Where a thread has threadMu.
HasLibrary(t) ==
  \/ pc[t] \in {"fork", "forkNew", "start", "finish", "exit", "join",
                "finally", "collect"}
  \/ pc[t] \in {"unlock", "waited", "return", "raise"} /\ call[t].m = threadMu

\* A mutex that is held has an entered critical section of its own, and only
\* those of held mutexes are entered.
OwnersOK ==
  /\ cs[threadMu] = 1 /\ ~Contains(cSectCache, 1)
  /\ \A m, n \in Lock : cs[m] = cs[n] /\ cs[m] # Nil => m = n
  /\ \A m \in Lock : held[m] => cs[m] # Nil /\ csOwner[cs[m]] # Nil
  /\ \A s \in CSect : csOwner[s] # Nil => \E m \in Lock : cs[m] = s /\ held[m]

\* A thread about to lock a mutex has not entered its critical section.
LockOK(t) ==
  /\ pc[t] \in InLock \cup {"sema"} /\ cs[call[t].m] # Nil
       => csOwner[cs[call[t].m]] # t
  /\ pc[t] = "enter" => cs[call[t].m] # Nil
  /\ pc[t] \in {"alloc", "new"} => call[t].m \in Mutex
  /\ HasLibrary(t) <=> csOwner[1] = t
  /\ "Collect" \notin MainOps \cup Ops
       => pc[t] # "collect" /\ (pc[t] \in InLock => call[t].ret # "collect")
LocksOK == \A t \in Thread : LockOK(t)

CacheOK ==
  \/ cSectCache = <<>>
  \/ /\ Len(cSectCache) = 1 /\ \A m \in Mutex : cs[m] = Nil
     /\ \A t \in Thread : pc[t] # "new"

MutexInv ==
  /\ WaitInv /\ OwnersOK /\ LocksOK /\ CacheOK /\ NeverDies

\* What a step of t does to the critical sections leaves the other threads
\* where they were.
Gentle(t) ==
  /\ \A x \in Thread : x # t =>
       /\ \A s \in CSect : csOwner'[s] = x => csOwner[s] = x
       /\ csOwner'[1] = x <=> csOwner[1] = x
  /\ \A m \in Lock :
       \/ cs'[m] = cs[m]
       \/ cs[m] = Nil /\ cs'[m] # Nil /\ csOwner'[cs'[m]] = Nil
       \/ cs'[m] = Nil /\ \A x \in Thread : call[x].m # m


LEMMA LockedMutex ==
  ASSUME CallsOK, NEW x \in Thread, pc[x] \in InLock \cup {"sema"}
  PROVE  call[x].m \in Lock
<1>1. CallOK(pc[x], call[x]) /\ Mutex \subseteq Lock /\ threadMu \in Lock
  BY Constants DEF CallsOK
<1>2. CASE pc[x] \in InLock
  BY <1>1, <1>2 DEF CallOK, LockCall
<1>3. CASE pc[x] = "sema"
  BY <1>1, <1>3 DEF CallOK, WaitCall, InWait
<1> QED  BY <1>2, <1>3

LEMMA GentleLemma ==
  ASSUME TypeOK, CallsOK, NEW t \in Thread, NEW x \in Thread, x # t, Gentle(t),
         LockOK(x), pc'[x] = pc[x], call'[x] = call[x]
  PROVE  LockOK(x)'
<1>1. HasLibrary(x)' <=> HasLibrary(x)
  BY DEF HasLibrary
<1>2. cs \in [Lock -> CSect \cup {Nil}] /\ Nil \notin Thread
  BY Constants DEF TypeOK
<1>3. pc[x] \in InLock \cup {"sema"} => call[x].m \in Lock
  BY LockedMutex
<1>4. "alloc" \in InLock /\ "new" \in InLock /\ "enter" \in InLock
  BY DEF InLock
<1>5. \/ pc[x] \notin InLock \cup {"sema"}
      \/ cs'[call[x].m] = cs[call[x].m] /\ cs[call[x].m] \in CSect \cup {Nil}
      \/ cs'[call[x].m] # Nil /\ csOwner'[cs'[call[x].m]] = Nil
  BY <1>2, <1>3 DEF Gentle
<1>6. pc[x] \in InLock \cup {"sema"} /\ cs'[call[x].m] # Nil
        => csOwner'[cs'[call[x].m]] # x
  BY <1>2, <1>5 DEF LockOK, Gentle
<1>7. pc[x] = "enter" => cs'[call[x].m] # Nil
  BY <1>4, <1>5 DEF LockOK
<1>8. csOwner'[1] = x <=> csOwner[1] = x
  BY DEF Gentle
<1> QED  BY <1>1, <1>6, <1>7, <1>8 DEF LockOK

\* Where t, and no other thread, has moved.
LEMMA LocksLemma ==
  ASSUME TypeOK, CallsOK, LocksOK, NEW t \in Thread, Gentle(t), LockOK(t)',
         \A x \in Thread : x # t => \/ pc'[x] = pc[x] /\ call'[x] = call[x]
                                    \/ LockOK(x)'
  PROVE  LocksOK'
<1> SUFFICES ASSUME NEW x \in Thread PROVE LockOK(x)'
  BY DEF LocksOK
<1>1. LockOK(x)
  BY DEF LocksOK
<1> QED  BY <1>1, GentleLemma

\* Steps that leave mutexes and critical sections alone.
LEMMA StillStep ==
  ASSUME TypeOK, CallsOK, OwnersOK, LocksOK, CacheOK, NEW t \in Thread,
         UNCHANGED mutexVars, LockOK(t)',
         \A x \in Thread : x # t => \/ pc'[x] = pc[x] /\ call'[x] = call[x]
                                    \/ LockOK(x)',
         \A x \in Thread : pc'[x] = "new" => pc[x] = "new"
  PROVE  OwnersOK' /\ LocksOK' /\ CacheOK'
<1>1. cs' = cs /\ held' = held /\ csOwner' = csOwner /\ cSectCache' = cSectCache
  BY DEF mutexVars
<1>2. Gentle(t)
  BY <1>1 DEF Gentle
<1>3. LocksOK'
  BY <1>2, LocksLemma
<1>4. OwnersOK'
  BY <1>1 DEF OwnersOK
<1>5. CacheOK'
  BY <1>1 DEF CacheOK
<1> QED  BY <1>3, <1>4, <1>5

\* ... which locks nothing, or is about to lock threadMu.
LEMMA FreeMove ==
  ASSUME NEW t \in Thread, UNCHANGED mutexVars, LockOK(t),
         pc'[t] \notin InLock \cup {"sema", "collect"},
         HasLibrary(t)' <=> HasLibrary(t)
  PROVE  LockOK(t)'
<1>1. csOwner' = csOwner
  BY DEF mutexVars
<1> QED  BY <1>1 DEF LockOK, InLock

LEMMA EnterMove ==
  ASSUME NEW t \in Thread, UNCHANGED mutexVars, OwnersOK, LockOK(t),
         ~HasLibrary(t), pc'[t] = "enter", call'[t].m = threadMu,
         "Collect" \in MainOps \cup Ops \/ call'[t].ret # "collect"
  PROVE  LockOK(t)'
<1>1. csOwner' = csOwner /\ cs' = cs /\ cs[threadMu] = 1 /\ 1 # Nil /\ csOwner[1] # t
  BY Constants DEF mutexVars, OwnersOK, LockOK
<1>2. ~HasLibrary(t)'
  BY DEF HasLibrary
<1> QED  BY <1>1, <1>2 DEF LockOK

LEMMA UnlockStep ==
  ASSUME TypeOK, CallsOK, OwnersOK, LocksOK, CacheOK, NEW t \in Thread, Alone(t),
         NEW m \in Lock, UnlockMutex(m), m = threadMu => HasLibrary(t),
         pc'[t] \notin InLock \cup {"collect"}, pc'[t] = "sema" => call'[t].m = m,
         HasLibrary(t)' <=> HasLibrary(t) /\ m # threadMu
  PROVE  OwnersOK' /\ LocksOK' /\ CacheOK'
<1>1. /\ cs' = cs /\ cSectCache' = cSectCache
      /\ \A n \in Lock : held'[n] <=> held[n] /\ n # m
      /\ \A s \in CSect : csOwner'[s] = IF s = cs[m] THEN Nil ELSE csOwner[s]
      /\ cs \in [Lock -> CSect \cup {Nil}]
  BY DEF UnlockMutex, TypeOK
<1>2. /\ Nil \notin Thread /\ 1 \in CSect /\ threadMu \in Lock /\ Nil \notin CSect
      /\ 1 # Nil /\ Mutex \subseteq Lock
  BY Constants
<1>3. \A n \in Lock : cs[n] = cs[m] /\ cs[n] # Nil => n = m
  BY DEF OwnersOK
<1>4. cs[m] = 1 <=> m = threadMu
  BY <1>2, <1>3 DEF OwnersOK
<1>5. OwnersOK'
  <2>1. \A n \in Lock : held'[n] => cs[n] # Nil /\ csOwner'[cs[n]] # Nil
    <3> SUFFICES ASSUME NEW n \in Lock, held'[n]
                 PROVE  cs[n] # Nil /\ csOwner'[cs[n]] # Nil
      OBVIOUS
    <3>1. held[n] /\ n # m /\ cs[n] # Nil /\ csOwner[cs[n]] # Nil
      BY <1>1 DEF OwnersOK
    <3>2. cs[n] \in CSect /\ cs[n] # cs[m]
      BY <1>1, <1>3, <3>1
    <3> QED  BY <1>1, <3>1, <3>2
  <2>2. \A s \in CSect : csOwner'[s] # Nil => \E n \in Lock : cs[n] = s /\ held'[n]
    <3> SUFFICES ASSUME NEW s \in CSect, csOwner'[s] # Nil
                 PROVE  \E n \in Lock : cs[n] = s /\ held'[n]
      OBVIOUS
    <3>1. s # cs[m] /\ csOwner[s] # Nil
      BY <1>1
    <3>2. PICK n \in Lock : cs[n] = s /\ held[n]
      BY <3>1 DEF OwnersOK
    <3> QED  BY <1>1, <3>1, <3>2
  <2> QED  BY <1>1, <2>1, <2>2 DEF OwnersOK
<1>6. LockOK(t) /\ \A x \in Thread : LockOK(x)
  BY DEF LocksOK
<1>7. Gentle(t)
  <2>1. \A x \in Thread : \A s \in CSect : csOwner'[s] = x => csOwner[s] = x
    BY <1>1, <1>2
  <2>2. \A x \in Thread : x # t => (csOwner'[1] = x <=> csOwner[1] = x)
    BY <1>1, <1>2, <1>4, <1>6 DEF LockOK
  <2> QED  BY <1>1, <2>1, <2>2 DEF Gentle
<1>8. LockOK(t)'
  <2>1. HasLibrary(t)' <=> csOwner'[1] = t
    BY <1>1, <1>2, <1>4, <1>6 DEF LockOK
  <2>2. pc'[t] = "sema" /\ cs[m] # Nil => csOwner'[cs[m]] # t
    BY <1>1, <1>2
  <2> QED  BY <1>1, <2>1, <2>2 DEF LockOK, InLock
<1>9. LocksOK'
  BY <1>7, <1>8, LocksLemma DEF Alone
<1>10. CacheOK'
  BY <1>1 DEF CacheOK, Alone, InLock
<1> QED  BY <1>5, <1>9, <1>10

\* t gives its mutex a critical section that no other has.
LEMMA GiveStep ==
  ASSUME TypeOK, CallsOK, OwnersOK, LocksOK, NEW t \in Thread, Alone(t),
         NEW m \in Mutex, call[t].m = m, pc[t] \in InLock, pc'[t] = "enter",
         call' = call, cs[m] = Nil, NEW c \in CSect, cs' = [cs EXCEPT ![m] = c],
         \A n \in Lock : cs[n] # c, csOwner[c] = Nil, UNCHANGED <<held, csOwner>>,
         cSectCache' = <<>>
  PROVE  OwnersOK' /\ LocksOK' /\ CacheOK'
<1>1. /\ \A n \in Lock : cs'[n] = IF n = m THEN c ELSE cs[n]
      /\ cs \in [Lock -> CSect \cup {Nil}]
  BY Constants DEF TypeOK
<1>2. /\ Nil \notin Thread /\ 1 \in CSect /\ threadMu \in Lock /\ Nil \notin CSect
      /\ 1 # Nil /\ Mutex \subseteq Lock /\ m # threadMu
  BY Constants
<1>3. OwnersOK'
  <2>1. ~Contains(<<>>, 1)
    BY EmptySeq, SMT DEF Contains
  <2>2. \A n, k \in Lock : cs'[n] = cs'[k] /\ cs'[n] # Nil => n = k
    BY <1>1 DEF OwnersOK
  <2>3. \A n \in Lock : held[n] => cs'[n] # Nil /\ csOwner[cs'[n]] # Nil
    BY <1>1 DEF OwnersOK
  <2>4. \A s \in CSect : csOwner[s] # Nil => \E n \in Lock : cs'[n] = s /\ held[n]
    <3> SUFFICES ASSUME NEW s \in CSect, csOwner[s] # Nil
                 PROVE  \E n \in Lock : cs'[n] = s /\ held[n]
      OBVIOUS
    <3>1. PICK n \in Lock : cs[n] = s /\ held[n]
      BY DEF OwnersOK
    <3> QED  BY <1>1, <1>2, <3>1
  <2> QED  BY <1>1, <1>2, <2>1, <2>2, <2>3, <2>4 DEF OwnersOK
<1>4. Gentle(t)
  BY <1>1, <1>2 DEF Gentle
<1>5. LockOK(t)'
  <2>1. LockOK(t) /\ HasLibrary(t)' = HasLibrary(t)
    BY DEF LocksOK, HasLibrary, InLock
  <2> QED  BY <1>1, <1>2, <2>1 DEF LockOK, InLock
<1>6. LocksOK'
  BY <1>4, <1>5, LocksLemma DEF Alone
<1> QED  BY <1>3, <1>6 DEF CacheOK

\* Every step that touches mutexes keeps who has entered what.
LEMMA TouchStep ==
  ASSUME WaitInv, OwnersOK, LocksOK, CacheOK, CacheSafe, NEW t \in Thread, Step(t),
         MutexTypes',
         \/ SomeRelease(t) \/ AllocCSect(t) \/ InstallCSect(t) \/ WaitUnlock(t)
         \/ ForkIdle(t) \/ ForkNone(t) \/ ForkNew(t) \/ Start(t) \/ Finish(t)
         \/ Ends(t) \/ JoinDone(t) \/ JoinFinally(t) \/ Collect(t)
         \/ EnterCSect(t)
  PROVE  OwnersOK' /\ LocksOK' /\ CacheOK'
<1>t. TypeOK /\ CallsOK
  BY DEF WaitInv
<1>1. /\ pc \in [Thread -> Labels] /\ call \in [Thread -> CallType]
      /\ CallOK(pc[t], call[t]) /\ call[t] \in CallType
      /\ cs \in [Lock -> CSect \cup {Nil}] /\ cSectCache \in Seq(CSect)
      /\ held \in [Lock -> BOOLEAN] /\ csOwner \in [CSect -> Thread \cup {Nil}]
  BY <1>t DEF TypeOK, CallsOK
<1>k. /\ Nil \notin Thread /\ 1 \in CSect /\ threadMu \in Lock /\ Nil \notin CSect
      /\ 1 # Nil /\ Mutex \subseteq Lock /\ threadMu \notin Mutex
  BY Constants
<1>o. LockOK(t) /\ \A x \in Thread : LockOK(x)
  BY DEF LocksOK
<1>l. InLock = {"alloc", "new", "enter"} /\ InWait = {"unlock", "sema", "waited", "return", "raise"}
  BY DEF InLock, InWait
<1>2. CASE SomeRelease(t)
  <2>1. PICK m \in Mutex : Release(t, m)
    BY <1>2 DEF SomeRelease
  <2>2. UnlockMutex(m) /\ pc' = pc /\ call' = call /\ pc[t] = "run"
    BY <2>1 DEF Release, callVars, Client
  <2>3. ~HasLibrary(t) /\ ~HasLibrary(t)' /\ Alone(t)
    BY <2>2 DEF HasLibrary, Alone
  <2>4. m \in Lock /\ m # threadMu
    BY <1>k
  <2>5. pc'[t] \notin InLock \cup {"collect"} /\ pc'[t] # "sema"
    BY <1>l, <2>2
  <2> QED  BY <1>t, <2>2, <2>3, <2>4, <2>5, UnlockStep
<1>3. CASE WaitUnlock(t)
  <2>1. UnlockMutex(call[t].m) /\ pc' = [pc EXCEPT ![t] = "sema"] /\ call' = call
        /\ pc[t] = "unlock"
    BY <1>3 DEF WaitUnlock
  <2>2. call[t].m \in Lock
    BY <1>1, <1>k, <1>l, <2>1 DEF CallOK, WaitCall
  <2>3. (HasLibrary(t) <=> call[t].m = threadMu) /\ ~HasLibrary(t)' /\ Alone(t)
    BY <1>1, <2>1 DEF HasLibrary, Alone
  <2>4. pc'[t] = "sema" /\ pc'[t] \notin InLock \cup {"collect"}
    BY <1>1, <1>l, <2>1
  <2> DEFINE m == call[t].m
  <2>5. /\ m \in Lock /\ UnlockMutex(m) /\ (m = threadMu => HasLibrary(t))
        /\ call'[t].m = m /\ (HasLibrary(t)' <=> HasLibrary(t) /\ m # threadMu)
    BY <2>1, <2>2, <2>3
  <2> HIDE DEF m
  <2> QED  BY <1>t, <2>3, <2>4, <2>5, UnlockStep
<1>4. CASE \/ ForkIdle(t) \/ ForkNone(t) \/ ForkNew(t) \/ Start(t) \/ Finish(t)
           \/ Ends(t) \/ JoinDone(t) \/ JoinFinally(t)
  <2>1. /\ UnlockMutex(threadMu)
        /\ pc[t] \in {"fork", "forkNew", "start", "finish", "exit", "join", "finally"}
        /\ \E l \in {"rouse", "create", "run", "bcast", "gone"} : pc' = [pc EXCEPT ![t] = l]
        /\ \A x \in Thread : x # t => call'[x] = call[x]
    BY <1>1, <1>4 DEF ForkIdle, ForkNone, ForkNew, Start, Finish, Ends, JoinDone, JoinFinally
  <2>2. HasLibrary(t) /\ ~HasLibrary(t)' /\ Alone(t)
    BY <1>1, <2>1 DEF HasLibrary, Alone
  <2>3. pc'[t] \notin InLock \cup {"collect"} /\ pc'[t] # "sema"
    BY <1>1, <1>l, <2>1
  <2> QED  BY <1>k, <1>t, <2>1, <2>2, <2>3, UnlockStep
<1>5. CASE AllocCSect(t)
  <2>1. CASE cSectCache = <<>>
    <3>1. /\ UNCHANGED mutexVars /\ pc' = [pc EXCEPT ![t] = "new"] /\ call' = call
          /\ pc[t] = "alloc"
      BY <1>5, <2>1 DEF AllocCSect, mutexVars
    <3>2. LockOK(t)'
      <4>1. csOwner' = csOwner /\ cs' = cs /\ pc'[t] = "new"
        BY <1>1, <3>1 DEF mutexVars
      <4>2. ~HasLibrary(t) /\ ~HasLibrary(t)'
        BY <3>1, <4>1 DEF HasLibrary
      <4> QED  BY <1>l, <1>o, <3>1, <4>1, <4>2 DEF LockOK
    <3>3. Gentle(t) /\ Alone(t)
      BY <3>1 DEF Gentle, Alone, mutexVars
    <3>4. LocksOK'
      BY <1>t, <3>2, <3>3, LocksLemma DEF Alone
    <3> QED  BY <2>1, <3>1, <3>4 DEF OwnersOK, CacheOK, mutexVars
  <2>2. CASE cSectCache # <<>>
    <3> DEFINE m == call[t].m
               c == Last(cSectCache)
    <3>1. /\ m \in Mutex /\ Len(cSectCache) = 1 /\ \A n \in Mutex : cs[n] = Nil
      BY <1>5, <1>o, <2>2 DEF AllocCSect, LockOK, CacheOK
    <3>2. /\ pc' = [pc EXCEPT ![t] = "enter"] /\ pc[t] = "alloc" /\ call' = call
          /\ cs' = [cs EXCEPT ![m] = c] /\ cSectCache' = Front(cSectCache)
          /\ UNCHANGED <<held, csOwner>>
      BY <1>5, <2>2 DEF AllocCSect
    <3>3. c = cSectCache[1] /\ c \in CSect /\ Contains(cSectCache, c)
      <4>1. c = cSectCache[1]
        BY <3>1 DEF Last
      <4>2. 1 \in 1 .. Len(cSectCache)
        BY <3>1, SMT
      <4>3. cSectCache[1] \in CSect
        BY <1>1, <4>2, ElementOfSeq
      <4> QED  BY <4>1, <4>2, <4>3 DEF Contains
    <3>4. cSectCache' = <<>>
      <4>1. Front(cSectCache) = SubSeq(cSectCache, 1, 0)
        BY <3>1, SMT DEF Front
      <4>2. SubSeq(cSectCache, 1, 0) = <<>>
        BY <1>1, SMT
      <4> QED  BY <3>2, <4>1, <4>2
    <3>5. \A n \in Lock : cs[n] # c
      <4>1. c # 1 /\ c # Nil /\ cs[threadMu] = 1
        BY <1>k, <3>3 DEF OwnersOK
      <4> QED  BY <3>1, <4>1 DEF Lock
    <3>6. csOwner[c] = Nil
      BY <3>3, <3>5 DEF OwnersOK
    <3>7. /\ Alone(t) /\ pc[t] \in InLock /\ pc'[t] = "enter" /\ cs[m] = Nil
      BY <1>1, <1>l, <3>1, <3>2 DEF Alone
    <3> HIDE DEF c
    <3>8. PICK k \in Mutex : k = call[t].m
      BY <3>1
    <3>9. /\ cs' = [cs EXCEPT ![k] = c] /\ cs[k] = Nil /\ call' = call
          /\ UNCHANGED <<held, csOwner>>
      BY <3>2, <3>7, <3>8
    <3> QED  BY <1>t, <3>3, <3>4, <3>5, <3>6, <3>7, <3>8, <3>9, GiveStep
  <2> QED  BY <2>1, <2>2
<1>6. CASE InstallCSect(t)
  <2>1. PICK m \in Mutex : m = call[t].m
    BY <1>6, <1>o DEF InstallCSect, LockOK
  <2>2. /\ pc' = [pc EXCEPT ![t] = "enter"] /\ pc[t] = "new" /\ call' = call
        /\ cs' = [cs EXCEPT ![m] = IF cs[m] = Nil THEN NewCSect ELSE cs[m]]
        /\ UNCHANGED <<held, csOwner, cSectCache>> /\ NotMade # {}
    BY <1>6, <2>1 DEF InstallCSect
  <2>3. cSectCache = <<>>
    BY <2>2 DEF CacheOK
  <2>4. Alone(t) /\ pc'[t] = "enter" /\ pc[t] \in InLock
    BY <1>1, <1>l, <2>2 DEF Alone
  <2>5. CASE cs[m] = Nil
    <3>1. NewCSect \in NotMade
      BY <2>2 DEF NewCSect
    <3>2. /\ NewCSect \in CSect /\ csOwner[NewCSect] = Nil
          /\ \A n \in Lock : cs[n] # NewCSect
      BY <3>1 DEF NotMade
    <3>3. PICK c \in CSect : c = NewCSect
      BY <3>2
    <3>4. /\ cs' = [cs EXCEPT ![m] = c] /\ csOwner[c] = Nil
          /\ \A n \in Lock : cs[n] # c
      BY <2>2, <2>5, <3>2, <3>3
    <3>5. cSectCache' = <<>> /\ UNCHANGED <<held, csOwner>> /\ call' = call
      BY <2>2, <2>3
    <3> QED  BY <1>t, <2>1, <2>4, <2>5, <3>4, <3>5, GiveStep
  <2>6. CASE cs[m] # Nil
    <3>1. cs' = cs
      BY <1>1, <2>2, <2>6
    <3>2. UNCHANGED mutexVars
      BY <2>2, <3>1 DEF mutexVars
    <3>3. ~HasLibrary(t) /\ ~HasLibrary(t)'
      BY <2>2, <2>4 DEF HasLibrary
    <3>4. LockOK(t)'
      BY <1>l, <1>o, <2>1, <2>2, <2>4, <2>6, <3>1, <3>3 DEF LockOK
    <3>5. \A x \in Thread : pc'[x] = "new" => pc[x] = "new"
      BY <2>4 DEF Alone
    <3> QED  BY <1>t, <2>4, <3>2, <3>4, <3>5, StillStep DEF Alone
  <2> QED  BY <2>5, <2>6
<1>7. CASE EnterCSect(t)
  <2>1. /\ pc[t] = "enter" /\ call[t].m \in Lock
    BY <1>7, <1>l, <1>t, LockedMutex DEF EnterCSect
  <2>2. PICK m \in Lock : m = call[t].m
    BY <2>1
  <2>3. /\ cs' = cs /\ cSectCache' = cSectCache /\ csOwner[cs[m]] \in {Nil, t}
        /\ held' = [held EXCEPT ![m] = TRUE]
        /\ csOwner' = [csOwner EXCEPT ![cs[m]] = t]
        /\ pc' = [pc EXCEPT ![t] = call[t].ret]
        /\ \A x \in Thread : x # t => call'[x] = call[x]
        /\ call'[t] = IF call[t].ret = "run" THEN NoCall
                      ELSE IF call[t].ret = "waited" THEN call[t]
                      ELSE [call[t] EXCEPT !.c = Nil]
    BY <1>1, <1>7, <2>2 DEF EnterCSect
  <2>4. cs[m] \in CSect /\ csOwner[cs[m]] = Nil
    <3>1. cs[m] # Nil /\ csOwner[cs[m]] # t
      BY <1>l, <1>o, <2>1, <2>2 DEF LockOK
    <3> QED  BY <1>1, <2>3, <3>1
  <2>5. /\ \A n \in Lock : held'[n] = (held[n] \/ n = m)
        /\ \A s \in CSect : csOwner'[s] = IF s = cs[m] THEN t ELSE csOwner[s]
    BY <1>1, <2>3, <2>4
  <2>6. cs[m] = 1 <=> m = threadMu
    BY <1>k DEF OwnersOK
  <2>7. OwnersOK'
    <3>1. \A n \in Lock : held'[n] => cs[n] # Nil /\ csOwner'[cs[n]] # Nil
      <4> SUFFICES ASSUME NEW n \in Lock, held'[n]
                   PROVE  cs[n] # Nil /\ csOwner'[cs[n]] # Nil
        OBVIOUS
      <4>1. CASE n = m
        BY <1>k, <2>4, <2>5, <4>1
      <4>2. CASE n # m
        <5>1. held[n] /\ cs[n] # Nil /\ csOwner[cs[n]] # Nil /\ cs[n] \in CSect
          BY <1>1, <2>5, <4>2 DEF OwnersOK
        <5> QED  BY <1>k, <2>5, <5>1
      <4> QED  BY <4>1, <4>2
    <3>2. \A s \in CSect : csOwner'[s] # Nil => \E n \in Lock : cs[n] = s /\ held'[n]
      BY <2>5 DEF OwnersOK
    <3> QED  BY <2>3, <3>1, <3>2 DEF OwnersOK
  <2>8. Alone(t) /\ pc'[t] = call[t].ret
    BY <1>1, <2>3 DEF Alone
  <2>9. Gentle(t)
    <3>1. \A x \in Thread : x # t => \A s \in CSect : csOwner'[s] = x => csOwner[s] = x
      BY <2>5
    <3>2. \A x \in Thread : x # t => (csOwner'[1] = x <=> csOwner[1] = x)
      BY <1>k, <2>4, <2>5
    <3> QED  BY <2>3, <3>1, <3>2 DEF Gentle
  <2>10. LockOK(t)'
    <3>1. LockCall(call[t]) /\ call[t].ret \in Returns
      BY <1>1, <1>l, <2>1, CallLemma DEF CallOK
    <3>2. csOwner'[1] = t <=> m = threadMu
      <4>1. csOwner[1] # t
        BY <1>o, <2>1 DEF LockOK, HasLibrary
      <4> QED  BY <1>k, <2>5, <2>6, <4>1
    <3>3. HasLibrary(t)' <=> m = threadMu
      <4>1. CASE call[t].ret = "waited"
        BY <2>2, <2>3, <2>8, <4>1 DEF HasLibrary
      <4>2. CASE call[t].ret = "run"
        BY <1>k, <2>2, <2>8, <3>1, <4>2 DEF LockCall, HasLibrary
      <4>3. CASE call[t].ret \in {"forkNew", "join", "fork", "start", "finish", "exit", "collect"}
        BY <2>2, <2>8, <3>1, <4>3 DEF LockCall, HasLibrary
      <4> QED  BY <3>1, <4>1, <4>2, <4>3 DEF LockCall
    <3>4. pc'[t] \notin InLock \cup {"sema"}
      BY <1>l, <2>8, <3>1 DEF LockCall
    <3>5. "Collect" \notin MainOps \cup Ops => pc'[t] # "collect"
      BY <1>l, <1>o, <2>1, <2>8 DEF LockOK
    <3> QED  BY <1>l, <3>2, <3>3, <3>4, <3>5 DEF LockOK
  <2>11. LocksOK'
    BY <1>t, <2>8, <2>9, <2>10, LocksLemma DEF Alone
  <2>12. CacheOK'
    <3>1. \A x \in Thread : pc'[x] = "new" => pc[x] = "new"
      <4>1. pc'[t] # "new"
        BY <1>1, <1>l, <2>1, <2>8 DEF CallOK, LockCall
      <4> QED  BY <2>8, <4>1 DEF Alone
    <3> QED  BY <2>3, <3>1 DEF CacheOK
  <2> QED  BY <2>7, <2>11, <2>12
<1>8. CASE Collect(t)
  <2>1. PICK dead \in SUBSET {m \in Mutex : Unused(m)} : FreeCSect(dead)
    BY <1>8 DEF Collect
  <2>2. /\ pc[t] = "collect" /\ held' = [held EXCEPT ![threadMu] = FALSE]
        /\ csOwner' = [csOwner EXCEPT ![1] = Nil]
        /\ pc' = [pc EXCEPT ![t] = call[t].back] /\ call' = [call EXCEPT ![t] = NoCall]
    BY <1>8 DEF Collect, OwnersOK
  <2>3. /\ dead \in SUBSET Mutex
        /\ \A m \in dead : cs[m] # Nil /\ ~held[m] /\ \A x \in Thread : call[x].m # m
    BY <2>1 DEF Unused
  <2>4. MutexTypes
    BY <1>t DEF TypeOK, MutexTypes
  <2>5. /\ cs' = [m \in Lock |-> IF m \in dead THEN Nil ELSE cs[m]]
        /\ cSectCache' \in Seq(CSect) /\ Len(cSectCache') <= CSectCacheSize
        /\ Len(cSectCache') <= Len(cSectCache) + Cardinality({cs[m] : m \in dead})
        /\ \A s : Contains(cSectCache', s) =>
             Contains(cSectCache, s) \/ \E m \in dead : cs[m] = s
    BY <2>1, <2>3, <2>4, FreeLemma
  <2>6. call[t].back \in {"run", "create", "newSelf"}
    BY <1>1, CallLemma
  <2>7. /\ Alone(t) /\ pc'[t] \in {"run", "create", "newSelf"}
        /\ HasLibrary(t) /\ ~HasLibrary(t)'
    BY <1>1, <2>2, <2>6 DEF Alone, HasLibrary
  <2>8. /\ \A m \in Lock : cs'[m] = IF m \in dead THEN Nil ELSE cs[m]
        /\ \A m \in Lock : held'[m] <=> held[m] /\ m # threadMu
        /\ \A s \in CSect : csOwner'[s] = IF s = 1 THEN Nil ELSE csOwner[s]
        /\ threadMu \notin dead /\ csOwner[1] = t
    BY <1>1, <1>k, <1>o, <2>2, <2>3, <2>5, <2>7 DEF LockOK
  <2>9. \A m \in Lock : cs[m] = 1 <=> m = threadMu
    BY <1>k DEF OwnersOK
  <2>10. OwnersOK'
    <3>1. ~Contains(cSectCache', 1)
      BY <1>k, <2>3, <2>5, <2>9 DEF OwnersOK
    <3>2. \A m, n \in Lock : cs'[m] = cs'[n] /\ cs'[m] # Nil => m = n
      BY <2>8 DEF OwnersOK
    <3>3. \A m \in Lock : held'[m] => cs'[m] # Nil /\ csOwner'[cs'[m]] # Nil
      <4> SUFFICES ASSUME NEW m \in Lock, held'[m]
                   PROVE  cs'[m] # Nil /\ csOwner'[cs'[m]] # Nil
        OBVIOUS
      <4>1. held[m] /\ m # threadMu /\ m \notin dead
        BY <2>3, <2>8
      <4>2. cs[m] # Nil /\ csOwner[cs[m]] # Nil /\ cs[m] # 1 /\ cs[m] \in CSect
        BY <1>1, <2>9, <4>1 DEF OwnersOK
      <4> QED  BY <2>8, <4>1, <4>2
    <3>4. \A s \in CSect : csOwner'[s] # Nil => \E m \in Lock : cs'[m] = s /\ held'[m]
      <4> SUFFICES ASSUME NEW s \in CSect, csOwner'[s] # Nil
                   PROVE  \E m \in Lock : cs'[m] = s /\ held'[m]
        OBVIOUS
      <4>1. s # 1 /\ csOwner[s] # Nil
        BY <2>8
      <4>2. PICK m \in Lock : cs[m] = s /\ held[m]
        BY <4>1 DEF OwnersOK
      <4>3. m # threadMu /\ m \notin dead
        BY <2>3, <2>9, <4>1, <4>2
      <4> QED  BY <2>8, <4>2, <4>3
    <3> QED  BY <1>k, <2>8, <3>1, <3>2, <3>3, <3>4 DEF OwnersOK
  <2>11. Gentle(t)
    <3>1. \A x \in Thread : \A s \in CSect : csOwner'[s] = x => csOwner[s] = x
      BY <1>k, <2>8
    <3>2. \A x \in Thread : x # t => (csOwner'[1] = x <=> csOwner[1] = x)
      BY <1>k, <2>8
    <3> QED  BY <2>3, <2>8, <3>1, <3>2 DEF Gentle
  <2>12. LockOK(t)'
    <3>1. csOwner'[1] # t
      BY <1>k, <2>8
    <3> QED  BY <1>l, <2>7, <3>1 DEF LockOK
  <2>13. LocksOK'
    BY <1>t, <2>7, <2>11, <2>12, LocksLemma DEF Alone
  <2>14. CacheOK'
    <3>0. \A q \in Seq(CSect) : Len(q) \in Nat /\ (Len(q) = 0 => q = <<>>)
      BY EmptySeq, LenProperties
    <3>1. CASE CSectCacheSize = 0
      <4>1. Len(cSectCache') = 0
        BY <2>5, <3>0, <3>1, SMT
      <4> QED  BY <2>5, <3>0, <4>1 DEF CacheOK
    <3>2. CASE "Collect" \notin MainOps \cup Ops
      BY <1>o, <2>2, <3>2 DEF LockOK
    <3>3. ASSUME NEW m \in Mutex, Mutex = {m}
          PROVE  CacheOK'
      <4>1. CASE dead = {}
        <5>1. Cardinality({cs[n] : n \in dead}) = 0
          <6>1. {cs[n] : n \in dead} = {}
            BY <4>1
          <6> QED  BY <6>1, FS_EmptySet, Zenon
        <5>a. Len(cSectCache') <= Len(cSectCache) + 0
          BY <2>5, <5>1, Zenon
        <5>b. Len(cSectCache') \in Nat /\ Len(cSectCache) \in Nat
          BY <1>1, <2>5, <3>0, Zenon
        <5>c. \A a, b \in Nat : a <= b + 0 => a <= b
          BY SMT
        <5>2. Len(cSectCache') <= Len(cSectCache) /\ Len(cSectCache') \in Nat /\ Len(cSectCache) \in Nat
          BY <5>a, <5>b, <5>c, Zenon
        <5>3. CASE cSectCache = <<>>
          <6>1. Len(cSectCache') = 0
            BY <5>2, <5>3, EmptySeq, SMT
          <6> QED  BY <2>5, <3>0, <6>1 DEF CacheOK
        <5>4. CASE cSectCache # <<>>
          <6>1. /\ Len(cSectCache) = 1 /\ \A n \in Mutex : cs[n] = Nil
                /\ \A x \in Thread : pc[x] # "new"
            BY <5>4 DEF CacheOK
          <6>2. Len(cSectCache') \in {0, 1}
            BY <5>2, <6>1, SMT
          <6>3. \A n \in Mutex : cs'[n] = Nil
            BY <1>k, <2>8, <6>1
          <6>4. \A x \in Thread : pc'[x] # "new"
            BY <2>7, <6>1 DEF Alone
          <6> QED  BY <2>5, <3>0, <6>2, <6>3, <6>4 DEF CacheOK
        <5> QED  BY <5>3, <5>4
      <4>2. CASE dead = {m}
        <5>1. Cardinality({cs[n] : n \in dead}) = 1
          <6>1. {cs[n] : n \in dead} = {cs[m]}
            BY <4>2
          <6> QED  BY <6>1, FS_Singleton, Zenon
        <5>2. cSectCache = <<>>
          BY <2>3, <4>2 DEF CacheOK
        <5>a. Len(cSectCache) = 0
          BY <5>2, EmptySeq, Zenon
        <5>b. Len(cSectCache') <= 0 + 1 /\ Len(cSectCache') \in Nat
          BY <2>5, <3>0, <5>1, <5>a, Zenon
        <5>c. \A a \in Nat : a <= 0 + 1 => a = 0 \/ a = 1
          BY SMT
        <5>4. Len(cSectCache') \in {0, 1}
          BY <5>b, <5>c, Zenon
        <5>5. \A n \in Mutex : cs'[n] = Nil
          BY <1>k, <2>8, <3>3, <4>2
        <5>6. \A x \in Thread : pc[x] # "new"
          BY <1>o, <2>3, <3>3, <4>2 DEF LockOK
        <5>7. \A x \in Thread : pc'[x] # "new"
          BY <2>7, <5>6 DEF Alone
        <5> QED  BY <2>5, <3>0, <5>4, <5>5, <5>7 DEF CacheOK
      <4> QED  BY <2>3, <3>3, <4>1, <4>2
    <3> QED  BY <3>1, <3>2, <3>3 DEF CacheSafe
  <2> QED  BY <2>10, <2>13, <2>14
<1> QED  BY <1>2, <1>3, <1>4, <1>5, <1>6, <1>7, <1>8

\* All other steps leave mutexes alone; some make t lock one.
LEMMA OtherStep ==
  ASSUME WaitInv, OwnersOK, LocksOK, CacheOK, NEW t \in Thread, Step(t),
         UNCHANGED mutexVars
  PROVE  \/ OwnersOK' /\ LocksOK' /\ CacheOK'
         \/ SomeRelease(t) \/ AllocCSect(t) \/ InstallCSect(t) \/ WaitUnlock(t)
         \/ ForkIdle(t) \/ ForkNone(t) \/ ForkNew(t) \/ Start(t) \/ Finish(t)
         \/ Ends(t) \/ JoinDone(t) \/ JoinFinally(t) \/ Collect(t)
         \/ EnterCSect(t)
<1>t. TypeOK /\ CallsOK
  BY DEF WaitInv
<1>1. /\ pc \in [Thread -> Labels] /\ call \in [Thread -> CallType]
      /\ CallOK(pc[t], call[t]) /\ call[t] \in CallType /\ call[t].on \in Thread \cup {Nil}
  BY <1>t, CallLemma DEF TypeOK, CallsOK
<1>k. /\ Nil \notin Thread /\ threadMu \in Lock /\ Mutex \subseteq Lock /\ threadMu \notin Mutex
  BY Constants
<1>o. LockOK(t) /\ \A x \in Thread : LockOK(x)
  BY DEF LocksOK
<1>l. InLock = {"alloc", "new", "enter"} /\ InWait = {"unlock", "sema", "waited", "return", "raise"}
  BY DEF InLock, InWait
<1>m. cs' = cs /\ csOwner' = csOwner /\ held' = held /\ cs[threadMu] = 1 /\ 1 # Nil
  BY Constants DEF mutexVars, OwnersOK
<1>u. ASSUME UNCHANGED callVars
      PROVE  OwnersOK' /\ LocksOK' /\ CacheOK'
  <2>1. pc' = pc /\ call' = call
    BY <1>u DEF callVars
  <2>2. LockOK(t)'
    BY <1>m, <1>o, <2>1 DEF LockOK, HasLibrary
  <2> QED  BY <1>t, <2>1, <2>2, StillStep
\* t alone moves, to where it locks nothing.
<1>f. ASSUME Alone(t), pc'[t] \notin {"alloc", "new", "enter", "sema", "collect"},
             HasLibrary(t)' <=> HasLibrary(t)
      PROVE  OwnersOK' /\ LocksOK' /\ CacheOK'
  <2>1. LockOK(t)'
    BY <1>f, <1>l, <1>o, FreeMove
  <2>2. \A x \in Thread : pc'[x] = "new" => pc[x] = "new"
    BY <1>f DEF Alone
  <2> QED  BY <1>f, <1>t, <2>1, <2>2, StillStep DEF Alone
\* t alone moves, and locks threadMu.
<1>e. ASSUME Alone(t), pc'[t] = "enter", call'[t].m = threadMu, ~HasLibrary(t),
             "Collect" \in MainOps \cup Ops \/ call'[t].ret # "collect"
      PROVE  OwnersOK' /\ LocksOK' /\ CacheOK'
  <2>1. LockOK(t)'
    BY <1>e, <1>o, EnterMove
  <2>2. \A x \in Thread : pc'[x] = "new" => pc[x] = "new"
    BY <1>e DEF Alone
  <2> QED  BY <1>e, <1>t, <2>1, <2>2, StillStep DEF Alone
<1>2. CASE SomeAcquire(t)
  <2>1. PICK m \in Mutex : Acquire(t, m)
    BY <1>2 DEF SomeAcquire
  <2> DEFINE r == Call(m, Nil, "run", Nil, FALSE, "run")
  <2>2. r.m = m /\ r.ret = "run"
    BY SMT DEF Call
  <2> HIDE DEF r
  <2>3. /\ pc' = [pc EXCEPT ![t] = IF cs[m] = Nil THEN "alloc" ELSE "enter"]
        /\ call' = [call EXCEPT ![t] = r] /\ ~Holds(t, m) /\ pc[t] = "run"
    BY <2>1, <2>2 DEF Acquire, LockMutex, Client, r
  <2>4. ~HasLibrary(t) /\ ~HasLibrary(t)' /\ Alone(t) /\ call'[t] = r
    BY <1>1, <2>3 DEF HasLibrary, Alone
  <2>5. cs[m] # Nil => csOwner[cs[m]] # t
    <3> SUFFICES ASSUME cs[m] # Nil, csOwner[cs[m]] = t PROVE FALSE
      OBVIOUS
    <3>1. cs[m] \in CSect
      BY <1>k, <1>t DEF TypeOK
    <3>2. PICK n \in Lock : cs[n] = cs[m] /\ held[n]
      BY <1>k, <3>1 DEF OwnersOK
    <3>3. n = m
      BY <1>k, <3>2 DEF OwnersOK
    <3> QED  BY <2>3, <3>2, <3>3 DEF Holds
  <2>6. LockOK(t)'
    <3>1. pc'[t] = IF cs[m] = Nil THEN "alloc" ELSE "enter"
      BY <1>1, <2>3
    <3>2. csOwner[1] # t
      BY <1>o, <2>4 DEF LockOK
    <3> QED  BY <1>m, <2>2, <2>4, <2>5, <3>1, <3>2 DEF LockOK
  <2>7. \A x \in Thread : pc'[x] = "new" => pc[x] = "new"
    BY <1>1, <2>3
  <2> QED  BY <1>t, <2>4, <2>6, <2>7, StillStep DEF Alone
<1>3. CASE SemaWait(t)
  <2>1. /\ pc' = [pc EXCEPT ![t] = IF cs[call[t].m] = Nil THEN "alloc" ELSE "enter"]
        /\ call' = [call EXCEPT ![t] = call[t]] /\ pc[t] = "sema"
    BY <1>3 DEF SemaWait, LockMutex
  <2>2. ~HasLibrary(t) /\ ~HasLibrary(t)' /\ Alone(t) /\ call'[t] = call[t]
    BY <1>1, <2>1 DEF HasLibrary, Alone
  <2>3. WaitCall(call[t])
    BY <1>1, <1>l, <2>1 DEF CallOK
  <2>4. LockOK(t)'
    <3>1. pc'[t] = IF cs[call[t].m] = Nil THEN "alloc" ELSE "enter"
      BY <1>1, <2>1
    <3>2. cs[call[t].m] # Nil => csOwner[cs[call[t].m]] # t
      BY <1>o, <2>1 DEF LockOK
    <3>3. call[t].m \in Mutex \/ cs[call[t].m] # Nil
      BY <1>m, <2>3 DEF WaitCall
    <3>4. csOwner[1] # t
      BY <1>o, <2>2 DEF LockOK
    <3>5. call[t].ret # "collect"
      BY <2>3 DEF WaitCall
    <3> QED  BY <1>m, <2>2, <3>1, <3>2, <3>3, <3>4, <3>5 DEF LockOK
  <2>5. \A x \in Thread : pc'[x] = "new" => pc[x] = "new"
    BY <1>1, <2>1
  <2> QED  BY <1>t, <2>2, <2>4, <2>5, StillStep DEF Alone
<1>4. CASE SomeSignal(t) \/ SomeBroadcast(t) \/ SomeAlert(t) \/ TestAlert(t)
  BY <1>4, <1>u DEF SomeSignal, SomeBroadcast, SomeAlert, Signal, Broadcast, Alert, TestAlert
<1>5. CASE SomeWait(t) \/ SomeAlertWait(t)
  <2>1. PICK m \in Mutex, c \in Cond : Wait(t, m, c) \/ AlertWait(t, m, c)
    BY <1>5 DEF SomeWait, SomeAlertWait
  <2>2. /\ Call(m, c, "run", Nil, FALSE, "run").m = m
        /\ Call(m, c, "waited", Nil, TRUE, "run").m = m
    BY SMT DEF Call
  <2>3. /\ Alone(t) /\ pc[t] = "run"
        /\ pc'[t] = "run" \/ (pc'[t] = "unlock" /\ call'[t].m = m)
    BY <1>1, <2>1, <2>2 DEF Wait, AlertWait, AlertEnter, InnerWait, Client, Alone
  <2>4. ~HasLibrary(t) /\ ~HasLibrary(t)'
    BY <1>k, <2>3 DEF HasLibrary
  <2> QED  BY <1>f, <2>3, <2>4
<1>6. CASE AlertPause(t) \/ PauseAgain(t) \/ PauseWakes(t) \/ PauseEnds(t)
  <2>1. /\ Alone(t) /\ pc[t] \in {"run", "pause", "pausing", "paused"}
        /\ pc'[t] \in {"run", "pause", "pausing", "paused"}
    BY <1>1, <1>6 DEF AlertPause, PauseAgain, PauseTurn, PauseWakes, PauseEnds, Client, Alone
  <2>2. ~HasLibrary(t) /\ ~HasLibrary(t)'
    BY <2>1 DEF HasLibrary
  <2> QED  BY <1>f, <2>1, <2>2
<1>7. CASE WaitTest(t) \/ WaitReturns(t) \/ JoinWaits(t)
  <2>1. CASE WaitTest(t)
    <3>1. Alone(t) /\ pc[t] = "waited" /\ pc'[t] \in {"raise", "return"} /\ call' = call
      BY <1>1, <2>1 DEF WaitTest, Alone
    <3>2. HasLibrary(t)' <=> HasLibrary(t)
      BY <3>1 DEF HasLibrary
    <3> QED  BY <1>f, <3>1, <3>2
  <2>2. CASE WaitReturns(t)
    <3>1. WaitCall(call[t]) /\ pc[t] \in {"return", "raise"} /\ Alone(t)
      BY <1>1, <1>l, <2>2 DEF WaitReturns, CallOK, Alone
    <3>2. /\ call[t].on = Nil => pc'[t] = "run"
          /\ call[t].on # Nil => pc'[t] \in {"join", "finally"}
      BY <1>1, <2>2 DEF WaitReturns
    <3>3. HasLibrary(t)' <=> HasLibrary(t)
      BY <1>k, <3>1, <3>2 DEF HasLibrary, WaitCall
    <3> QED  BY <1>f, <3>1, <3>2, <3>3
  <2>3. CASE JoinWaits(t)
    <3>1. pc[t] = "join" /\ Alone(t) /\ pc'[t] \in {"finally", "unlock"}
      BY <1>1, <2>3 DEF JoinWaits, AlertEnter, InnerWait, Alone
    <3>2. pc'[t] = "unlock" => call'[t].m = threadMu
      <4> SUFFICES ASSUME pc'[t] = "unlock" PROVE call'[t].m = threadMu
        OBVIOUS
      <4> DEFINE q == [call[t] EXCEPT !.c = cond[call[t].on]]
      <4>1. call[t].m = threadMu /\ call[t].on # Nil
        BY <1>1, <3>1 DEF CallOK, JoinCall
      <4>2. call'[t] = q \/ call'[t] = [q EXCEPT !.ret = "waited"]
        BY <1>1, <2>3 DEF JoinWaits, AlertEnter, InnerWait
      <4>3. q.m = call[t].m
        BY <1>1, FieldLemma
      <4>4. q \in CallType
        <5>1. cond[call[t].on] \in Waitable
          BY <1>1, <1>t, <4>1, Constants DEF TypeOK
        <5> QED  BY <1>1, <5>1, SMT DEF CallType
      <4>5. [q EXCEPT !.ret = "waited"].m = q.m
        BY <4>4, FieldLemma
      <4> HIDE DEF q
      <4> QED  BY <4>1, <4>2, <4>3, <4>5
    <3>3. HasLibrary(t) /\ HasLibrary(t)'
      BY <3>1, <3>2 DEF HasLibrary
    <3> QED  BY <1>f, <3>1, <3>3
  <2> QED  BY <1>7, <2>1, <2>2, <2>3
<1>8. CASE SomeJoin(t) \/ Fork(t) \/ CollectBegins(t) \/ Reborn(t)
  <2>1. /\ \A ret, u, a : Call(threadMu, Nil, ret, u, a, "run").m = threadMu
        /\ \A b : /\ Call(threadMu, Nil, "collect", Nil, FALSE, b).m = threadMu
        /\ \A u, a : Call(threadMu, Nil, "join", u, a, "run").ret = "join"
    BY SMT DEF Call
  <2>2. /\ Alone(t) /\ pc'[t] = "enter" /\ call'[t].m = threadMu
        /\ "Collect" \in MainOps \cup Ops \/ call'[t].ret # "collect"
        /\ pc[t] \in {"run", "create", "newSelf", "idle"}
    <3>1. CASE SomeJoin(t)
      BY <1>1, <1>m, <2>1, <3>1 DEF SomeJoin, Join, LockMutex, Client, Alone
    <3>2. CASE Fork(t) \/ Reborn(t)
      BY <1>1, <1>m, <3>2, MadeFields DEF Fork, Reborn, LockMutex, Client, Alone
    <3>3. CASE CollectBegins(t)
      <4>1. "Collect" \in MainOps \cup Ops
        BY <3>3 DEF CollectBegins, Calls
      <4> QED  BY <1>1, <1>m, <2>1, <3>3, <4>1 DEF CollectBegins, LockMutex, Alone
    <3> QED  BY <1>8, <3>1, <3>2, <3>3
  <2>3. ~HasLibrary(t)
    BY <2>2 DEF HasLibrary
  <2> QED  BY <1>e, <2>2, <2>3
<1>9. CASE Exit(t)
  <2>1. pc[t] = "run" /\ Alone(t)
    BY <1>1, <1>9 DEF Exit, Client, LockMutex, Alone
  <2>2. \/ pc'[t] = "newSelf"
        \/ pc'[t] = "enter" /\ call'[t].m = threadMu /\ call'[t].ret = "finish"
    BY <1>1, <1>9, <1>m, MadeFields DEF Exit, LockMutex
  <2>3. ~HasLibrary(t)
    BY <2>1 DEF HasLibrary
  <2>4. CASE pc'[t] = "newSelf"
    <3>1. ~HasLibrary(t)'
      BY <2>4 DEF HasLibrary
    <3> QED  BY <1>f, <2>1, <2>3, <2>4, <3>1
  <2> QED  BY <1>e, <2>1, <2>2, <2>3, <2>4
<1>10. CASE SomeCreateT(t) \/ SomeNewSelf(t)
  <2>1. PICK u \in Thread : CreateT(t, u) \/ NewSelf(t, u)
    BY <1>10 DEF SomeCreateT, SomeNewSelf
  <2>2. /\ pc[t] \in {"create", "newSelf"} /\ pc[u] = "none" /\ u # t
        /\ pc'[t] = "enter" /\ pc'[u] \in {"made", "promised"}
        /\ \A x \in Thread : x # t /\ x # u => pc'[x] = pc[x]
        /\ \A x \in Thread : x # t => call'[x] = call[x]
        /\ call'[t].m = threadMu /\ call'[t].ret # "collect"
    BY <1>1, <2>1, MadeFields DEF CreateT, NewSelf
  <2>3. ~HasLibrary(t) /\ ~HasLibrary(u) /\ ~HasLibrary(u)'
    BY <2>2 DEF HasLibrary
  <2>4. LockOK(t)'
    BY <1>o, <2>2, <2>3, EnterMove
  <2>5. LockOK(u)'
    BY <1>l, <1>o, <2>2, <2>3, FreeMove
  <2>6. \A x \in Thread : pc'[x] = "new" => pc[x] = "new"
    BY <2>2
  <2> QED  BY <1>t, <2>2, <2>4, <2>5, <2>6, StillStep
<1>11. CASE Rouse(t)
  <2>1. PICK u \in Thread : u = call[t].on
    BY <1>1, <1>11 DEF Rouse, CallOK
  <2>2. pc[t] = "rouse" /\ ~HasLibrary(t)
    BY <1>11 DEF Rouse, HasLibrary
  <2>3. CASE pc[u] = "made"
    <3>1. /\ u # t /\ pc'[t] = "run" /\ pc'[u] = "enter"
          /\ \A x \in Thread : x # t /\ x # u => pc'[x] = pc[x] /\ call'[x] = call[x]
          /\ call'[u].m = threadMu /\ call'[u].ret # "collect"
      BY <1>1, <1>11, <2>1, <2>2, <2>3, MadeFields DEF Rouse
    <3>2. ~HasLibrary(t)' /\ ~HasLibrary(u)
      BY <2>3, <3>1 DEF HasLibrary
    <3>3. LockOK(t)'
      BY <1>l, <1>o, <2>2, <3>1, <3>2, FreeMove
    <3>4. LockOK(u)'
      BY <1>o, <3>1, <3>2, EnterMove
    <3>5. \A x \in Thread : pc'[x] = "new" => pc[x] = "new"
      BY <3>1
    <3> QED  BY <1>t, <3>1, <3>3, <3>4, <3>5, StillStep
  <2>4. CASE pc[u] # "made"
    <3>1. Alone(t) /\ pc'[t] = "run"
      BY <1>1, <1>11, <2>1, <2>4 DEF Rouse, Alone
    <3>2. ~HasLibrary(t)'
      BY <3>1 DEF HasLibrary
    <3> QED  BY <1>f, <2>2, <3>1, <3>2
  <2> QED  BY <2>3, <2>4
<1>12. CASE BroadcastEnd(t)
  <2>1. pc[t] = "bcast" /\ ~HasLibrary(t)
    BY <1>12 DEF BroadcastEnd, HasLibrary
  <2>2. CASE call[t].on = Nil
    <3>1. /\ Alone(t) /\ pc'[t] = "enter" /\ call'[t].m = threadMu
          /\ call'[t].ret # "collect"
      BY <1>1, <1>12, <1>m, <2>2, MadeFields DEF BroadcastEnd, LockMutex, Alone
    <3> QED  BY <1>e, <2>1, <3>1
  <2>3. ASSUME call[t].on # Nil
        PROVE  OwnersOK' /\ LocksOK' /\ CacheOK'
    <3>1. PICK u \in Thread : u = call[t].on
      BY <1>1, <2>3
    <3>2. pc[u] = "promised" /\ u # t
      BY <2>1, <3>1 DEF WaitInv, RolesOK, RoleOK, Left
    <3>3. /\ pc'[t] = "gone" /\ pc'[u] = "idle"
          /\ \A x \in Thread : x # t /\ x # u => pc'[x] = pc[x]
          /\ \A x \in Thread : x # t => call'[x] = call[x]
      BY <1>1, <1>12, <2>3, <3>1, <3>2 DEF BroadcastEnd
    <3>4. ~HasLibrary(t)' /\ ~HasLibrary(u) /\ ~HasLibrary(u)'
      BY <3>2, <3>3 DEF HasLibrary
    <3>5. LockOK(t)' /\ LockOK(u)'
      BY <1>l, <1>o, <2>1, <3>3, <3>4, FreeMove
    <3>6. \A x \in Thread : pc'[x] = "new" => pc[x] = "new"
      BY <3>3
    <3> QED  BY <1>t, <3>3, <3>5, <3>6, StillStep
  <2> QED  BY <2>2, <2>3
<1> QED
  BY StepCases, <1>2, <1>3, <1>4, <1>5, <1>6, <1>7, <1>8, <1>9, <1>10, <1>11, <1>12

\* Only a lock of a mutex that is held, and a Fork that needs more slots, can
\* fail for a lock.
LEMMA RelockCases ==
  ASSUME NEW t \in Thread, Step(t), fatal = "none", fatal' = "relock"
  PROVE  EnterCSect(t) \/ ForkIdle(t) \/ ForkNew(t)
<1>1. CASE \/ SomeAcquire(t) \/ SomeRelease(t) \/ SomeJoin(t)
           \/ SomeCreateT(t) \/ SomeNewSelf(t)
  BY <1>1 DEF SomeAcquire, Acquire, SomeRelease, Release, SomeJoin, Join,
     SomeCreateT, CreateT, SomeNewSelf, NewSelf
<1>2. CASE SomeWait(t)
  BY <1>2 DEF SomeWait, Wait, InnerWait
<1>3. CASE SomeAlertWait(t)
  BY <1>3 DEF SomeAlertWait, AlertWait, AlertEnter, InnerWait
<1>4. CASE SomeSignal(t) \/ SomeBroadcast(t)
  BY <1>4 DEF SomeSignal, Signal, SomeBroadcast, Broadcast, DequeueHead,
     ReleaseSemaphores
<1>5. CASE SomeAlert(t) \/ Rouse(t)
  BY <1>5 DEF SomeAlert, Alert, Rouse, ReleaseSemaphores
<1>6. CASE \/ TestAlert(t) \/ AlertPause(t) \/ Fork(t) \/ Exit(t)
           \/ CollectBegins(t) \/ PauseAgain(t) \/ PauseWakes(t) \/ PauseEnds(t)
  BY <1>6 DEF TestAlert, AlertPause, PauseTurn, Fork, Exit, CollectBegins,
     PauseAgain, PauseWakes, PauseEnds
<1>7. CASE \/ AllocCSect(t) \/ InstallCSect(t) \/ WaitUnlock(t) \/ SemaWait(t)
           \/ WaitTest(t) \/ WaitReturns(t)
  BY <1>7 DEF AllocCSect, InstallCSect, WaitUnlock, SemaWait, WaitTest,
     WaitReturns
<1>8. CASE \/ ForkNone(t) \/ Start(t) \/ Finish(t) \/ Reborn(t) \/ Ends(t)
           \/ JoinDone(t) \/ JoinFinally(t) \/ Collect(t)
  BY <1>8 DEF ForkNone, Start, Finish, Reborn, Ends, JoinDone, JoinFinally,
     Collect
<1>9. CASE BroadcastEnd(t)
  BY <1>9 DEF BroadcastEnd, DequeueHead, ReleaseSemaphores
<1>10. CASE JoinWaits(t)
  BY <1>10 DEF JoinWaits, AlertEnter, InnerWait
<1> QED
  BY StepCases, <1>1, <1>2, <1>3, <1>4, <1>5, <1>6, <1>7, <1>8, <1>9, <1>10

\* A thread that is given a slot has none yet, so there is one for it.
LEMMA SlotLemma ==
  ASSUME SlotsSafe, slots \subseteq Thread, NEW u \in Thread, u \notin slots,
         fatal = "none", AssignSlot(u)
  PROVE  fatal' = "none"
<1>1. CASE "Collect" \notin MainOps \cup Ops
  BY <1>1 DEF AssignSlot
<1>2. CASE Cardinality(Thread) <= LastSlot
  <2>1. /\ IsFiniteSet(slots) /\ Cardinality(slots) <= Cardinality(Thread)
        /\ (Cardinality(Thread) = Cardinality(slots) => Thread = slots)
    BY FiniteAssumption, FS_Subset
  <2>2. Cardinality(slots) \in Nat /\ Cardinality(Thread) \in Nat /\ LastSlot \in Nat
    BY <2>1, FiniteAssumption, FS_CardinalityType, BoundsAssumption
  <2>3. Cardinality(slots) # LastSlot
    BY <1>2, <2>1, <2>2, SMT
  <2> QED  BY <2>3 DEF AssignSlot
<1> QED  BY <1>1, <1>2 DEF SlotsSafe

LEMMA FatalStep ==
  ASSUME MutexInv, SlotsSafe, NEW t \in Thread, Step(t)
  PROVE  fatal' = "none"
<1>1. /\ TypeOK /\ CallsOK /\ IdleOK /\ RolesOK /\ SemasOwn /\ WaitOK /\ FatalOK
      /\ OwnersOK /\ LocksOK /\ fatal = "none"
  BY DEF MutexInv, WaitInv, WaitOK, NeverDies
<1>2. fatal' \in {"none", "relock"}
  BY <1>1, WaitStep DEF FatalOK
<1>3. slots \subseteq Thread /\ CallOK(pc[t], call[t]) /\ call[t].on \in Thread \cup {Nil}
  BY <1>1, CallLemma DEF TypeOK, CallsOK
<1>4. CASE EnterCSect(t)
  <2>1. pc[t] = "enter" /\ csOwner[cs[call[t].m]] \in {Nil, t}
        /\ fatal' = IF held[call[t].m] THEN "relock" ELSE fatal
    BY <1>4 DEF EnterCSect
  <2>2. call[t].m \in Lock
    BY <1>1, <2>1, LockedMutex DEF InLock
  <2>3. cs[call[t].m] # Nil /\ csOwner[cs[call[t].m]] # t
    BY <1>1, <2>1 DEF LocksOK, LockOK, InLock
  <2>4. ~held[call[t].m]
    BY <1>1, <2>1, <2>2, <2>3 DEF OwnersOK
  <2> QED  BY <1>1, <2>1, <2>4
<1>5. CASE ForkIdle(t)
  <2>1. Head(idleThreads) \in Thread /\ Contains(idleThreads, Head(idleThreads))
    BY <1>1, <1>5, TailLemma DEF ForkIdle, IdleOK, TypeOK
  <2>2. Head(idleThreads) \notin slots
    BY <1>1, <2>1 DEF IdleOK
  <2>3. PICK u \in Thread : u = Head(idleThreads)
    BY <2>1
  <2>4. AssignSlot(u) /\ u \notin slots
    BY <1>5, <2>2, <2>3 DEF ForkIdle
  <2> QED  BY <1>1, <1>3, <2>4, SlotLemma
<1>6. CASE ForkNew(t)
  <2>1. PICK u \in Thread : u = call[t].on
    BY <1>3, <1>6 DEF CallOK, ForkNew
  <2>2. Forks(t, u) /\ AssignSlot(u)
    BY <1>6, <2>1 DEF Forks, ForkNew
  <2>3. u \notin slots
    BY <1>1, <2>2 DEF RolesOK, RoleOK
  <2> QED  BY <1>1, <1>3, <2>2, <2>3, SlotLemma
<1> QED  BY <1>1, <1>2, <1>4, <1>5, <1>6, RelockCases

LEMMA InitMutexes ==
  Init => MutexInv
<1> SUFFICES ASSUME Init PROVE MutexInv
  OBVIOUS
<1>1. /\ \A m \in Lock : cs[m] = (IF m = threadMu THEN 1 ELSE Nil) /\ ~held[m]
      /\ \A s \in CSect : csOwner[s] = Nil
      /\ \A x \in Thread : pc[x] \in {"run", "none"} /\ call[x] = NoCall
      /\ cSectCache = <<>> /\ fatal = "none"
  BY DEF Init
<1>2. /\ threadMu \in Lock /\ 1 \in CSect /\ Nil \notin CSect /\ Nil \notin Thread
      /\ Mutex \subseteq Lock /\ threadMu \notin Mutex
  BY Constants
<1>3. ~Contains(<<>>, 1)
  BY EmptySeq, SMT DEF Contains
<1>4. OwnersOK
  BY <1>1, <1>2, <1>3 DEF OwnersOK
<1>5. LocksOK
  <2> SUFFICES ASSUME NEW x \in Thread PROVE LockOK(x)
    BY DEF LocksOK
  <2>1. ~HasLibrary(x) /\ csOwner[1] # x
    BY <1>1, <1>2 DEF HasLibrary
  <2>2. pc[x] \notin InLock \cup {"sema", "enter", "alloc", "new", "collect"}
    BY <1>1 DEF InLock
  <2> QED  BY <2>1, <2>2 DEF LockOK
<1>6. CacheOK
  BY <1>1 DEF CacheOK
<1> QED  BY <1>1, <1>4, <1>5, <1>6, InitInv DEF MutexInv, NeverDies

LEMMA MutexStep ==
  CacheSafe /\ SlotsSafe /\ MutexInv /\ [Next]_vars => MutexInv'
<1> SUFFICES ASSUME CacheSafe, SlotsSafe, MutexInv, [Next]_vars PROVE MutexInv'
  OBVIOUS
<1>0. WaitInv /\ OwnersOK /\ LocksOK /\ CacheOK /\ TypeOK /\ CallsOK
  BY DEF MutexInv, WaitInv
<1>1. WaitInv'
  BY <1>0, StepInv
<1>2. ASSUME NEW t \in Thread, Step(t)
      PROVE  MutexInv'
  <2>1. fatal' = "none"
    BY <1>2, FatalStep
  <2>2. MutexTypes'
    BY <1>0, <1>2, MutexTypesStep
  <2>3. OwnersOK' /\ LocksOK' /\ CacheOK'
    BY <1>0, <1>2, <2>2, MutexFrame, TouchStep, OtherStep
  <2> QED  BY <1>1, <2>1, <2>3 DEF MutexInv, NeverDies
<1>3. CASE UNCHANGED vars
  <2>1. UNCHANGED <<cs, held, csOwner, cSectCache, pc, call, fatal>>
    BY <1>3 DEF vars, mutexVars, callVars
  <2> QED
    BY <1>1, <2>1 DEF MutexInv, OwnersOK, LocksOK, LockOK, HasLibrary, CacheOK, NeverDies
<1> QED  BY <1>2, <1>3 DEF Next, Step

\* The library never ends the program, whatever is locked, forked, joined,
\* alerted and collected: this takes only that the slots are enough for the
\* threads (or no collection runs), and that the cache of critical sections is
\* off, as its comment allows, or nothing fills it, or only one mutex takes from
\* it.  Without either hypothesis a mutex can be locked twice: AllocCSect does
\* not look at m.cs again, and ExpandSlots allocates under threadMu.
THEOREM NeverFails ==
  ASSUME CacheSafe, SlotsSafe
  PROVE  Spec => []NeverDies
<1>1. MutexInv => NeverDies
  BY DEF MutexInv
<1>2. MutexInv /\ [Next]_vars => MutexInv'
  BY MutexStep
<1> QED  BY <1>1, <1>2, InitMutexes, PTL DEF Spec
=============================================================================
