------------------------- MODULE ThreadPosix_proofs -------------------------
(***************************************************************************)
(* Theorems about ThreadPosix for any threads, mutexes and conditions.     *)
(***************************************************************************)
EXTENDS ThreadPosix, SequenceTheorems, TLAPS

-----------------------------------------------------------------------------
(* The waiting lists: what adding and removing a thread does to membership.*)

\* A thread pushed on a list is in it once; the others stay as they were.
LEMMA PushLemma ==
  ASSUME NEW s \in Seq(Thread), NEW x \in Thread
  PROVE  /\ <<x>> \o s \in Seq(Thread)
         /\ NotIn(s, x) => OnceIn(<<x>> \o s, x)
         /\ \A t \in Thread \ {x} :
              /\ OnceIn(s, t) => OnceIn(<<x>> \o s, t)
              /\ NotIn(s, t) => NotIn(<<x>> \o s, t)
<1> DEFINE q == <<x>> \o s
<1>1. /\ q \in Seq(Thread)
      /\ Len(q) = Len(s) + 1
      /\ q[1] = x
      /\ \A i \in 1 .. Len(s) : q[i + 1] = s[i]
  BY ConcatProperties, SMT
<1>2. DOMAIN q = 1 .. Len(s) + 1 /\ DOMAIN s = 1 .. Len(s) /\ Len(s) \in Nat
  BY <1>1, LenProperties
<1>3. \A j \in DOMAIN q : j = 1 \/ (j - 1 \in DOMAIN s /\ q[j] = s[j - 1])
  BY <1>1, <1>2, SMT
<1>4. \A i \in DOMAIN s : i + 1 \in DOMAIN q /\ q[i + 1] = s[i]
  BY <1>1, <1>2, SMT
<1> HIDE DEF q
<1>5. ASSUME NotIn(s, x)
      PROVE  OnceIn(q, x)
  <2>1. 1 \in DOMAIN q
    BY <1>2, SMT
  <2>2. \A j \in DOMAIN q : q[j] = x <=> j = 1
    BY <1>1, <1>3, <1>5 DEF NotIn
  <2> QED  BY <2>1, <2>2 DEF OnceIn
<1>6. ASSUME NEW t \in Thread \ {x}, OnceIn(s, t)
      PROVE  OnceIn(q, t)
  <2>1. PICK i \in DOMAIN s : \A j \in DOMAIN s : s[j] = t <=> j = i
    BY <1>6 DEF OnceIn
  <2>2. i + 1 \in DOMAIN q
    BY <1>4
  <2>3. \A j \in DOMAIN q : q[j] = t <=> j = i + 1
    BY <1>1, <1>2, <1>3, <1>4, <2>1, SMT
  <2> QED  BY <2>2, <2>3 DEF OnceIn
<1>7. ASSUME NEW t \in Thread \ {x}, NotIn(s, t)
      PROVE  NotIn(q, t)
  BY <1>1, <1>3, <1>7, SMT DEF NotIn
<1> QED  BY <1>1, <1>5, <1>6, <1>7 DEF q

\* Removing the i-th element of a list removes that thread and no other.
LEMMA RemoveLemma ==
  ASSUME NEW s \in Seq(Thread), NEW i \in 1 .. Len(s)
  PROVE  /\ RemoveAt(s, i) \in Seq(Thread)
         /\ OnceIn(s, s[i]) => NotIn(RemoveAt(s, i), s[i])
         /\ \A t \in Thread \ {s[i]} :
              /\ OnceIn(s, t) => OnceIn(RemoveAt(s, i), t)
              /\ NotIn(s, t) => NotIn(RemoveAt(s, i), t)
<1> DEFINE a == SubSeq(s, 1, i - 1)
           b == SubSeq(s, i + 1, Len(s))
           q == RemoveAt(s, i)
<1>0. Len(s) \in Nat /\ DOMAIN s = 1 .. Len(s) /\ i \in Nat /\ i >= 1 /\ i <= Len(s)
  BY LenProperties, SMT
<1>e. \A k \in 1 .. Len(s) : s[k] \in Thread
  BY ElementOfSeq, SMT
<1>1. /\ a \in Seq(Thread) /\ Len(a) = i - 1
      /\ \A k \in 1 .. i - 1 : a[k] = s[k]
  <2>1. \A k \in 1 .. i - 1 : s[k] \in Thread
    BY <1>0, <1>e, SMT
  <2>2. /\ a \in Seq(Thread)
        /\ Len(a) = IF 1 <= i - 1 THEN (i - 1) - 1 + 1 ELSE 0
        /\ \A k \in 1 .. (i - 1) - 1 + 1 : a[k] = s[1 + k - 1]
    BY <1>0, <2>1, SubSeqProperties, SMT
  <2> HIDE DEF a
  <2> QED  BY <1>0, <2>2, SMT
<1>2. /\ b \in Seq(Thread) /\ Len(b) = Len(s) - i
      /\ \A k \in 1 .. Len(s) - i : b[k] = s[k + i]
  <2>1. \A k \in i + 1 .. Len(s) : s[k] \in Thread
    BY <1>0, <1>e, SMT
  <2>2. /\ b \in Seq(Thread)
        /\ Len(b) = IF i + 1 <= Len(s) THEN Len(s) - (i + 1) + 1 ELSE 0
        /\ \A k \in 1 .. Len(s) - (i + 1) + 1 : b[k] = s[(i + 1) + k - 1]
    BY <1>0, <2>1, SubSeqProperties, SMT
  <2> HIDE DEF b
  <2>3. ASSUME NEW k \in 1 .. Len(s) - i
        PROVE  b[k] = s[k + i]
    <3>1. k \in 1 .. Len(s) - (i + 1) + 1 /\ (i + 1) + k - 1 = k + i
      BY <1>0, SMT
    <3> QED  BY <2>2, <3>1
  <2>4. Len(b) = Len(s) - i
    <3>1. Len(b) = IF i + 1 <= Len(s) THEN Len(s) - (i + 1) + 1 ELSE 0
      BY <2>2
    <3>2. i + 1 <= Len(s) => Len(s) - (i + 1) + 1 = Len(s) - i
      BY <1>0, SMT
    <3>3. ASSUME ~(i + 1 <= Len(s))  PROVE 0 = Len(s) - i
      <4> DEFINE n == Len(s)
      <4>1. n \in Nat /\ i \in Nat /\ i <= n /\ ~(i + 1 <= n)
        BY <1>0, <3>3
      <4> HIDE DEF n
      <4>2. 0 = n - i
        BY <4>1, SMT
      <4> QED  BY <4>2 DEF n
    <3> QED  BY <3>1, <3>2, <3>3, Zenon
  <2> QED  BY <2>2, <2>3, <2>4
<1>3. q = a \o b
  BY DEF RemoveAt
<1> HIDE DEF a, b, q
<1>4. /\ q \in Seq(Thread) /\ Len(q) = Len(s) - 1
      /\ \A k \in 1 .. i - 1 : q[k] = s[k]
      /\ \A k \in i .. Len(s) - 1 : q[k] = s[k + 1]
  <2>0. /\ q \in Seq(Thread) /\ Len(q) = Len(a) + Len(b)
        /\ \A k \in 1 .. Len(a) + Len(b) :
             q[k] = IF k <= Len(a) THEN a[k] ELSE b[k - Len(a)]
    BY <1>1, <1>2, <1>3, ConcatProperties
  <2>1. /\ q \in Seq(Thread) /\ Len(q) = Len(s) - 1
        /\ \A k \in 1 .. Len(s) - 1 :
             q[k] = IF k <= i - 1 THEN a[k] ELSE b[k - (i - 1)]
    <3>1. (i - 1) + (Len(s) - i) = Len(s) - 1
      BY <1>0, SMT
    <3> QED  BY <2>0, <1>1, <1>2, <3>1
  <2>2. ASSUME NEW k \in i .. Len(s) - 1
        PROVE  q[k] = s[k + 1]
    <3>1. /\ k \in 1 .. Len(s) - 1 /\ ~(k <= i - 1)
          /\ k - (i - 1) \in 1 .. Len(s) - i /\ (k - (i - 1)) + i = k + 1
      BY <1>0, SMT
    <3> QED  BY <1>2, <2>1, <3>1
  <2>3. ASSUME NEW k \in 1 .. i - 1
        PROVE  q[k] = s[k]
    <3>1. k \in 1 .. Len(s) - 1 /\ k <= i - 1
      BY <1>0, SMT
    <3> QED  BY <1>1, <2>1, <3>1
  <2> QED  BY <2>1, <2>2, <2>3
<1>5. DOMAIN q = 1 .. Len(s) - 1
  BY <1>4, LenProperties
<1>s. \A j \in DOMAIN q :
        \/ j < i /\ j \in DOMAIN s /\ q[j] = s[j]
        \/ j >= i /\ j + 1 \in DOMAIN s /\ q[j] = s[j + 1]
  BY <1>0, <1>4, <1>5, SMT
<1>6. OnceIn(s, s[i]) => NotIn(q, s[i])
  BY <1>0, <1>4, <1>5, SMTT(30) DEF OnceIn, NotIn
<1>7. ASSUME NEW t \in Thread \ {s[i]}, OnceIn(s, t)
      PROVE  OnceIn(q, t)
  <2>1. PICK n \in DOMAIN s : \A j \in DOMAIN s : s[j] = t <=> j = n
    BY <1>7 DEF OnceIn
  <2>2. n # i
    BY <2>1, <1>0
  <2>3. CASE n < i
    <3>1. n \in DOMAIN q
      BY <2>3, <1>0, <1>5, SMT
    <3>2. \A j \in DOMAIN q : q[j] = t <=> j = n
      BY <2>1, <2>3, <1>0, <1>5, <1>s, SMT
    <3> QED  BY <3>1, <3>2 DEF OnceIn
  <2>4. CASE n > i
    <3>1. n - 1 \in DOMAIN q
      BY <2>4, <1>0, <1>5, SMT
    <3>2. \A j \in DOMAIN q : q[j] = t <=> j = n - 1
      BY <2>1, <2>4, <1>0, <1>5, <1>s, SMT
    <3> QED  BY <3>1, <3>2 DEF OnceIn
  <2> QED  BY <2>2, <2>3, <2>4, <1>0, SMT
<1>8. ASSUME NEW t \in Thread \ {s[i]}, NotIn(s, t)
      PROVE  NotIn(q, t)
  BY <1>8, <1>0, <1>4, <1>5, SMT DEF NotIn
<1> QED  BY <1>4, <1>6, <1>7, <1>8 DEF q

\* Head and Last are first and last of a list that is not empty; Tail and
\* Front are what remains when they are removed.
LEMMA EndsLemma ==
  ASSUME NEW s \in Seq(Thread), s # <<>>
  PROVE  /\ Len(s) \in 1 .. Len(s) /\ 1 \in 1 .. Len(s)
         /\ Last(s) = s[Len(s)] /\ Last(s) \in Thread
         /\ Head(s) = s[1] /\ Head(s) \in Thread
         /\ Front(s) = RemoveAt(s, Len(s))
         /\ Tail(s) = RemoveAt(s, 1)
<1>1. Len(s) \in Nat /\ Len(s) > 0
  BY EmptySeq, LenProperties, SMT
<1>2. Len(s) \in 1 .. Len(s) /\ 1 \in 1 .. Len(s)
  BY <1>1, SMT
<1>3. SubSeq(s, Len(s) + 1, Len(s)) = <<>> /\ SubSeq(s, 1, 0) = <<>>
  BY <1>1, SubSeqEmpty, SMT
<1>4. SubSeq(s, 1, Len(s) - 1) \in Seq(Thread)
  <2>1. \A k \in 1 .. Len(s) - 1 : s[k] \in Thread
    BY <1>1, ElementOfSeq, SMT
  <2> QED  BY <1>1, <2>1, SubSeqProperties, SMT
<1>5. Front(s) = RemoveAt(s, Len(s))
  BY <1>3, <1>4, ConcatEmptySeq DEF Front, RemoveAt
<1>6. Tail(s) = RemoveAt(s, 1)
  <2>1. Tail(s) \in Seq(Thread) /\ Tail(s) = SubSeq(s, 2, Len(s))
    BY HeadTailProperties, TailIsSubSeq
  <2>2. SubSeq(s, 1, 1 - 1) = <<>> /\ 1 + 1 = 2
    BY <1>3, SMT
  <2>3. <<>> \o Tail(s) = Tail(s)
    BY <2>1, ConcatEmptySeq
  <2> QED  BY <2>1, <2>2, <2>3 DEF RemoveAt
<1>7. Last(s) = s[Len(s)] /\ Last(s) \in Thread
  BY <1>2, ElementOfSeq DEF Last
<1>8. Head(s) = s[1] /\ Head(s) \in Thread
  BY <1>2, ElementOfSeq, HeadTailProperties, SMT
<1> QED  BY <1>2, <1>5, <1>6, <1>7, <1>8

\* Turning the ring round keeps it a ring of threads.
LEMMA RotateLemma ==
  ASSUME NEW s \in Seq(Thread), NEW i \in 1 .. Len(s)
  PROVE  RotateTo(s, i) \in Seq(Thread) /\ RotateTo(s, i) # <<>>
<1>0. Len(s) \in Nat /\ \A k \in 1 .. Len(s) : s[k] \in Thread
  BY LenProperties, ElementOfSeq
<1>1. SubSeq(s, i + 1, Len(s)) \in Seq(Thread)
  <2>1. \A k \in i + 1 .. Len(s) : s[k] \in Thread
    BY <1>0, SMT
  <2> QED  BY <1>0, <2>1, SubSeqProperties, SMT
<1>2. SubSeq(s, 1, i) \in Seq(Thread) /\ SubSeq(s, 1, i) # <<>>
  <2>1. \A k \in 1 .. i : s[k] \in Thread
    BY <1>0, SMT
  <2>2. /\ SubSeq(s, 1, i) \in Seq(Thread)
        /\ Len(SubSeq(s, 1, i)) = IF 1 <= i THEN i - 1 + 1 ELSE 0
    BY <1>0, <2>1, SubSeqProperties, SMT
  <2> QED  BY <1>0, <2>2, EmptySeq, SMT
<1> QED  BY <1>1, <1>2, ConcatProperties, ConcatEqualIffEmpty DEF RotateTo

\* Removing an element other than the first leaves a list that is not empty.
LEMMA RemoveNotEmpty ==
  ASSUME NEW s \in Seq(Thread), NEW i \in 1 .. Len(s), i # 1
  PROVE  RemoveAt(s, i) # <<>>
<1>0. Len(s) \in Nat /\ \A k \in 1 .. Len(s) : s[k] \in Thread
  BY LenProperties, ElementOfSeq
<1>1. SubSeq(s, i + 1, Len(s)) \in Seq(Thread)
  <2>1. \A k \in i + 1 .. Len(s) : s[k] \in Thread
    BY <1>0, SMT
  <2> QED  BY <1>0, <2>1, SubSeqProperties, SMT
<1>2. SubSeq(s, 1, i - 1) \in Seq(Thread) /\ SubSeq(s, 1, i - 1) # <<>>
  <2>1. \A k \in 1 .. i - 1 : s[k] \in Thread
    BY <1>0, SMT
  <2>2. /\ SubSeq(s, 1, i - 1) \in Seq(Thread)
        /\ Len(SubSeq(s, 1, i - 1)) = IF 1 <= i - 1 THEN i - 1 - 1 + 1 ELSE 0
    BY <1>0, <2>1, SubSeqProperties, SMT
  <2> QED  BY <1>0, <2>2, EmptySeq, SMT
<1> QED  BY <1>1, <1>2, ConcatEqualIffEmpty DEF RemoveAt

-----------------------------------------------------------------------------
(* Types.                                                                  *)

\* The state Init of ThreadPosix.m3 leaves is well typed.
LEMMA TypeInit == Init => TypeOK
<1> SUFFICES ASSUME Init PROVE TypeOK
  OBVIOUS
<1>1. <<Main>> \in Seq(Thread) /\ <<>> \in Seq(Thread)
  BY MainAssumption
<1> QED
  BY <1>1, MainAssumption, RatioAssumption, SuspendAssumption, SMT
     DEF Init, TypeOK, SchedOK, ThreadsOK, LocksOK, CallsOK, GlobalsOK, ScanType, NoScan, States, Labels, YieldPoints, Errors, Waitable

-----------------------------------------------------------------------------
(* Frames: which actions touch which group of variables.                   *)

\* Only the scheduler, the handler, Fork and a call of InternalYield touch
\* self, the ring of threads or the locals of InternalYield.
LEMMA SchedFrame ==
  ASSUME [Next]_vars
  PROVE  \/ UNCHANGED schedVars
         \/ \E t \in Thread : \/ Fork(t) \/ VisitBlocked(t) \/ VisitGone(t)
                              \/ Transfer(t)
         \/ CallInternalYield \/ Preempt \/ Rescan \/ Select
<1>1. CASE Client
  BY <1>1 DEF Client, Acquire, Release, Wait, AlertWait, WaitCall, Signal,
     Broadcast, Join, AlertJoin, JoinCall, Alert, CallFork, Exit, TestAlert,
     Yield, Pause, AlertPause, XPause, IOWait, IOAlertWait, IOCall,
     SuspendOthers, ResumeOthers
<1>2. CASE Library
  BY <1>2 DEF Library, LockMutex, CallXWait, XWait, XJoin, JoinMain, XIOWait,
     Die
<1>3. CASE Scheduler
  BY <1>3 DEF Scheduler, VisitAlertedWaiter, VisitReady, Deadlock, Die
<1>4. ASSUME NEW t \in Thread, Due(t) PROVE UNCHANGED schedVars
  BY <1>4 DEF Due
<1>5. CASE Halted \/ UNCHANGED vars
  BY <1>5 DEF Halted, vars
<1> QED  BY <1>1, <1>2, <1>3, <1>4, <1>5 DEF Next

\* The other steps leave every lock and every waiting list alone.
LEMMA LockFrame ==
  ASSUME [Next]_vars
  PROVE  \/ UNCHANGED lockVars
         \/ \E m \in Mutex : Release(m)
         \/ \E c \in Cond : Signal(c) \/ Broadcast(c)
         \/ \E t \in Thread : VisitAlertedWaiter(t)
         \/ LockMutex \/ XWait \/ Exit \/ XJoin
<1>1. CASE Client
  BY <1>1 DEF Client, Acquire, Wait, AlertWait, WaitCall,
     Join, AlertJoin, JoinCall, Alert, CallFork, TestAlert,
     Yield, Pause, AlertPause, XPause, IOWait, IOAlertWait, IOCall,
     SuspendOthers, ResumeOthers
<1>2. CASE Library
  BY <1>2 DEF Library, CallXWait, JoinMain, XIOWait, CallInternalYield, Fork, Die
<1>3. CASE Scheduler
  BY <1>3 DEF Scheduler, VisitReady, VisitBlocked, VisitGone, Transfer,
     Rescan, Select, Deadlock, Die
<1>4. CASE Preempt
  BY <1>4 DEF Preempt
<1>5. ASSUME NEW t \in Thread, Due(t) PROVE UNCHANGED lockVars
  BY <1>5 DEF Due
<1>6. CASE Halted \/ UNCHANGED vars
  BY <1>6 DEF Halted, vars
<1> QED  BY <1>1, <1>2, <1>3, <1>4, <1>5, <1>6 DEF Next

-----------------------------------------------------------------------------
(* Types, group by group.                                                  *)

\* The locals of InternalYield keep their types, whatever they are set to.
LEMMA ScanLemma ==
  /\ NoScan \in ScanType /\ FirstPass \in ScanType
  /\ [FirstPass EXCEPT !.scanned = TRUE] \in ScanType
  /\ \A a \in ScanType : [a EXCEPT !.deleted = TRUE] \in ScanType
  /\ \A a \in ScanType : [a EXCEPT !.at = 2, !.deleted = TRUE] \in ScanType
  /\ \A a \in ScanType, n \in Nat \ {0}, p, b \in BOOLEAN :
       [a EXCEPT !.at = n, !.pausing = p, !.blocking = b] \in ScanType
<1>1. NoScan \in ScanType
  BY DEF NoScan, ScanType
<1>2. \A a \in ScanType : [a EXCEPT !.on = TRUE] \in ScanType
  BY DEF ScanType
<1>3. \A a \in ScanType : [a EXCEPT !.scanned = TRUE] \in ScanType
  BY DEF ScanType
<1>4. \A a \in ScanType : [a EXCEPT !.deleted = TRUE] \in ScanType
  BY DEF ScanType
<1>5. \A a \in ScanType : [a EXCEPT !.at = 2, !.deleted = TRUE] \in ScanType
  <2>1. \A a \in ScanType, n \in Nat \ {0} :
          [a EXCEPT !.at = n, !.deleted = TRUE] \in ScanType
    BY DEF ScanType
  <2>2. 2 \in Nat \ {0}
    BY SMT
  <2> QED  BY <2>1, <2>2
<1>6. ASSUME NEW a \in ScanType, NEW n \in Nat \ {0},
             NEW p \in BOOLEAN, NEW b \in BOOLEAN
      PROVE  [a EXCEPT !.at = n, !.pausing = p, !.blocking = b] \in ScanType
  BY DEF ScanType
<1>7. FirstPass \in ScanType
  BY <1>1, <1>2 DEF FirstPass
<1> QED  BY <1>1, <1>3, <1>4, <1>5, <1>6, <1>7

\* Every step keeps the types of self, the ring and the locals of InternalYield.
LEMMA SchedStep ==
  ASSUME LockInv, [Next]_vars
  PROVE  SchedOK' /\ ring' # <<>>
<1> USE DEF LockInv, TypeOK
<1>0. /\ self \in Thread /\ ring \in Seq(Thread) /\ ring # <<>>
      /\ scan \in ScanType
      /\ Len(ring) \in Nat /\ Len(ring) > 0
  BY EmptySeq, LenProperties, SMT DEF SchedOK
<1>1. CASE UNCHANGED schedVars
  BY <1>0, <1>1 DEF schedVars, SchedOK
<1>2. ASSUME NEW t \in Thread, Fork(t)
      PROVE  SchedOK' /\ ring' # <<>>
  <2>1. ring' = <<t>> \o ring /\ UNCHANGED <<self, scan>>
    BY <1>2 DEF Fork
  <2>2. <<t>> \o ring \in Seq(Thread)
    BY <1>0, PushLemma
  <2>3. <<t>> \o ring # <<>>
    BY <1>0, <2>2, ConcatProperties, EmptySeq, SMT
  <2> QED  BY <1>0, <2>1, <2>2, <2>3 DEF SchedOK
<1>3. CASE CallInternalYield \/ Preempt \/ Rescan \/ Select
  <2>1. UNCHANGED <<self, ring>>
    BY <1>3 DEF CallInternalYield, Preempt, Rescan, Select, Die, schedVars
  <2>2. scan' \in {scan, FirstPass, [FirstPass EXCEPT !.scanned = TRUE]}
    BY <1>3 DEF CallInternalYield, Preempt, Rescan, Select, Die, schedVars
  <2>3. scan' \in ScanType
    BY <1>0, <2>2, ScanLemma
  <2> QED  BY <1>0, <2>1, <2>3 DEF SchedOK
<1>4. ASSUME NEW t \in Thread, VisitBlocked(t)
      PROVE  SchedOK' /\ ring' # <<>>
  <2>1. UNCHANGED <<self, ring>>
    BY <1>4 DEF VisitBlocked
  <2> DEFINE n == scan.at + 1
             p == scan.pausing \/ state[t] = "pausing"
             b == scan.blocking \/ (state[t] = "blocking" /\ ~scan.scanned)
  <2>2. scan' = [scan EXCEPT !.at = n, !.pausing = p, !.blocking = b]
    BY <1>4 DEF VisitBlocked
  <2>3. scan.at \in Nat \ {0} /\ scan.pausing \in BOOLEAN /\ scan.blocking \in BOOLEAN
    BY <1>0 DEF ScanType
  <2>4. n \in Nat \ {0}
    BY <2>3, SMT
  <2>5. p \in BOOLEAN /\ b \in BOOLEAN
    BY Zenon
  <2> HIDE DEF n, p, b
  <2>6. scan' \in ScanType
    BY <1>0, <2>2, <2>4, <2>5, ScanLemma
  <2> QED  BY <1>0, <2>1, <2>6 DEF SchedOK
<1>5. ASSUME NEW t \in Thread, VisitGone(t)
      PROVE  SchedOK' /\ ring' # <<>>
  <2>1. UNCHANGED self /\ scan.at \in 1 .. Len(ring)
    BY <1>5 DEF VisitGone, Visits
  <2>2. CASE scan.at = 1
    <3>1. /\ ring' = <<Last(ring)>> \o Front(Tail(ring))
          /\ scan' = [scan EXCEPT !.at = 2, !.deleted = TRUE]
      BY <1>5, <2>2 DEF VisitGone
    <3>2. Last(ring) \in Thread /\ Tail(ring) \in Seq(Thread)
      BY <1>0, EndsLemma, HeadTailProperties
    <3>3. Front(Tail(ring)) \in Seq(Thread)
      <4>1. \A k \in 1 .. Len(Tail(ring)) - 1 : Tail(ring)[k] \in Thread
        BY <3>2, LenProperties, ElementOfSeq, SMT
      <4> QED  BY <3>2, <4>1, LenProperties, SubSeqProperties, SMT DEF Front
    <3>4. /\ <<Last(ring)>> \o Front(Tail(ring)) \in Seq(Thread)
          /\ <<Last(ring)>> \o Front(Tail(ring)) # <<>>
      BY <3>2, <3>3, PushLemma, ConcatProperties, EmptySeq, SMT
    <3>5. scan' \in ScanType
      BY <1>0, <3>1, ScanLemma
    <3> QED  BY <1>0, <2>1, <3>1, <3>4, <3>5 DEF SchedOK
  <2>3. CASE scan.at # 1
    <3>1. /\ ring' = RemoveAt(ring, scan.at)
          /\ scan' = [scan EXCEPT !.deleted = TRUE]
      BY <1>5, <2>3 DEF VisitGone
    <3>2. RemoveAt(ring, scan.at) \in Seq(Thread)
      BY <1>0, <2>1, RemoveLemma
    <3>3. RemoveAt(ring, scan.at) # <<>>
      BY <1>0, <2>1, <2>3, RemoveNotEmpty
    <3>5. scan' \in ScanType
      BY <1>0, <3>1, ScanLemma
    <3> QED  BY <1>0, <2>1, <3>1, <3>2, <3>3, <3>5 DEF SchedOK
  <2> QED  BY <2>2, <2>3
<1>6. ASSUME NEW t \in Thread, Transfer(t)
      PROVE  SchedOK' /\ ring' # <<>>
  <2>1. self' = t /\ ring' = RotateTo(ring, CursorIndex) /\ scan' = NoScan
    BY <1>6 DEF Transfer
  <2>2. CursorIndex \in 1 .. Len(ring)
    BY <1>0, SMT DEF CursorIndex
  <2>3. ring' \in Seq(Thread) /\ ring' # <<>>
    BY <1>0, <2>1, <2>2, RotateLemma
  <2> QED  BY <2>1, <2>3, ScanLemma DEF SchedOK
<1> QED  BY SchedFrame, <1>1, <1>2, <1>3, <1>4, <1>5, <1>6

\* CanRun and a change of the running thread's state keep the types.
LEMMA WakeType ==
  ASSUME state \in [Thread -> States], NEW woken, NEW s \in States, Wake(woken, s)
  PROVE  state' \in [Thread -> States]
BY DEF Wake, States

\* Every step keeps the types of the fields of T.
LEMMA ThreadsStep ==
  ASSUME LockInv, [Next]_vars
  PROVE  ThreadsOK'
<1> USE DEF LockInv, TypeOK
<1>0. ThreadsOK /\ self \in Thread /\ state[self] \in States
  BY DEF SchedOK, ThreadsOK
<1>s. /\ "alive" \in States /\ "waiting" \in States /\ "locking" \in States
      /\ "pausing" \in States /\ "blocking" \in States /\ "dying" \in States
      /\ "dead" \in States
  BY DEF States
<1>1. ASSUME Client PROVE ThreadsOK'
  <2>1. ASSUME NEW m \in Mutex, Acquire(m) \/ Release(m)
        PROVE  ThreadsOK'
    BY <1>0, <1>s, <2>1, WakeType DEF Acquire, Release, ThreadsOK, threadVars
  <2>2. ASSUME NEW m \in Mutex, NEW c \in Cond, Wait(m, c) \/ AlertWait(m, c)
        PROVE  ThreadsOK'
    BY <1>0, <2>2 DEF Wait, AlertWait, WaitCall, SetAlertable, ThreadsOK
  <2>3. ASSUME NEW c \in Cond, Signal(c) \/ Broadcast(c)
        PROVE  ThreadsOK'
    BY <1>0, <1>s, <2>3, WakeType DEF Signal, Broadcast, ThreadsOK
  <2>4. ASSUME NEW t \in Thread, Join(t) \/ AlertJoin(t) \/ Alert(t)
        PROVE  ThreadsOK'
    BY <1>0, <2>4 DEF Join, AlertJoin, JoinCall, Alert, SetAlertable, ThreadsOK
  <2>5. CASE CallFork \/ Yield \/ SuspendOthers \/ ResumeOthers
    BY <1>0, <2>5 DEF CallFork, Yield, SuspendOthers, ResumeOthers, threadVars, ThreadsOK
  <2>6. CASE Exit
    BY <1>0, <1>s, <2>6, WakeType DEF Exit, ThreadsOK
  <2>7. CASE TestAlert
    BY <1>0, <2>7 DEF TestAlert, ThreadsOK
  <2>8. CASE Pause \/ AlertPause
    BY <1>0, <1>s, <2>8, WakeType DEF Pause, AlertPause, XPause, SetAlertable, ThreadsOK
  <2>9. CASE IOWait \/ IOAlertWait
    BY <1>0, <2>9 DEF IOWait, IOAlertWait, IOCall, SetAlertable, ThreadsOK
  <2> QED  BY <1>1, <2>1, <2>2, <2>3, <2>4, <2>5, <2>6, <2>7, <2>8, <2>9 DEF Client
<1>2. ASSUME Library PROVE ThreadsOK'
  <2>1. CASE LockMutex
    BY <1>0, <1>s, <2>1, WakeType DEF LockMutex, Die, SetAlertable, threadVars, ThreadsOK
  <2>2. CASE CallXWait
    BY <1>0, <2>2 DEF CallXWait, threadVars, ThreadsOK
  <2>3. CASE XWait
    BY <1>0, <1>s, <2>3, WakeType DEF XWait, ThreadsOK
  <2>4. CASE XJoin
    BY <1>0, <1>s, <2>4, WakeType DEF XJoin, ThreadsOK
  <2>5. CASE XIOWait
    BY <1>0, <1>s, <2>5, WakeType DEF XIOWait, SetAlertable, ThreadsOK
  <2>6. CASE CallInternalYield \/ JoinMain
    BY <1>0, <2>6 DEF CallInternalYield, JoinMain, Die, threadVars, ThreadsOK
  <2>7. ASSUME NEW t \in Thread, Fork(t) PROVE ThreadsOK'
    BY <1>0, <1>s, <2>7 DEF Fork, ThreadsOK
  <2> QED  BY <1>2, <2>1, <2>2, <2>3, <2>4, <2>5, <2>6, <2>7 DEF Library
<1>3. ASSUME Scheduler PROVE ThreadsOK'
  <2>1. ASSUME NEW t \in Thread, VisitAlertedWaiter(t) \/ VisitReady(t)
        PROVE  ThreadsOK'
    BY <1>0, <1>s, <2>1 DEF VisitAlertedWaiter, VisitReady, ThreadsOK
  <2>2. ASSUME NEW t \in Thread, Transfer(t)
        PROVE  ThreadsOK'
    BY <1>0, <2>2 DEF Transfer, ThreadsOK
  <2>3. CASE \E t \in Thread : VisitBlocked(t) \/ VisitGone(t)
    BY <1>0, <2>3 DEF VisitBlocked, VisitGone, threadVars, ThreadsOK
  <2>4. CASE Rescan \/ Select \/ Deadlock
    BY <1>0, <2>4 DEF Rescan, Select, Deadlock, Die, threadVars, ThreadsOK
  <2> QED  BY <1>3, <2>1, <2>2, <2>3, <2>4 DEF Scheduler
<1>4. CASE Preempt
  BY <1>0, <1>4 DEF Preempt, threadVars, ThreadsOK
<1>5. ASSUME NEW t \in Thread, Due(t) PROVE ThreadsOK'
  BY <1>0, <1>5 DEF Due, ThreadsOK
<1>6. CASE Halted \/ UNCHANGED vars
  BY <1>0, <1>6 DEF Halted, vars, threadVars, ThreadsOK
<1> QED  BY <1>1, <1>2, <1>3, <1>4, <1>5, <1>6 DEF Next

\* Every step keeps the types of the mutexes and of the waiting lists.
LEMMA LocksStep ==
  ASSUME LockInv, [Next]_vars
  PROVE  LocksOK'
<1> USE DEF LockInv, TypeOK
<1>0. LocksOK /\ self \in Thread /\ CallsOK
  BY DEF SchedOK
<1>e. <<>> \in Seq(Thread)
  OBVIOUS
<1>1. CASE UNCHANGED lockVars
  BY <1>0, <1>1 DEF lockVars, LocksOK
<1>r. ASSUME NEW m \in Mutex, XRelease(m)
      PROVE  /\ holder' \in [Mutex -> Thread \cup {Nil}]
             /\ mutexQ' \in [Mutex -> Seq(Thread)]
  <2>1. Front(mutexQ[m]) \in Seq(Thread)
    <3>1. mutexQ[m] \in Seq(Thread)
      BY <1>0 DEF LocksOK
    <3>2. CASE mutexQ[m] = <<>>
      <4>1. Front(mutexQ[m]) = <<>>
        BY <3>2, SubSeqEmpty, SMT DEF Front
      <4> QED  BY <4>1, <1>e
    <3>3. CASE mutexQ[m] # <<>>
      BY <3>1, <3>3, EndsLemma, RemoveLemma
    <3> QED  BY <3>2, <3>3
  <2> QED  BY <1>0, <1>r, <2>1 DEF XRelease, LocksOK
<1>p. \A s \in Seq(Thread) : <<self>> \o s \in Seq(Thread)
  BY <1>0, PushLemma
<1>2. ASSUME NEW m \in Mutex, Release(m) PROVE LocksOK'
  <2>1. XRelease(m) /\ UNCHANGED condQ
    BY <1>2 DEF Release
  <2> QED  BY <1>0, <1>r, <2>1 DEF LocksOK
<1>3. ASSUME NEW c \in Cond, Signal(c) \/ Broadcast(c) PROVE LocksOK'
  <2>1. c \in Waitable /\ condQ[c] \in Seq(Thread) /\ condQ[c] # <<>>
    BY <1>0, <1>3 DEF Signal, Broadcast, LocksOK, Waitable
  <2>2. Tail(condQ[c]) \in Seq(Thread)
    BY <2>1, HeadTailProperties
  <2> QED  BY <1>0, <1>3, <1>e, <2>1, <2>2 DEF Signal, Broadcast, LocksOK
<1>4. ASSUME NEW t \in Thread, VisitAlertedWaiter(t) PROVE LocksOK'
  <2>1. UNCHANGED <<holder, mutexQ>>
    BY <1>4 DEF VisitAlertedWaiter
  <2>2. PICK i \in 1 .. Len(condQ[cv[t]]) :
               condQ' = [condQ EXCEPT ![cv[t]] = RemoveAt(@, i)]
    BY <1>4 DEF VisitAlertedWaiter
  <2>3. condQ' \in [Waitable -> Seq(Thread)]
    <3>1. CASE cv[t] \in Waitable
      <4>1. RemoveAt(condQ[cv[t]], i) \in Seq(Thread)
        BY <1>0, <2>2, <3>1, RemoveLemma DEF LocksOK
      <4> QED  BY <1>0, <2>2, <4>1 DEF LocksOK
    <3>2. CASE cv[t] \notin Waitable
      BY <1>0, <2>2, <3>2 DEF LocksOK
    <3> QED  BY <3>1, <3>2
  <2> QED  BY <1>0, <2>1, <2>3 DEF LocksOK
<1>5. ASSUME LockMutex PROVE LocksOK'
  <2>1. mu[self] \in Mutex
    BY <1>0, <1>5 DEF LockMutex, At, OperandsOK
  <2>2. /\ holder' = holder \/ holder' = [holder EXCEPT ![mu[self]] = self]
        /\ \/ mutexQ' = mutexQ
           \/ mutexQ' = [mutexQ EXCEPT ![mu[self]] = <<self>> \o @]
        /\ condQ' = condQ
    BY <1>5 DEF LockMutex, Die, lockVars
  <2>3. <<self>> \o mutexQ[mu[self]] \in Seq(Thread)
    BY <1>0, <1>p, <2>1 DEF LocksOK
  <2> QED  BY <1>0, <2>2, <2>3 DEF LocksOK
<1>6. ASSUME XWait PROVE LocksOK'
  <2>1. mu[self] \in Mutex /\ cv[self] \in Waitable
    BY <1>0, <1>6 DEF XWait, At, OperandsOK, Waitable
  <2>2. XRelease(mu[self]) /\ condQ' = [condQ EXCEPT ![cv[self]] = <<self>> \o @]
    BY <1>6 DEF XWait
  <2> QED  BY <1>0, <1>p, <1>r, <2>1, <2>2 DEF LocksOK
<1>7. ASSUME Exit PROVE LocksOK'
  BY <1>0, <1>7, <1>e DEF Exit, LocksOK
<1>8. ASSUME XJoin PROVE LocksOK'
  <2>1. UNCHANGED <<holder, mutexQ>>
    BY <1>8 DEF XJoin
  <2>2. \/ UNCHANGED condQ
        \/ condQ' = [condQ EXCEPT ![cv[self]] = <<self>> \o @]
    BY <1>8 DEF XJoin
  <2>3. condQ' \in [Waitable -> Seq(Thread)]
    BY <1>0, <1>p, <2>2 DEF LocksOK
  <2> QED  BY <1>0, <2>1, <2>3 DEF LocksOK
<1> QED  BY LockFrame, <1>1, <1>2, <1>3, <1>4, <1>5, <1>6, <1>7, <1>8

\* Every step keeps the types of where each thread is in its call.
LEMMA CallsStep ==
  ASSUME LockInv, [Next]_vars
  PROVE  CallsOK'
<1> USE DEF LockInv, TypeOK
<1>0. CallsOK /\ self \in Thread
  BY DEF SchedOK
<1>m. /\ \A x \in {"run", "fork", "lock", "alertWait", "enter", "join", "io"} : x \in Labels
      /\ \A x \in {"yield", "forkYield", "lockYield", "waitYield", "joinYield",
                   "pauseYield", "ioYield", "dieYield"} : x \in Labels
  BY DEF Labels, YieldPoints
<1>u. ASSUME UNCHANGED callVars PROVE CallsOK'
  BY <1>0, <1>u DEF callVars, CallsOK
<1>e. ASSUME NEW l \in Labels, NEW m \in Mutex \cup {Nil},
             NEW c \in Waitable \cup {Nil}, NEW a \in BOOLEAN,
             Enter(l, m, c, a)
      PROVE  CallsOK'
  BY <1>0, <1>e DEF Enter, CallsOK
<1>g. ASSUME NEW l \in Labels, Goto(l) PROVE CallsOK'
  BY <1>0, <1>g DEF Goto, CallsOK
<1>r. ASSUME NEW t \in Thread, Return(t), preempted' \in [Thread -> BOOLEAN]
      PROVE  CallsOK'
  BY <1>0, <1>r, <1>m DEF Return, CallsOK
<1>p. preempted \in [Thread -> BOOLEAN]
  BY <1>0 DEF CallsOK
<1>1. ASSUME Client PROVE CallsOK'
  <2>1. ASSUME NEW m \in Mutex, Acquire(m)
        PROVE  CallsOK'
    BY <1>m, <1>e, <2>1 DEF Acquire
  <2>2. ASSUME NEW m \in Mutex, Release(m)
        PROVE  CallsOK'
    <3>1. Goto("run") \/ Goto("yield")
      BY <2>2 DEF Release
    <3> QED  BY <3>1, <1>g, <1>m
  <2>3. ASSUME NEW m \in Mutex, NEW c \in Cond, Wait(m, c) \/ AlertWait(m, c)
        PROVE  CallsOK'
    BY <1>m, <1>e, <2>3 DEF Wait, AlertWait, WaitCall, Waitable
  <2>4. ASSUME NEW c \in Cond, Signal(c) \/ Broadcast(c)
        PROVE  CallsOK'
    BY <1>u, <2>4 DEF Signal, Broadcast
  <2>5. ASSUME NEW t \in Thread, Join(t) \/ AlertJoin(t)
        PROVE  CallsOK'
    BY <1>m, <1>e, <2>5 DEF Join, AlertJoin, JoinCall, Waitable
  <2>6. ASSUME NEW t \in Thread, Alert(t)
        PROVE  CallsOK'
    BY <1>u, <2>6 DEF Alert
  <2>7. CASE CallFork
    <3>1. Goto("forkYield") \/ Goto("fork")
      BY <2>7 DEF CallFork
    <3> QED  BY <3>1, <1>g, <1>m
  <2>8. CASE Exit \/ Yield
    BY <1>m, <1>g, <2>8 DEF Exit, Yield
  <2>9. CASE TestAlert \/ SuspendOthers \/ ResumeOthers
    BY <1>u, <2>9 DEF TestAlert, SuspendOthers, ResumeOthers
  <2>10. CASE Pause \/ AlertPause
    BY <1>m, <1>e, <2>10 DEF Pause, AlertPause, XPause
  <2>11. CASE IOWait \/ IOAlertWait
    BY <1>m, <1>e, <2>11 DEF IOWait, IOAlertWait, IOCall
  <2> QED  BY <1>1, <2>1, <2>2, <2>3, <2>4, <2>5, <2>6, <2>7, <2>8, <2>9,
              <2>10, <2>11 DEF Client
<1>2. ASSUME Library PROVE CallsOK'
  <2>1. CASE LockMutex
    <3>1. \/ Return(self) /\ preempted' = preempted
          \/ Goto("lockYield")
          \/ UNCHANGED callVars
      BY <2>1 DEF LockMutex, Die
    <3> QED  BY <3>1, <1>0, <1>g, <1>m, <1>p, <1>r, <1>u
  <2>2. CASE CallXWait \/ XWait
    BY <1>m, <1>g, <2>2 DEF CallXWait, XWait
  <2>3. CASE XJoin
    <3>1. (Return(self) /\ preempted' = preempted) \/ Goto("joinYield")
      BY <2>3 DEF XJoin
    <3> QED  BY <3>1, <1>0, <1>g, <1>m, <1>p, <1>r
  <2>4. CASE XIOWait
    <3>1. (Return(self) /\ preempted' = preempted) \/ Goto("ioYield")
      BY <2>4 DEF XIOWait
    <3> QED  BY <3>1, <1>0, <1>g, <1>m, <1>p, <1>r
  <2>5. CASE CallInternalYield \/ JoinMain
    BY <1>u, <2>5 DEF CallInternalYield, JoinMain, Die
  <2>6. ASSUME NEW t \in Thread, Fork(t) PROVE CallsOK'
    BY <1>m, <1>g, <2>6 DEF Fork
  <2> QED  BY <1>2, <2>1, <2>2, <2>3, <2>4, <2>5, <2>6 DEF Library
<1>3. ASSUME Scheduler PROVE CallsOK'
  <2>1. ASSUME NEW t \in Thread, VisitAlertedWaiter(t)
        PROVE  CallsOK'
    BY <1>0, <2>1 DEF VisitAlertedWaiter, CallsOK
  <2>2. ASSUME NEW t \in Thread, VisitReady(t) \/ VisitBlocked(t) \/ VisitGone(t)
        PROVE  CallsOK'
    BY <1>u, <2>2 DEF VisitReady, VisitBlocked, VisitGone
  <2>3. ASSUME NEW t \in Thread, Transfer(t)
        PROVE  CallsOK'
    <3>1. preempted' \in [Thread -> BOOLEAN]
      BY <1>p, <2>3 DEF Transfer
    <3>2. \/ ResumeNormally(t) \/ RaiseAlerted(t)
          \/ UNCHANGED <<pc, mu, cv, raising, alertCall>>
      BY <2>3 DEF Transfer
    <3>3. CASE UNCHANGED <<pc, mu, cv, raising, alertCall>>
      BY <1>0, <3>1, <3>3 DEF CallsOK
    <3>4. CASE Return(t)
      BY <1>r, <3>1, <3>4
    <3>5. After(pc[t]) \in Labels
      BY <1>0, <1>m, <2>3 DEF After, CallsOK
    <3>6. CASE ResumeNormally(t) \/ RaiseAlerted(t)
      <4>1. \/ UNCHANGED <<pc, mu, cv, raising, alertCall>>
            \/ Return(t)
            \/ /\ pc' = [pc EXCEPT ![t] = After(@)]
               /\ UNCHANGED <<mu, cv, raising, alertCall>>
            \/ /\ pc' = [pc EXCEPT ![t] = "lock"]
               /\ raising' = [raising EXCEPT ![t] = TRUE]
               /\ UNCHANGED <<mu, cv, alertCall>>
        BY <3>6 DEF ResumeNormally, RaiseAlerted
      <4> QED  BY <1>0, <1>m, <3>1, <3>3, <3>4, <3>5, <4>1 DEF CallsOK
    <3> QED  BY <3>2, <3>3, <3>6
  <2>4. CASE Rescan \/ Select \/ Deadlock
    BY <1>u, <2>4 DEF Rescan, Select, Deadlock, Die
  <2> QED  BY <1>3, <2>1, <2>2, <2>3, <2>4 DEF Scheduler
<1>4. CASE Preempt
  BY <1>0, <1>4 DEF Preempt, CallsOK
<1>5. ASSUME NEW t \in Thread, Due(t) PROVE CallsOK'
  BY <1>u, <1>5 DEF Due
<1>6. CASE Halted \/ UNCHANGED vars
  BY <1>u, <1>6 DEF Halted, vars
<1> QED  BY <1>1, <1>2, <1>3, <1>4, <1>5, <1>6 DEF Next

\* The other steps leave LL, the fork count and inCritical alone.
LEMMA GlobalsFrame ==
  ASSUME [Next]_vars
  PROVE  \/ UNCHANGED <<ghostVars, globalVars>>
         \/ \E m \in Mutex : Release(m)
         \/ \E t \in Thread : Transfer(t)
         \/ LockMutex \/ XWait \/ XJoin \/ JoinMain \/ CallFork
         \/ SuspendOthers \/ ResumeOthers \/ CallInternalYield \/ Deadlock
<1>1. CASE Client
  BY <1>1 DEF Client, Acquire, Wait, AlertWait, WaitCall, Signal, Broadcast,
     Join, AlertJoin, JoinCall, Alert, Exit, TestAlert, Yield, Pause,
     AlertPause, XPause, IOWait, IOAlertWait, IOCall
<1>2. CASE Library
  BY <1>2 DEF Library, CallXWait, XIOWait, Fork
<1>3. CASE Scheduler
  BY <1>3 DEF Scheduler, VisitAlertedWaiter, VisitReady, VisitBlocked,
     VisitGone, Rescan, Select, globalVars
<1>4. CASE Preempt
  BY <1>4 DEF Preempt, globalVars
<1>5. ASSUME NEW t \in Thread, Due(t) PROVE UNCHANGED <<ghostVars, globalVars>>
  BY <1>5 DEF Due, globalVars
<1>6. CASE Halted \/ UNCHANGED vars
  BY <1>6 DEF Halted, vars
<1> QED  BY <1>1, <1>2, <1>3, <1>4, <1>5, <1>6 DEF Next

\* Every step keeps the types of LL, the fork count, inCritical and the verdict.
LEMMA GlobalsStep ==
  ASSUME LockInv, [Next]_vars
  PROVE  GlobalsOK'
<1> USE DEF LockInv, TypeOK
<1>0. GlobalsOK /\ self \in Thread
  BY DEF SchedOK
<1>1. CASE UNCHANGED <<ghostVars, globalVars>>
  BY <1>0, <1>1 DEF ghostVars, globalVars, GlobalsOK
<1>2. ASSUME (\E m \in Mutex : Release(m)) \/ XWait PROVE GlobalsOK'
  BY <1>0, <1>2 DEF Release, XWait, XRelease, globalVars, GlobalsOK
<1>3. ASSUME NEW t \in Thread, Transfer(t) PROVE GlobalsOK'
  BY <1>0, <1>3 DEF Transfer, ghostVars, GlobalsOK, Errors
<1>4. ASSUME LockMutex PROVE GlobalsOK'
  <2>1. mu[self] \in Mutex
    BY <1>0, <1>4 DEF LockMutex, At, OperandsOK
  <2>2. /\ held' = held \/ held' = [held EXCEPT ![self] = @ \cup {mu[self]}]
        /\ UNCHANGED <<inCritical, nForks>>
        /\ fatal' = fatal \/ fatal' = "reacquire"
    BY <1>4 DEF LockMutex, Die, ghostVars, globalVars
  <2> QED  BY <1>0, <2>1, <2>2 DEF GlobalsOK, Errors
<1>5. ASSUME XJoin \/ JoinMain PROVE GlobalsOK'
  BY <1>0, <1>5 DEF XJoin, JoinMain, Die, ghostVars, globalVars, GlobalsOK, Errors
<1>6. ASSUME CallFork PROVE GlobalsOK'
  <2>1. /\ nForks' = (nForks + 1) % ForkYieldRatio
        /\ UNCHANGED <<held, inCritical, fatal>>
    BY <1>6 DEF CallFork, ghostVars
  <2>2. nForks' \in 0 .. ForkYieldRatio - 1
    BY <1>0, <2>1, RatioAssumption, SMT DEF GlobalsOK
  <2> QED  BY <1>0, <2>1, <2>2 DEF GlobalsOK
<1>7. ASSUME SuspendOthers \/ ResumeOthers PROVE GlobalsOK'
  <2>1. /\ \/ inCritical < MaxSuspend /\ inCritical' = inCritical + 1
           \/ inCritical > 0 /\ inCritical' = inCritical - 1
        /\ UNCHANGED <<held, nForks, fatal>>
    BY <1>7 DEF SuspendOthers, ResumeOthers, ghostVars
  <2>2. inCritical' \in 0 .. MaxSuspend
    BY <1>0, <2>1, SuspendAssumption, SMT DEF GlobalsOK
  <2> QED  BY <1>0, <2>1, <2>2 DEF GlobalsOK
<1>8. ASSUME CallInternalYield \/ Deadlock PROVE GlobalsOK'
  BY <1>0, <1>8 DEF CallInternalYield, Deadlock, Die, ghostVars, globalVars,
     GlobalsOK, Errors
<1> QED  BY GlobalsFrame, <1>1, <1>2, <1>3, <1>4, <1>5, <1>6, <1>7, <1>8

\* Every step keeps the types.
LEMMA TypeStep ==
  ASSUME LockInv, [Next]_vars
  PROVE  TypeOK' /\ ring' # <<>>
BY SchedStep, ThreadsStep, LocksStep, CallsStep, GlobalsStep DEF TypeOK

-----------------------------------------------------------------------------
(* Operands and states.                                                    *)

\* A thread that executes outside InternalYield is alive.
LEMMA RunnerAlive ==
  ASSUME LockInv, NEW l \in {"run", "fork", "lock", "alertWait", "enter", "join", "io"},
         At(l)
  PROVE  state[self] = "alive"
<1>1. self \in Thread /\ state[self] \in States
  BY DEF LockInv, TypeOK, SchedOK, ThreadsOK
<1>2. pc[self] = l
  BY DEF At
<1> QED  BY <1>1, <1>2 DEF LockInv, StatesOK, States

\* Every step keeps the operands of each call what its label needs.
LEMMA OperandsStep ==
  ASSUME LockInv, [Next]_vars
  PROVE  OperandsOK'
<1> USE DEF LockInv, TypeOK
<1>0. OperandsOK /\ CallsOK /\ self \in Thread /\ held \in [Thread -> SUBSET Mutex]
  BY DEF SchedOK, GlobalsOK
<1>u. ASSUME UNCHANGED <<pc, mu, cv, held>> PROVE OperandsOK'
  BY <1>0, <1>u DEF OperandsOK
<1>g. ASSUME NEW l \in {"run", "fork", "yield", "forkYield", "dieYield", "ioYield"},
             Goto(l), UNCHANGED held
      PROVE  OperandsOK'
  BY <1>0, <1>g DEF Goto, OperandsOK, CallsOK
<1>e. ASSUME NEW l \in {"lock", "enter", "alertWait", "join", "pauseYield", "io"},
             NEW m, NEW c, NEW a, Enter(l, m, c, a), UNCHANGED held,
             l \in {"lock", "enter", "alertWait"} => m \in Mutex,
             l \in {"enter", "alertWait"} => m \in held[self] /\ c \in Cond,
             l = "join" => c \in Thread
      PROVE  OperandsOK'
  <2>1. /\ \A t \in Thread \ {self} :
             pc'[t] = pc[t] /\ mu'[t] = mu[t] /\ cv'[t] = cv[t]
        /\ pc'[self] = l /\ mu'[self] = m /\ cv'[self] = c
    BY <1>0, <1>e DEF Enter, CallsOK
  <2> QED  BY <1>0, <1>e, <2>1 DEF OperandsOK
<1>r. ASSUME NEW t \in Thread, Return(t), UNCHANGED held PROVE OperandsOK'
  BY <1>0, <1>r DEF Return, OperandsOK, CallsOK
<1>1. ASSUME Client PROVE OperandsOK'
  <2>1. ASSUME NEW m \in Mutex, Acquire(m)
        PROVE  OperandsOK'
    BY <1>e, <2>1 DEF Acquire, ghostVars
  <2>2. ASSUME NEW m \in Mutex, Release(m)
        PROVE  OperandsOK'
    <3>1. (Goto("run") \/ Goto("yield")) /\ At("run")
      BY <2>2 DEF Release, Calls
    <3>2. \A t \in Thread \ {self} : held'[t] = held[t]
      BY <1>0, <2>2 DEF Release, XRelease
    <3> QED  BY <1>0, <3>1, <3>2 DEF Goto, OperandsOK, CallsOK
  <2>3. ASSUME NEW m \in Mutex, NEW c \in Cond, Wait(m, c) \/ AlertWait(m, c)
        PROVE  OperandsOK'
    BY <1>e, <2>3 DEF Wait, AlertWait, WaitCall, ghostVars
  <2>4. ASSUME NEW c \in Cond, Signal(c) \/ Broadcast(c)
        PROVE  OperandsOK'
    BY <1>u, <2>4 DEF Signal, Broadcast, callVars, ghostVars
  <2>5. ASSUME NEW t \in Thread, Join(t) \/ AlertJoin(t)
        PROVE  OperandsOK'
    BY <1>e, <2>5 DEF Join, AlertJoin, JoinCall, ghostVars
  <2>6. ASSUME NEW t \in Thread, Alert(t)
        PROVE  OperandsOK'
    BY <1>u, <2>6 DEF Alert, callVars, ghostVars
  <2>7. CASE CallFork
    <3>1. (Goto("forkYield") \/ Goto("fork")) /\ UNCHANGED held
      BY <2>7 DEF CallFork, ghostVars
    <3> QED  BY <3>1, <1>g
  <2>8. CASE Exit \/ Yield
    BY <1>g, <2>8 DEF Exit, Yield, ghostVars
  <2>9. CASE TestAlert \/ SuspendOthers \/ ResumeOthers
    BY <1>u, <2>9 DEF TestAlert, SuspendOthers, ResumeOthers, callVars, ghostVars
  <2>10. CASE Pause \/ AlertPause \/ IOWait \/ IOAlertWait
    BY <1>e, <2>10 DEF Pause, AlertPause, XPause, IOWait, IOAlertWait, IOCall,
       ghostVars
  <2> QED  BY <1>1, <2>1, <2>2, <2>3, <2>4, <2>5, <2>6, <2>7, <2>8, <2>9,
              <2>10 DEF Client
<1>2. ASSUME Library PROVE OperandsOK'
  <2>1. CASE LockMutex
    <3>1. CASE Return(self) /\ held' = [held EXCEPT ![self] = @ \cup {mu[self]}]
      BY <1>0, <3>1 DEF Return, OperandsOK, CallsOK
    <3>2. CASE Goto("lockYield") /\ UNCHANGED held
      BY <1>0, <2>1, <3>2 DEF LockMutex, At, Goto, OperandsOK, CallsOK
    <3>3. CASE UNCHANGED <<pc, mu, cv, held>>
      BY <1>u, <3>3
    <3> QED  BY <2>1, <3>1, <3>2, <3>3 DEF LockMutex, Die, ghostVars, callVars
  <2>2. CASE CallXWait
    BY <1>0, <2>2 DEF CallXWait, At, Goto, ghostVars, OperandsOK, CallsOK
  <2>3. CASE XWait
    <3>1. \A t \in Thread \ {self} : held'[t] = held[t]
      BY <1>0, <2>3 DEF XWait, XRelease
    <3>2. Goto("waitYield") /\ pc[self] = "enter"
      BY <2>3 DEF XWait, At
    <3> QED  BY <1>0, <3>1, <3>2 DEF Goto, OperandsOK, CallsOK
  <2>4. CASE XJoin
    <3>1. pc[self] = "join" /\ UNCHANGED held
      BY <2>4 DEF XJoin, At, ghostVars
    <3>2. CASE Goto("joinYield")
      BY <1>0, <3>1, <3>2 DEF Goto, OperandsOK, CallsOK
    <3> QED  BY <1>0, <1>r, <2>4, <3>1, <3>2 DEF XJoin
  <2>5. CASE XIOWait
    BY <1>0, <1>g, <1>r, <2>5 DEF XIOWait, ghostVars
  <2>6. CASE CallInternalYield \/ JoinMain
    BY <1>u, <2>6 DEF CallInternalYield, JoinMain, Die, callVars, ghostVars
  <2>7. ASSUME NEW t \in Thread, Fork(t) PROVE OperandsOK'
    BY <1>g, <2>7 DEF Fork, ghostVars
  <2> QED  BY <1>2, <2>1, <2>2, <2>3, <2>4, <2>5, <2>6, <2>7 DEF Library
<1>3. ASSUME Scheduler PROVE OperandsOK'
  <2>1. ASSUME NEW t \in Thread, Transfer(t)
        PROVE  OperandsOK'
    <3>0. UNCHANGED held
      BY <2>1 DEF Transfer, ghostVars
    <3>1. \/ UNCHANGED <<pc, mu, cv>>
          \/ Return(t)
          \/ pc' = [pc EXCEPT ![t] = After(@)] /\ UNCHANGED <<mu, cv>>
          \/ /\ pc[t] \in {"enter", "waitYield"}
             /\ pc' = [pc EXCEPT ![t] = "lock"] /\ UNCHANGED <<mu, cv>>
      BY <2>1 DEF Transfer, ResumeNormally, RaiseAlerted
    <3>2. CASE pc' = [pc EXCEPT ![t] = After(@)] /\ UNCHANGED <<mu, cv>>
      BY <1>0, <3>0, <3>2 DEF After, OperandsOK, CallsOK
    <3>3. CASE /\ pc[t] \in {"enter", "waitYield"}
               /\ pc' = [pc EXCEPT ![t] = "lock"] /\ UNCHANGED <<mu, cv>>
      BY <1>0, <3>0, <3>3 DEF OperandsOK, CallsOK
    <3> QED  BY <1>u, <1>r, <3>0, <3>1, <3>2, <3>3
  <2>2. ASSUME NEW t \in Thread,
               VisitAlertedWaiter(t) \/ VisitReady(t) \/ VisitBlocked(t) \/ VisitGone(t)
        PROVE  OperandsOK'
    BY <1>u, <2>2 DEF VisitAlertedWaiter, VisitReady, VisitBlocked, VisitGone,
       callVars, ghostVars
  <2>3. CASE Rescan \/ Select \/ Deadlock
    BY <1>u, <2>3 DEF Rescan, Select, Deadlock, Die, callVars, ghostVars
  <2> QED  BY <1>3, <2>1, <2>2, <2>3 DEF Scheduler
<1>4. CASE Preempt
  BY <1>u, <1>4 DEF Preempt, ghostVars
<1>5. ASSUME NEW t \in Thread, Due(t) PROVE OperandsOK'
  BY <1>u, <1>5 DEF Due, callVars, ghostVars
<1>6. CASE Halted \/ UNCHANGED vars
  BY <1>u, <1>6 DEF Halted, vars, callVars, ghostVars
<1> QED  BY <1>1, <1>2, <1>3, <1>4, <1>5, <1>6 DEF Next

\* Every step keeps T.state in agreement with where the thread is.
LEMMA StatesStep ==
  ASSUME LockInv, [Next]_vars
  PROVE  StatesOK'
<1> USE DEF LockInv, TypeOK
<1>0. StatesOK /\ CallsOK /\ self \in Thread /\ state \in [Thread -> States]
  BY DEF SchedOK, ThreadsOK
<1>u. ASSUME UNCHANGED <<self, state, pc>> PROVE StatesOK'
  BY <1>0, <1>u DEF StatesOK
\* The running thread moves on without a change of state ...
<1>a. ASSUME state[self] = "alive", UNCHANGED <<self, state>>,
             \A t \in Thread \ {self} : pc'[t] = pc[t]
      PROVE  StatesOK'
  BY <1>0, <1>a DEF StatesOK
\* ... or takes a state that fits its label, and wakes others.
<1>w. ASSUME NEW woken, NEW s, NEW l, Wake(woken, s), UNCHANGED self,
             s # "none", pc' = [pc EXCEPT ![self] = l],
             s = "waiting" => l \in {"waitYield", "joinYield"},
             s = "locking" => l = "lockYield",
             s \in {"pausing", "blocking", "dying", "dead"} =>
               l \in {"pauseYield", "ioYield", "dieYield"}
      PROVE  StatesOK'
  <2>1. \A t \in Thread :
          \/ state'[t] = "alive"
          \/ t = self /\ state'[t] = s /\ pc'[t] = l
          \/ t # self /\ state'[t] = state[t] /\ pc'[t] = pc[t]
    BY <1>0, <1>w DEF Wake, CallsOK
  <2>2. state'[self] # "none"
    BY <1>0, <1>w, <2>1
  <2> QED  BY <1>0, <1>w, <2>1, <2>2 DEF StatesOK
<1>1. ASSUME Client PROVE StatesOK'
  <2>1. ASSUME NEW m \in Mutex, Acquire(m)
        PROVE  StatesOK'
    <3>1. state[self] = "alive"
      BY <2>1, RunnerAlive DEF Acquire, Calls
    <3> QED  BY <1>0, <1>a, <2>1, <3>1 DEF Acquire, Enter, CallsOK, schedVars, threadVars
  <2>2. ASSUME NEW m \in Mutex, Release(m)
        PROVE  StatesOK'
    <3>1. state[self] = "alive"
      BY <2>2, RunnerAlive DEF Release, Calls
    <3>2. PICK l : pc' = [pc EXCEPT ![self] = l]
      BY <2>2 DEF Release, Goto
    <3> QED  BY <1>w, <2>2, <3>1, <3>2 DEF Release, schedVars
  <2>3. ASSUME NEW m \in Mutex, NEW c \in Cond, Wait(m, c) \/ AlertWait(m, c)
        PROVE  StatesOK'
    <3>1. state[self] = "alive"
      BY <2>3, RunnerAlive DEF Wait, AlertWait, WaitCall, Calls
    <3> QED  BY <1>0, <1>a, <2>3, <3>1 DEF Wait, AlertWait, WaitCall, Enter, CallsOK, schedVars
  <2>4. ASSUME NEW c \in Cond, Signal(c) \/ Broadcast(c)
        PROVE  StatesOK'
    <3>1. state[self] = "alive"
      BY <2>4, RunnerAlive DEF Signal, Broadcast, Calls
    <3>2. pc' = [pc EXCEPT ![self] = pc[self]]
      BY <1>0, <2>4 DEF Signal, Broadcast, callVars, CallsOK
    <3> QED  BY <1>w, <2>4, <3>1, <3>2 DEF Signal, Broadcast, schedVars
  <2>5. ASSUME NEW t \in Thread, Join(t) \/ AlertJoin(t)
        PROVE  StatesOK'
    <3>1. state[self] = "alive"
      BY <2>5, RunnerAlive DEF Join, AlertJoin, JoinCall, Calls
    <3> QED  BY <1>0, <1>a, <2>5, <3>1 DEF Join, AlertJoin, JoinCall, Enter, CallsOK, schedVars
  <2>6. ASSUME NEW t \in Thread, Alert(t)
        PROVE  StatesOK'
    BY <1>u, <2>6 DEF Alert, callVars, schedVars
  <2>7. CASE CallFork
    <3>1. state[self] = "alive"
      BY <2>7, RunnerAlive DEF CallFork, Calls
    <3> QED  BY <1>0, <1>a, <2>7, <3>1 DEF CallFork, Goto, CallsOK, schedVars, threadVars
  <2>8. CASE Exit
    BY <1>w, <2>8 DEF Exit, Goto, schedVars
  <2>9. CASE Yield
    <3>1. state[self] = "alive"
      BY <2>9, RunnerAlive DEF Yield, Calls
    <3> QED  BY <1>0, <1>a, <2>9, <3>1 DEF Yield, Goto, CallsOK, schedVars, threadVars
  <2>10. CASE TestAlert \/ SuspendOthers \/ ResumeOthers
    BY <1>u, <2>10 DEF TestAlert, SuspendOthers, ResumeOthers, callVars, schedVars, threadVars
  <2>11. CASE Pause \/ AlertPause
    BY <1>w, <2>11 DEF Pause, AlertPause, XPause, Enter, schedVars
  <2>12. CASE IOWait \/ IOAlertWait
    <3>1. state[self] = "alive"
      BY <2>12, RunnerAlive DEF IOWait, IOAlertWait, IOCall, Calls
    <3> QED  BY <1>0, <1>a, <2>12, <3>1 DEF IOWait, IOAlertWait, IOCall, Enter, CallsOK, schedVars
  <2> QED  BY <1>1, <2>1, <2>2, <2>3, <2>4, <2>5, <2>6, <2>7, <2>8, <2>9,
              <2>10, <2>11, <2>12 DEF Client
<1>2. ASSUME Library PROVE StatesOK'
  <2>1. CASE LockMutex
    <3>1. state[self] = "alive"
      BY <2>1, RunnerAlive DEF LockMutex
    <3>2. CASE Return(self) /\ UNCHANGED <<self, state>>
      BY <1>0, <1>a, <3>1, <3>2 DEF Return, CallsOK
    <3>3. CASE Wake({}, "locking") /\ Goto("lockYield") /\ UNCHANGED self
      BY <1>w, <3>3 DEF Goto
    <3>4. CASE UNCHANGED <<self, state, pc>>
      BY <1>u, <3>4
    <3> QED  BY <2>1, <3>2, <3>3, <3>4 DEF LockMutex, Die, schedVars, threadVars, callVars
  <2>2. CASE CallXWait
    <3>1. state[self] = "alive"
      BY <2>2, RunnerAlive DEF CallXWait
    <3> QED  BY <1>0, <1>a, <2>2, <3>1 DEF CallXWait, Goto, CallsOK, schedVars, threadVars
  <2>3. CASE XWait
    BY <1>w, <2>3 DEF XWait, Goto, schedVars
  <2>4. CASE XJoin
    <3>1. state[self] = "alive" /\ pc[self] = "join" /\ UNCHANGED self
      BY <2>4, RunnerAlive DEF XJoin, At, schedVars
    <3>2. CASE Wake({}, "waiting") /\ Goto("joinYield")
      BY <1>w, <3>1, <3>2 DEF Goto
    <3>3. CASE Gone(cv[self]) /\ state' = [state EXCEPT ![cv[self]] = "dead"] /\ Return(self)
      <4>1. \A t \in Thread : t # self => pc'[t] = pc[t]
        BY <1>0, <3>3 DEF Return, CallsOK
      <4>2. cv[self] \in Thread /\ cv[self] # self
        BY <1>0, <3>1, <3>3 DEF Gone, OperandsOK
      <4> QED  BY <1>0, <3>1, <3>3, <4>1, <4>2 DEF StatesOK, Gone
    <3> QED  BY <2>4, <3>2, <3>3 DEF XJoin
  <2>5. CASE XIOWait
    <3>1. state[self] = "alive" /\ UNCHANGED self
      BY <2>5, RunnerAlive DEF XIOWait, schedVars
    <3>2. CASE Wake({}, "blocking") /\ Goto("ioYield")
      BY <1>w, <3>1, <3>2 DEF Goto
    <3>3. CASE Return(self) /\ UNCHANGED state
      BY <1>0, <1>a, <3>1, <3>3 DEF Return, CallsOK
    <3> QED  BY <2>5, <3>2, <3>3 DEF XIOWait
  <2>6. CASE CallInternalYield \/ JoinMain
    BY <1>u, <2>6 DEF CallInternalYield, JoinMain, Die, callVars, schedVars, threadVars
  <2>7. ASSUME NEW t \in Thread, Fork(t) PROVE StatesOK'
    <3>1. state[self] = "alive" /\ UNCHANGED self
      BY <2>7, RunnerAlive DEF Fork
    <3>2. \A u \in Thread : u # self => pc'[u] = pc[u]
      BY <1>0, <2>7 DEF Fork, Goto, CallsOK
    <3> QED  BY <1>0, <2>7, <3>1, <3>2 DEF Fork, StatesOK
  <2> QED  BY <1>2, <2>1, <2>2, <2>3, <2>4, <2>5, <2>6, <2>7 DEF Library
<1>3. ASSUME Scheduler PROVE StatesOK'
  <2>1. ASSUME NEW t \in Thread, VisitAlertedWaiter(t) \/ VisitReady(t)
        PROVE  StatesOK'
    <3>1. UNCHANGED <<self, pc>> /\ state' = [state EXCEPT ![t] = "alive"]
      BY <2>1 DEF VisitAlertedWaiter, VisitReady, schedVars, callVars
    <3> QED  BY <1>0, <3>1 DEF StatesOK
  <2>2. ASSUME NEW t \in Thread, VisitBlocked(t) \/ VisitGone(t)
        PROVE  StatesOK'
    BY <1>u, <2>2 DEF VisitBlocked, VisitGone, callVars, threadVars
  <2>3. ASSUME NEW t \in Thread, Transfer(t)
        PROVE  StatesOK'
    <3>1. self' = t /\ state' = state /\ state[t] = "alive"
      BY <2>3 DEF Transfer, CanTransfer
    <3>2. \A u \in Thread : u # t => pc'[u] = pc[u]
      BY <1>0, <2>3 DEF Transfer, ResumeNormally, RaiseAlerted, Return, CallsOK
    <3> QED  BY <1>0, <3>1, <3>2 DEF StatesOK
  <2>4. CASE Rescan \/ Select \/ Deadlock
    BY <1>u, <2>4 DEF Rescan, Select, Deadlock, Die, callVars, schedVars, threadVars
  <2> QED  BY <1>3, <2>1, <2>2, <2>3, <2>4 DEF Scheduler
<1>4. CASE Preempt
  BY <1>u, <1>4 DEF Preempt, threadVars
<1>5. ASSUME NEW t \in Thread, Due(t) PROVE StatesOK'
  BY <1>u, <1>5 DEF Due, callVars, schedVars
<1>6. CASE Halted \/ UNCHANGED vars
  BY <1>u, <1>6 DEF Halted, vars, callVars, schedVars, threadVars
<1> QED  BY <1>1, <1>2, <1>3, <1>4, <1>5, <1>6 DEF Next

-----------------------------------------------------------------------------
(* Mutual exclusion.                                                       *)

\* Every step keeps LL and Mutex.holder in agreement.
LEMMA HolderStep ==
  ASSUME LockInv, [Next]_vars
  PROVE  LockedByHolder'
<1> USE DEF LockInv, TypeOK
<1>0. /\ LockedByHolder /\ self \in Thread
      /\ held \in [Thread -> SUBSET Mutex] /\ holder \in [Mutex -> Thread \cup {Nil}]
  BY DEF SchedOK, GlobalsOK, LocksOK
<1>1. CASE UNCHANGED <<held, holder>>
  BY <1>0, <1>1 DEF LockedByHolder
<1>2. ASSUME NEW m \in Mutex, m \in held[self], XRelease(m)
      PROVE  LockedByHolder'
  <2>1. holder[m] = self
    BY <1>0, <1>2 DEF LockedByHolder
  <2>2. Nil \notin Thread
    BY NilAssumption
  <2> QED  BY <1>0, <1>2, <2>1, <2>2 DEF XRelease, LockedByHolder
<1>3. ASSUME NEW m \in Mutex, Release(m) PROVE LockedByHolder'
  BY <1>2, <1>3 DEF Release
<1>4. CASE XWait
  <2>1. mu[self] \in Mutex /\ mu[self] \in held[self]
    BY <1>0, <1>4 DEF XWait, At, OperandsOK
  <2> QED  BY <1>2, <1>4, <2>1 DEF XWait
<1>5. CASE LockMutex
  <2>1. mu[self] \in Mutex
    BY <1>0, <1>5 DEF LockMutex, At, OperandsOK
  <2>2. \/ /\ holder[mu[self]] = Nil
           /\ holder' = [holder EXCEPT ![mu[self]] = self]
           /\ held' = [held EXCEPT ![self] = @ \cup {mu[self]}]
        \/ UNCHANGED <<held, holder>>
    BY <1>5 DEF LockMutex, Die, ghostVars, lockVars
  <2>3. Nil \notin Thread
    BY NilAssumption
  <2> QED  BY <1>0, <1>1, <2>1, <2>2, <2>3 DEF LockedByHolder
<1>6. UNCHANGED held \/ XWait \/ LockMutex \/ \E m \in Mutex : Release(m)
  BY GlobalsFrame DEF ghostVars, Transfer, XJoin, JoinMain, CallFork,
     SuspendOthers, ResumeOthers, CallInternalYield, Deadlock, Die
<1>7. UNCHANGED holder \/ XWait \/ LockMutex \/ \E m \in Mutex : Release(m)
  BY LockFrame DEF lockVars, Signal, Broadcast, VisitAlertedWaiter, Exit, XJoin
<1> QED  BY <1>1, <1>3, <1>4, <1>5, <1>6, <1>7

-----------------------------------------------------------------------------
(* The waiting lists.                                                      *)

\* XRelease takes off the list of m the thread that it wakes, and no other.
LEMMA LongestWaiterLemma ==
  ASSUME LockInv, NEW m \in Mutex, XRelease(m)
  PROVE  /\ \A t \in LongestWaiter(m) :
              /\ t \in Thread /\ state[t] = "locking" /\ mu[t] = m
              /\ NotIn(mutexQ'[m], t)
         /\ \A t \in Thread \ LongestWaiter(m) :
              /\ OnceIn(mutexQ[m], t) => OnceIn(mutexQ'[m], t)
              /\ NotIn(mutexQ[m], t) => NotIn(mutexQ'[m], t)
         /\ \A n \in Mutex \ {m} : mutexQ'[n] = mutexQ[n]
<1> USE DEF LockInv, TypeOK
<1>0. mutexQ \in [Mutex -> Seq(Thread)] /\ mutexQ[m] \in Seq(Thread)
  BY DEF LocksOK
<1>1. mutexQ'[m] = Front(mutexQ[m]) /\ \A n \in Mutex \ {m} : mutexQ'[n] = mutexQ[n]
  BY <1>0 DEF XRelease
<1>2. CASE mutexQ[m] = <<>>
  <2>1. Front(mutexQ[m]) = mutexQ[m]
    BY <1>2, SubSeqEmpty, SMT DEF Front
  <2> QED  BY <1>1, <1>2, <2>1 DEF LongestWaiter
<1>3. CASE mutexQ[m] # <<>>
  <2> DEFINE s == mutexQ[m]
             x == Last(s)
  <2>1. /\ Len(s) \in 1 .. Len(s) /\ x = s[Len(s)] /\ x \in Thread
        /\ Front(s) = RemoveAt(s, Len(s))
    BY <1>0, <1>3, EndsLemma
  <2>2. LongestWaiter(m) = {x}
    BY <1>3 DEF LongestWaiter
  <2>3. ~NotIn(s, x)
    BY <1>0, <2>1, LenProperties DEF NotIn
  <2>4. state[x] = "locking" /\ mu[x] = m /\ OnceIn(s, x)
    BY <2>1, <2>3 DEF QueuesMatchStates
  <2>5. NotIn(Front(s), x)
    BY <1>0, <2>1, <2>4, RemoveLemma
  <2>6. \A t \in Thread \ {x} :
          /\ OnceIn(s, t) => OnceIn(Front(s), t)
          /\ NotIn(s, t) => NotIn(Front(s), t)
    BY <1>0, <2>1, RemoveLemma
  <2> QED  BY <1>1, <2>1, <2>2, <2>4, <2>5, <2>6
<1> QED  BY <1>2, <1>3

\* A thread is in the list s of threads exactly if ToSet(s) has it.
LEMMA ToSetLemma ==
  ASSUME NEW s \in Seq(Thread), NEW t
  PROVE  t \in ToSet(s) <=> ~NotIn(s, t)
BY DEF ToSet, NotIn

\* Nobody is in an empty list.
LEMMA EmptyLemma ==
  ASSUME NEW t
  PROVE  NotIn(<<>>, t)
<1>1. <<>> \in Seq(Thread) /\ Len(<<>>) = 0
  BY EmptySeq
<1>2. DOMAIN <<>> = 1 .. 0
  BY <1>1, LenProperties
<1> QED  BY <1>2, SMT DEF NotIn

\* Steps that leave the lists, and who is in them, alone.
LEMMA QuietStep ==
  ASSUME LockInv, UNCHANGED <<mutexQ, condQ>>,
         \A t \in Thread :
           \/ /\ state[t] \notin {"waiting", "locking"}
              /\ state'[t] \notin {"waiting", "locking"}
           \/ state'[t] = state[t] /\ cv'[t] = cv[t] /\ mu'[t] = mu[t]
  PROVE  QueuesMatchStates'
BY DEF LockInv, QueuesMatchStates

\* A thread that can run is in no list.
LEMMA RunnerUnlisted ==
  ASSUME LockInv, NEW t \in Thread, state[t] \notin {"waiting", "locking"}
  PROVE  /\ \A c \in Waitable : NotIn(condQ[c], t)
         /\ \A m \in Mutex : NotIn(mutexQ[m], t)
BY DEF LockInv, QueuesMatchStates

\* All the threads that wait on c are woken.
LEMMA WakeAllStep ==
  ASSUME LockInv, NEW c \in Waitable,
         condQ' = [condQ EXCEPT ![c] = <<>>], UNCHANGED <<mutexQ, mu, cv>>,
         state[self] = "alive",
         NEW s \in {"alive", "dying"}, Wake(ToSet(condQ[c]), s)
  PROVE  QueuesMatchStates'
<1> USE DEF LockInv, TypeOK
<1>0. /\ self \in Thread /\ condQ \in [Waitable -> Seq(Thread)]
      /\ \A t \in Thread : t \in ToSet(condQ[c]) <=> ~NotIn(condQ[c], t)
  BY ToSetLemma DEF SchedOK, LocksOK
<1>1. ASSUME NEW t \in Thread
      PROVE  \/ state'[t] = state[t] \/ {state[t], state'[t]} \cap {"waiting", "locking"} = {}
             \/ ~NotIn(condQ[c], t)
  BY <1>0 DEF Wake
<1>2. condQ'[c] = <<>> /\ \A d \in Waitable \ {c} : condQ'[d] = condQ[d]
  BY <1>0, EmptyLemma
<1>3. ASSUME NEW t \in Thread, NEW d \in Waitable
      PROVE  IF state'[t] = "waiting" /\ cv[t] = d
             THEN OnceIn(condQ'[d], t) ELSE NotIn(condQ'[d], t)
  <2>1. CASE NotIn(condQ[c], t)
    <3>1. ~(state[t] = "waiting" /\ cv[t] = c)
      BY <2>1 DEF QueuesMatchStates, OnceIn, NotIn
    <3>2. CASE d = c
      BY <1>1, <1>2, <2>1, <3>1, <3>2, EmptyLemma
    <3>3. CASE d # c
      <4>1. condQ'[d] = condQ[d]
        BY <1>2, <3>3
      <4>2. (state'[t] = "waiting") <=> (state[t] = "waiting")
        BY <1>1, <2>1
      <4>3. IF state[t] = "waiting" /\ cv[t] = d
            THEN OnceIn(condQ[d], t) ELSE NotIn(condQ[d], t)
        BY DEF QueuesMatchStates
      <4> QED  BY <4>1, <4>2, <4>3
    <3> QED  BY <3>2, <3>3
  <2>2. CASE ~NotIn(condQ[c], t)
    <3>1. state[t] = "waiting" /\ cv[t] = c /\ state'[t] = "alive"
      BY <1>0, <2>2 DEF QueuesMatchStates, Wake
    <3> QED  BY <1>2, <3>1, EmptyLemma DEF QueuesMatchStates
  <2> QED  BY <2>1, <2>2
<1>4. ASSUME NEW t \in Thread, NEW m \in Mutex
      PROVE  IF state'[t] = "locking" /\ mu[t] = m
             THEN OnceIn(mutexQ[m], t) ELSE NotIn(mutexQ[m], t)
  <2>1. CASE NotIn(condQ[c], t)
    BY <1>1, <2>1 DEF QueuesMatchStates
  <2>2. CASE ~NotIn(condQ[c], t)
    <3>1. state[t] = "waiting" /\ state'[t] = "alive"
      BY <1>0, <2>2 DEF QueuesMatchStates, Wake
    <3> QED  BY <3>1 DEF QueuesMatchStates
  <2> QED  BY <2>1, <2>2
<1> QED  BY <1>3, <1>4 DEF QueuesMatchStates

\* One thread t that waits on c, the i-th of its list, is woken.
LEMMA WakeOneStep ==
  ASSUME LockInv, NEW c \in Waitable, NEW i \in 1 .. Len(condQ[c]), NEW t \in Thread,
         condQ[c][i] = t,
         condQ' = [condQ EXCEPT ![c] = RemoveAt(@, i)], UNCHANGED <<mutexQ, mu, cv>>,
         \A u \in Thread : state'[u] = IF u = t THEN "alive" ELSE state[u]
  PROVE  QueuesMatchStates'
<1> USE DEF LockInv, TypeOK
<1>0. condQ \in [Waitable -> Seq(Thread)] /\ condQ[c] \in Seq(Thread)
  BY DEF LocksOK
<1>1. ~NotIn(condQ[c], t)
  BY <1>0, LenProperties DEF NotIn
<1>2. state[t] = "waiting" /\ cv[t] = c /\ OnceIn(condQ[c], t)
  BY <1>1 DEF QueuesMatchStates
<1>3. /\ condQ'[c] = RemoveAt(condQ[c], i)
      /\ \A d \in Waitable \ {c} : condQ'[d] = condQ[d]
  BY <1>0
<1>4. /\ NotIn(condQ'[c], t)
      /\ \A u \in Thread \ {t} :
           /\ OnceIn(condQ[c], u) => OnceIn(condQ'[c], u)
           /\ NotIn(condQ[c], u) => NotIn(condQ'[c], u)
  BY <1>0, <1>2, <1>3, RemoveLemma
<1>5. ASSUME NEW u \in Thread, NEW d \in Waitable
      PROVE  IF state'[u] = "waiting" /\ cv[u] = d
             THEN OnceIn(condQ'[d], u) ELSE NotIn(condQ'[d], u)
  BY <1>2, <1>3, <1>4 DEF QueuesMatchStates
<1>6. ASSUME NEW u \in Thread, NEW m \in Mutex
      PROVE  IF state'[u] = "locking" /\ mu[u] = m
             THEN OnceIn(mutexQ[m], u) ELSE NotIn(mutexQ[m], u)
  BY <1>2 DEF QueuesMatchStates
<1> QED  BY <1>5, <1>6 DEF QueuesMatchStates

\* The running thread starts to wait on c; nobody else's place changes.
LEMMA StartWaitStep ==
  ASSUME LockInv, NEW c \in Waitable, state[self] = "alive",
         condQ' = [condQ EXCEPT ![c] = <<self>> \o @], UNCHANGED <<mu, cv>>,
         cv[self] = c, state'[self] = "waiting",
         \A t \in Thread \ {self} : \A m \in Mutex :
           IF state'[t] = "locking" /\ mu[t] = m
           THEN OnceIn(mutexQ'[m], t) ELSE NotIn(mutexQ'[m], t),
         \A t \in Thread \ {self} :
           state'[t] = "waiting" <=> state[t] = "waiting",
         \A m \in Mutex : NotIn(mutexQ'[m], self)
  PROVE  QueuesMatchStates'
<1> USE DEF LockInv, TypeOK
<1>0. /\ self \in Thread /\ condQ \in [Waitable -> Seq(Thread)]
      /\ condQ[c] \in Seq(Thread)
  BY DEF SchedOK, LocksOK
<1>1. /\ condQ'[c] = <<self>> \o condQ[c]
      /\ \A d \in Waitable \ {c} : condQ'[d] = condQ[d]
  BY <1>0
<1>2. /\ OnceIn(condQ'[c], self)
      /\ \A t \in Thread \ {self} :
           /\ OnceIn(condQ[c], t) => OnceIn(condQ'[c], t)
           /\ NotIn(condQ[c], t) => NotIn(condQ'[c], t)
  BY <1>0, <1>1, PushLemma, RunnerUnlisted
<1>3. \A d \in Waitable : NotIn(condQ[d], self)
  BY <1>0, RunnerUnlisted
<1>4. ASSUME NEW t \in Thread, NEW d \in Waitable
      PROVE  IF state'[t] = "waiting" /\ cv[t] = d
             THEN OnceIn(condQ'[d], t) ELSE NotIn(condQ'[d], t)
  BY <1>0, <1>1, <1>2, <1>3 DEF QueuesMatchStates
<1>5. ASSUME NEW t \in Thread, NEW m \in Mutex
      PROVE  IF state'[t] = "locking" /\ mu[t] = m
             THEN OnceIn(mutexQ'[m], t) ELSE NotIn(mutexQ'[m], t)
  BY <1>0
<1> QED  BY <1>4, <1>5 DEF QueuesMatchStates

\* Every step keeps the waiting lists in agreement with T.state.
LEMMA QueuesStep ==
  ASSUME LockInv, [Next]_vars
  PROVE  QueuesMatchStates'
<1> USE DEF LockInv, TypeOK
<1>0. /\ self \in Thread /\ CallsOK /\ state \in [Thread -> States]
      /\ mutexQ \in [Mutex -> Seq(Thread)] /\ condQ \in [Waitable -> Seq(Thread)]
      /\ QueuesMatchStates
  BY DEF SchedOK, ThreadsOK, LocksOK
\* Steps of the running thread that change its own operands, while alive.
<1>q. ASSUME state[self] = "alive", UNCHANGED <<mutexQ, condQ>>,
             \A t \in Thread \ {self} :
               state'[t] = state[t] /\ cv'[t] = cv[t] /\ mu'[t] = mu[t],
             state'[self] \notin {"waiting", "locking"}
      PROVE  QueuesMatchStates'
  BY <1>0, <1>q, QuietStep
<1>u. ASSUME UNCHANGED <<mutexQ, condQ, state, cv, mu>> PROVE QueuesMatchStates'
  BY <1>u, QuietStep
<1>1. ASSUME Client PROVE QueuesMatchStates'
  <2>1. ASSUME NEW m \in Mutex, Acquire(m)
        PROVE  QueuesMatchStates'
    <3>1. state[self] = "alive"
      BY <2>1, RunnerAlive DEF Acquire, Calls
    <3> QED  BY <1>0, <1>q, <2>1, <3>1 DEF Acquire, Enter, CallsOK, threadVars, lockVars
  <2>2. ASSUME NEW m \in Mutex, Release(m)
        PROVE  QueuesMatchStates'
    <3>1. state[self] = "alive"
      BY <2>2, RunnerAlive DEF Release, Calls
    <3>2. XRelease(m) /\ UNCHANGED <<condQ, mu, cv>> /\ Wake(LongestWaiter(m), state[self])
      BY <2>2 DEF Release, Goto
    <3>3. \A t \in Thread : state'[t] = IF t \in LongestWaiter(m) THEN "alive" ELSE state[t]
      BY <1>0, <3>2 DEF Wake
    <3>4. ASSUME NEW t \in Thread, NEW c \in Waitable
          PROVE  IF state'[t] = "waiting" /\ cv[t] = c
                 THEN OnceIn(condQ[c], t) ELSE NotIn(condQ[c], t)
      BY <1>0, <3>2, <3>3, LongestWaiterLemma DEF QueuesMatchStates
    <3>5. ASSUME NEW t \in Thread, NEW n \in Mutex
          PROVE  IF state'[t] = "locking" /\ mu[t] = n
                 THEN OnceIn(mutexQ'[n], t) ELSE NotIn(mutexQ'[n], t)
      BY <1>0, <3>2, <3>3, LongestWaiterLemma DEF QueuesMatchStates
    <3> QED  BY <3>2, <3>4, <3>5 DEF QueuesMatchStates
  <2>3. ASSUME NEW m \in Mutex, NEW c \in Cond, Wait(m, c) \/ AlertWait(m, c)
        PROVE  QueuesMatchStates'
    <3>1. state[self] = "alive"
      BY <2>3, RunnerAlive DEF Wait, AlertWait, WaitCall, Calls
    <3> QED  BY <1>0, <1>q, <2>3, <3>1 DEF Wait, AlertWait, WaitCall, Enter, CallsOK, lockVars
  <2>4. ASSUME NEW c \in Cond, Signal(c)
        PROVE  QueuesMatchStates'
    <3>1. state[self] = "alive"
      BY <2>4, RunnerAlive DEF Signal, Calls
    <3>2. c \in Waitable /\ condQ[c] \in Seq(Thread) /\ condQ[c] # <<>>
      BY <1>0, <2>4 DEF Signal, Waitable
    <3>3. /\ Head(condQ[c]) = condQ[c][1] /\ Head(condQ[c]) \in Thread
          /\ 1 \in 1 .. Len(condQ[c]) /\ Tail(condQ[c]) = RemoveAt(condQ[c], 1)
      BY <3>2, EndsLemma
    <3>4. \A t \in Thread : state'[t] = IF t = Head(condQ[c]) THEN "alive" ELSE state[t]
      BY <1>0, <2>4 DEF Signal, Wake
    <3>5. /\ condQ' = [condQ EXCEPT ![c] = RemoveAt(@, 1)]
          /\ UNCHANGED <<mutexQ, mu, cv>>
      BY <2>4, <3>3 DEF Signal, callVars
    <3> QED  BY <3>2, <3>3, <3>4, <3>5, WakeOneStep
  <2>5. ASSUME NEW c \in Cond, Broadcast(c)
        PROVE  QueuesMatchStates'
    <3>1. state[self] = "alive"
      BY <2>5, RunnerAlive DEF Broadcast, Calls
    <3> QED  BY <2>5, <3>1, WakeAllStep DEF Broadcast, callVars, Waitable
  <2>6. ASSUME NEW t \in Thread, Join(t) \/ AlertJoin(t)
        PROVE  QueuesMatchStates'
    <3>1. state[self] = "alive"
      BY <2>6, RunnerAlive DEF Join, AlertJoin, JoinCall, Calls
    <3> QED  BY <1>0, <1>q, <2>6, <3>1 DEF Join, AlertJoin, JoinCall, Enter, CallsOK, lockVars
  <2>7. ASSUME NEW t \in Thread, Alert(t)
        PROVE  QueuesMatchStates'
    BY <1>u, <2>7 DEF Alert, callVars, lockVars
  <2>8. CASE CallFork \/ Yield
    BY <1>u, <2>8 DEF CallFork, Yield, Goto, threadVars, lockVars
  <2>9. CASE Exit
    <3>1. state[self] = "alive"
      BY <2>9, RunnerAlive DEF Exit, Calls
    <3> QED  BY <1>0, <2>9, <3>1, WakeAllStep DEF Exit, Goto, Waitable
  <2>10. CASE TestAlert \/ SuspendOthers \/ ResumeOthers
    BY <1>u, <2>10 DEF TestAlert, SuspendOthers, ResumeOthers, callVars, lockVars, threadVars
  <2>11. CASE Pause \/ AlertPause
    <3>1. state[self] = "alive"
      BY <2>11, RunnerAlive DEF Pause, AlertPause, XPause, Calls
    <3> QED  BY <1>0, <1>q, <2>11, <3>1 DEF Pause, AlertPause, XPause, Enter, Wake, CallsOK, lockVars
  <2>12. CASE IOWait \/ IOAlertWait
    <3>1. state[self] = "alive"
      BY <2>12, RunnerAlive DEF IOWait, IOAlertWait, IOCall, Calls
    <3> QED  BY <1>0, <1>q, <2>12, <3>1 DEF IOWait, IOAlertWait, IOCall, Enter, CallsOK, lockVars
  <2> QED  BY <1>1, <2>1, <2>2, <2>3, <2>4, <2>5, <2>6, <2>7, <2>8, <2>9,
              <2>10, <2>11, <2>12 DEF Client
<1>2. ASSUME Library PROVE QueuesMatchStates'
  <2>1. CASE LockMutex
    <3>1. state[self] = "alive" /\ mu[self] \in Mutex
      BY <1>0, <2>1, RunnerAlive DEF LockMutex, At, OperandsOK
    <3>2. CASE Return(self) /\ UNCHANGED <<state, mutexQ, condQ>>
      BY <1>0, <1>q, <3>1, <3>2 DEF Return, CallsOK
    <3>3. CASE /\ mutexQ' = [mutexQ EXCEPT ![mu[self]] = <<self>> \o @]
               /\ Wake({}, "locking") /\ UNCHANGED <<condQ, mu, cv>>
      <4>1. /\ mutexQ'[mu[self]] = <<self>> \o mutexQ[mu[self]]
            /\ \A n \in Mutex \ {mu[self]} : mutexQ'[n] = mutexQ[n]
            /\ mutexQ[mu[self]] \in Seq(Thread)
        BY <1>0, <3>1, <3>3
      <4>2. \A t \in Thread : state'[t] = IF t = self THEN "locking" ELSE state[t]
        BY <3>3 DEF Wake
      <4>3. /\ OnceIn(mutexQ'[mu[self]], self)
            /\ \A t \in Thread \ {self} :
                 /\ OnceIn(mutexQ[mu[self]], t) => OnceIn(mutexQ'[mu[self]], t)
                 /\ NotIn(mutexQ[mu[self]], t) => NotIn(mutexQ'[mu[self]], t)
        BY <1>0, <3>1, <4>1, PushLemma, RunnerUnlisted
      <4>4. ASSUME NEW t \in Thread, NEW n \in Mutex
            PROVE  IF state'[t] = "locking" /\ mu[t] = n
                   THEN OnceIn(mutexQ'[n], t) ELSE NotIn(mutexQ'[n], t)
        <5>1. CASE t = self
          <6>1. state'[t] = "locking" /\ NotIn(mutexQ[n], t)
            BY <3>1, <4>2, <5>1, RunnerUnlisted
          <6> QED  BY <4>1, <4>3, <5>1, <6>1
        <5>2. CASE t # self
          <6>1. IF state[t] = "locking" /\ mu[t] = n
                THEN OnceIn(mutexQ[n], t) ELSE NotIn(mutexQ[n], t)
            BY DEF QueuesMatchStates
          <6>2. state'[t] = state[t]
            BY <4>2, <5>2
          <6>3. CASE n = mu[self]
            BY <4>3, <5>2, <6>1, <6>2, <6>3
          <6>4. CASE n # mu[self]
            BY <4>1, <6>1, <6>2, <6>4
          <6> QED  BY <6>3, <6>4
        <5> QED  BY <5>1, <5>2
      <4>5. ASSUME NEW t \in Thread, NEW c \in Waitable
            PROVE  IF state'[t] = "waiting" /\ cv[t] = c
                   THEN OnceIn(condQ[c], t) ELSE NotIn(condQ[c], t)
        BY <1>0, <3>1, <4>2, RunnerUnlisted DEF QueuesMatchStates
      <4> QED  BY <3>3, <4>4, <4>5 DEF QueuesMatchStates
    <3>4. CASE UNCHANGED <<mutexQ, condQ, state, cv, mu>>
      BY <1>u, <3>4
    <3> QED  BY <2>1, <3>2, <3>3, <3>4
             DEF LockMutex, Die, Goto, threadVars, callVars, lockVars
  <2>2. CASE CallXWait
    BY <1>u, <2>2 DEF CallXWait, Goto, threadVars, lockVars
  <2>3. CASE XWait
    <3>1. /\ state[self] = "alive" /\ mu[self] \in Mutex /\ cv[self] \in Waitable
          /\ XRelease(mu[self]) /\ Wake(LongestWaiter(mu[self]), "waiting")
          /\ condQ' = [condQ EXCEPT ![cv[self]] = <<self>> \o @]
          /\ UNCHANGED <<mu, cv>>
      BY <1>0, <2>3, RunnerAlive DEF XWait, At, Goto, OperandsOK, Waitable
    <3>2. self \notin LongestWaiter(mu[self])
      BY <3>1, LongestWaiterLemma
    <3>3. \A t \in Thread : state'[t] = IF t \in LongestWaiter(mu[self]) THEN "alive"
                                        ELSE IF t = self THEN "waiting" ELSE state[t]
      BY <3>1 DEF Wake
    <3>4. \A m \in Mutex : NotIn(mutexQ'[m], self)
      BY <1>0, <3>1, <3>2, LongestWaiterLemma, RunnerUnlisted
    <3>5. ASSUME NEW t \in Thread \ {self}, NEW n \in Mutex
          PROVE  IF state'[t] = "locking" /\ mu[t] = n
                 THEN OnceIn(mutexQ'[n], t) ELSE NotIn(mutexQ'[n], t)
      BY <1>0, <3>1, <3>3, LongestWaiterLemma DEF QueuesMatchStates
    <3>6. \A t \in Thread \ {self} : state'[t] = "waiting" <=> state[t] = "waiting"
      BY <3>1, <3>3, LongestWaiterLemma
    <3>7. state'[self] = "waiting"
      BY <1>0, <3>2, <3>3
    <3> QED  BY <3>1, <3>4, <3>5, <3>6, <3>7, StartWaitStep
  <2>4. CASE XJoin
    <3>1. state[self] = "alive" /\ cv[self] \in Thread /\ UNCHANGED mutexQ
      BY <1>0, <2>4, RunnerAlive DEF XJoin, At, OperandsOK
    <3>2. CASE /\ condQ' = [condQ EXCEPT ![cv[self]] = <<self>> \o @]
               /\ Wake({}, "waiting") /\ Goto("joinYield")
      <4>1. \A t \in Thread : state'[t] = IF t = self THEN "waiting" ELSE state[t]
        BY <3>2 DEF Wake
      <4>2. \A m \in Mutex : NotIn(mutexQ'[m], self)
        BY <1>0, <3>1, RunnerUnlisted
      <4>3. ASSUME NEW t \in Thread \ {self}, NEW n \in Mutex
            PROVE  IF state'[t] = "locking" /\ mu[t] = n
                   THEN OnceIn(mutexQ'[n], t) ELSE NotIn(mutexQ'[n], t)
        BY <1>0, <3>1, <4>1 DEF QueuesMatchStates
      <4>4. cv[self] \in Waitable /\ UNCHANGED <<mu, cv>>
        BY <3>1, <3>2 DEF Waitable, Goto
      <4>5. \A t \in Thread \ {self} : state'[t] = "waiting" <=> state[t] = "waiting"
        BY <4>1
      <4> QED  BY <1>0, <3>1, <3>2, <4>1, <4>2, <4>3, <4>4, <4>5, StartWaitStep
    <3>3. CASE /\ Gone(cv[self]) /\ state' = [state EXCEPT ![cv[self]] = "dead"]
               /\ Return(self) /\ UNCHANGED condQ
      <4>1. \A t \in Thread \ {self} : cv'[t] = cv[t] /\ mu'[t] = mu[t]
        BY <1>0, <3>3 DEF Return, CallsOK
      <4>2. \A t \in Thread : state'[t] = state[t] \/
              ({state[t], state'[t]} \cap {"waiting", "locking"} = {})
        BY <1>0, <3>1, <3>3 DEF Gone
      <4> QED  BY <1>0, <3>1, <3>3, <4>1, <4>2, QuietStep
    <3> QED  BY <2>4, <3>2, <3>3 DEF XJoin
  <2>5. CASE XIOWait
    <3>1. state[self] = "alive" /\ UNCHANGED lockVars
      BY <2>5, RunnerAlive DEF XIOWait
    <3>2. CASE Wake({}, "blocking") /\ Goto("ioYield")
      BY <1>0, <1>q, <3>1, <3>2 DEF Goto, Wake, lockVars
    <3>3. CASE Return(self) /\ UNCHANGED state
      BY <1>0, <1>q, <3>1, <3>3 DEF Return, CallsOK, lockVars
    <3> QED  BY <2>5, <3>2, <3>3 DEF XIOWait
  <2>6. CASE CallInternalYield \/ JoinMain
    BY <1>u, <2>6 DEF CallInternalYield, JoinMain, Die, callVars, lockVars, threadVars
  <2>7. ASSUME NEW t \in Thread, Fork(t) PROVE QueuesMatchStates'
    <3>1. state[t] = "none" /\ state' = [state EXCEPT ![t] = "alive"]
      BY <2>7 DEF Fork, Unborn
    <3> QED  BY <1>0, <2>7, <3>1, QuietStep DEF Fork, Goto, lockVars
  <2> QED  BY <1>2, <2>1, <2>2, <2>3, <2>4, <2>5, <2>6, <2>7 DEF Library
<1>3. ASSUME Scheduler PROVE QueuesMatchStates'
  <2>1. ASSUME NEW t \in Thread, VisitAlertedWaiter(t)
        PROVE  QueuesMatchStates'
    <3>1. cv[t] \in Waitable
      BY <1>0, <2>1 DEF VisitAlertedWaiter, StatesOK, OperandsOK, Waitable
    <3>2. PICK i \in 1 .. Len(condQ[cv[t]]) :
                 /\ condQ[cv[t]][i] = t
                 /\ condQ' = [condQ EXCEPT ![cv[t]] = RemoveAt(@, i)]
      BY <2>1 DEF VisitAlertedWaiter
    <3>3. /\ UNCHANGED <<mutexQ, mu, cv>>
          /\ \A u \in Thread : state'[u] = IF u = t THEN "alive" ELSE state[u]
      BY <1>0, <2>1 DEF VisitAlertedWaiter
    <3> QED  BY <3>1, <3>2, <3>3, WakeOneStep
  <2>2. ASSUME NEW t \in Thread, VisitReady(t)
        PROVE  QueuesMatchStates'
    BY <1>0, <2>2, QuietStep DEF VisitReady, callVars, lockVars
  <2>3. ASSUME NEW t \in Thread, VisitBlocked(t) \/ VisitGone(t)
        PROVE  QueuesMatchStates'
    BY <1>u, <2>3 DEF VisitBlocked, VisitGone, callVars, threadVars, lockVars
  <2>4. ASSUME NEW t \in Thread, Transfer(t)
        PROVE  QueuesMatchStates'
    <3>1. state[t] = "alive" /\ UNCHANGED <<state, mutexQ, condQ>>
      BY <2>4 DEF Transfer, CanTransfer, lockVars
    <3>2. \A u \in Thread \ {t} : cv'[u] = cv[u] /\ mu'[u] = mu[u]
      BY <1>0, <2>4 DEF Transfer, ResumeNormally, RaiseAlerted, Return, CallsOK
    <3> QED  BY <1>0, <3>1, <3>2, QuietStep
  <2>5. CASE Rescan \/ Select \/ Deadlock
    BY <1>u, <2>5 DEF Rescan, Select, Deadlock, Die, callVars, lockVars, threadVars
  <2> QED  BY <1>3, <2>1, <2>2, <2>3, <2>4, <2>5 DEF Scheduler
<1>4. CASE Preempt
  BY <1>u, <1>4 DEF Preempt, threadVars, lockVars
<1>5. ASSUME NEW t \in Thread, Due(t) PROVE QueuesMatchStates'
  BY <1>u, <1>5 DEF Due, callVars, lockVars
<1>6. CASE Halted \/ UNCHANGED vars
  BY <1>u, <1>6 DEF Halted, vars, callVars, lockVars, threadVars
<1> QED  BY <1>1, <1>2, <1>3, <1>4, <1>5, <1>6 DEF Next

-----------------------------------------------------------------------------
(* No unlock is lost.                                                      *)

\* A thread on its way to lock a mutex keeps going, unless it just tried.
LEMMA TryerKept ==
  ASSUME LockInv, [Next]_vars, NEW t \in Thread, state[t] = "alive",
         pc[t] \in {"lock", "lockYield"}
  PROVE  \/ /\ state'[t] = "alive" /\ mu'[t] = mu[t]
            /\ pc'[t] \in {"lock", "lockYield"}
         \/ LockMutex /\ t = self
<1> USE DEF LockInv, TypeOK
<1>0. CallsOK /\ self \in Thread /\ state \in [Thread -> States]
  BY DEF SchedOK, ThreadsOK
<1> DEFINE Kept == /\ state'[t] = "alive" /\ mu'[t] = mu[t]
                   /\ pc'[t] \in {"lock", "lockYield"}
<1>u. ASSUME UNCHANGED <<state, mu, pc>> PROVE Kept
  BY <1>u
\* Whatever the running thread does to itself and to those it wakes.
<1>o. ASSUME t # self, state'[t] \in {"alive", state[t]},
             pc'[t] = pc[t], mu'[t] = mu[t]
      PROVE  Kept
  BY <1>o
<1>c. ASSUME NEW l \in {"run", "fork", "alertWait", "enter", "join", "io"}, At(l)
      PROVE  t # self
  BY <1>c DEF At
<1>w. ASSUME NEW woken, NEW s, Wake(woken, s), t # self
      PROVE  state'[t] \in {"alive", state[t]}
  BY <1>w DEF Wake
<1>n. ASSUME NEW l, NEW m, NEW c, NEW a, Enter(l, m, c, a) \/ Goto(l) \/ Return(self), t # self
      PROVE  pc'[t] = pc[t] /\ mu'[t] = mu[t]
  BY <1>0, <1>n DEF Enter, Goto, Return, CallsOK
<1> HIDE DEF Kept
<1>1. ASSUME Client PROVE Kept
  <2>1. ASSUME NEW m \in Mutex, Acquire(m) PROVE Kept
    BY <1>o, <1>c, <1>n, <2>1 DEF Acquire, Calls, threadVars
  <2>2. ASSUME NEW m \in Mutex, Release(m) PROVE Kept
    <3>1. t # self
      BY <1>c, <2>2 DEF Release, Calls
    <3>2. state'[t] \in {"alive", state[t]}
      BY <1>w, <2>2, <3>1 DEF Release
    <3>3. pc'[t] = pc[t] /\ mu'[t] = mu[t]
      BY <1>n, <2>2, <3>1 DEF Release
    <3> QED  BY <1>o, <3>1, <3>2, <3>3
  <2>3. ASSUME NEW m \in Mutex, NEW c \in Cond, Wait(m, c) \/ AlertWait(m, c) PROVE Kept
    BY <1>o, <1>c, <1>n, <2>3 DEF Wait, AlertWait, WaitCall, Calls
  <2>4. ASSUME NEW c \in Cond, Signal(c) \/ Broadcast(c) PROVE Kept
    <3>1. t # self
      BY <1>c, <2>4 DEF Signal, Broadcast, Calls
    <3>2. state'[t] \in {"alive", state[t]}
      BY <1>w, <2>4, <3>1 DEF Signal, Broadcast
    <3> QED  BY <1>o, <2>4, <3>1, <3>2 DEF Signal, Broadcast, callVars
  <2>5. ASSUME NEW u \in Thread, Join(u) \/ AlertJoin(u) PROVE Kept
    BY <1>o, <1>c, <1>n, <2>5 DEF Join, AlertJoin, JoinCall, Calls
  <2>6. ASSUME NEW u \in Thread, Alert(u) PROVE Kept
    BY <1>u, <2>6 DEF Alert, callVars
  <2>7. CASE CallFork
    BY <1>o, <1>c, <1>n, <2>7 DEF CallFork, Calls, threadVars
  <2>8. CASE Yield
    BY <1>o, <1>c, <1>n, <2>8 DEF Yield, Calls, threadVars
  <2>9. CASE Exit
    BY <1>o, <1>c, <1>n, <1>w, <2>9 DEF Exit, Calls
  <2>10. CASE TestAlert \/ SuspendOthers \/ ResumeOthers
    BY <1>u, <2>10 DEF TestAlert, SuspendOthers, ResumeOthers, callVars, threadVars
  <2>11. CASE Pause \/ AlertPause
    BY <1>o, <1>c, <1>n, <1>w, <2>11 DEF Pause, AlertPause, XPause, Calls
  <2>12. CASE IOWait \/ IOAlertWait
    BY <1>o, <1>c, <1>n, <2>12 DEF IOWait, IOAlertWait, IOCall, Calls
  <2> QED  BY <1>1, <2>1, <2>2, <2>3, <2>4, <2>5, <2>6, <2>7, <2>8, <2>9,
              <2>10, <2>11, <2>12 DEF Client
<1>2. ASSUME Library PROVE Kept \/ (LockMutex /\ t = self)
  <2>1. ASSUME LockMutex, t # self PROVE Kept
    <3>1. pc'[t] = pc[t] /\ mu'[t] = mu[t]
      BY <1>n, <2>1 DEF LockMutex, Die, callVars
    <3>2. state'[t] \in {"alive", state[t]}
      BY <1>w, <2>1 DEF LockMutex, Die, threadVars
    <3> QED  BY <1>o, <2>1, <3>1, <3>2
  <2>2. CASE CallXWait
    BY <1>o, <1>c, <1>n, <2>2 DEF CallXWait, threadVars
  <2>3. CASE XWait
    BY <1>o, <1>c, <1>n, <1>w, <2>3 DEF XWait
  <2>4. CASE XJoin
    <3>1. t # self
      BY <1>c, <2>4 DEF XJoin
    <3>2. pc'[t] = pc[t] /\ mu'[t] = mu[t]
      BY <1>n, <2>4, <3>1 DEF XJoin
    <3>3. state'[t] \in {"alive", state[t]}
      BY <1>0, <1>w, <2>4, <3>1 DEF XJoin, Gone
    <3> QED  BY <1>o, <3>1, <3>2, <3>3
  <2>5. CASE XIOWait
    <3>1. t # self
      BY <1>c, <2>5 DEF XIOWait
    <3>2. pc'[t] = pc[t] /\ mu'[t] = mu[t]
      BY <1>n, <2>5, <3>1 DEF XIOWait
    <3>3. state'[t] \in {"alive", state[t]}
      BY <1>w, <2>5, <3>1 DEF XIOWait
    <3> QED  BY <1>o, <3>1, <3>2, <3>3
  <2>6. CASE CallInternalYield \/ JoinMain
    BY <1>u, <2>6 DEF CallInternalYield, JoinMain, Die, callVars, threadVars
  <2>7. ASSUME NEW u \in Thread, Fork(u) PROVE Kept
    <3>1. t # self
      BY <1>c, <2>7 DEF Fork
    <3>2. state'[t] \in {"alive", state[t]}
      BY <1>0, <2>7 DEF Fork
    <3> QED  BY <1>o, <1>n, <2>7, <3>1, <3>2 DEF Fork
  <2> QED  BY <1>2, <2>1, <2>2, <2>3, <2>4, <2>5, <2>6, <2>7 DEF Library
<1>3. ASSUME Scheduler PROVE Kept
  <2>1. ASSUME NEW u \in Thread, VisitAlertedWaiter(u) \/ VisitReady(u) PROVE Kept
    BY <1>0, <2>1 DEF VisitAlertedWaiter, VisitReady, callVars, Kept
  <2>2. ASSUME NEW u \in Thread, VisitBlocked(u) \/ VisitGone(u) PROVE Kept
    BY <1>u, <2>2 DEF VisitBlocked, VisitGone, callVars, threadVars
  <2>3. ASSUME NEW u \in Thread, Transfer(u) PROVE Kept
    <3>1. state'[t] = state[t]
      BY <2>3 DEF Transfer
    <3>2. CASE u # t
      BY <1>0, <2>3, <3>1, <3>2
         DEF Transfer, ResumeNormally, RaiseAlerted, Return, CallsOK, Kept
    <3>3. CASE u = t
      BY <1>0, <2>3, <3>1, <3>3
         DEF Transfer, ResumeNormally, Unhandled, After, CallsOK, Kept
    <3> QED  BY <3>2, <3>3
  <2>4. CASE Rescan \/ Select \/ Deadlock
    BY <1>u, <2>4 DEF Rescan, Select, Deadlock, Die, callVars, threadVars
  <2> QED  BY <1>3, <2>1, <2>2, <2>3, <2>4 DEF Scheduler
<1>4. CASE Preempt
  BY <1>u, <1>4 DEF Preempt, threadVars
<1>5. ASSUME NEW u \in Thread, Due(u) PROVE Kept
  BY <1>u, <1>5 DEF Due, callVars
<1>6. CASE Halted \/ UNCHANGED vars
  BY <1>u, <1>6 DEF Halted, vars, callVars, threadVars
<1> QED  BY <1>1, <1>2, <1>3, <1>4, <1>5, <1>6 DEF Next, Kept

\* Every step keeps an unlock from being lost: somebody is on the way to the mutex.
LEMMA UnlockStep ==
  ASSUME LockInv, [Next]_vars
  PROVE  NoLostUnlock'
<1> USE DEF LockInv, TypeOK
<1>0. /\ self \in Thread /\ holder \in [Mutex -> Thread \cup {Nil}]
      /\ mutexQ \in [Mutex -> Seq(Thread)] /\ Nil \notin Thread
  BY NilAssumption DEF SchedOK, LocksOK
<1>1. SUFFICES ASSUME NEW m \in Mutex, holder'[m] = Nil, mutexQ'[m] # <<>>
               PROVE  \E t \in Thread : /\ state'[t] = "alive" /\ mu'[t] = m
                                        /\ pc'[t] \in {"lock", "lockYield"}
  BY DEF NoLostUnlock
\* LockMutex leaves the mutex it was called for with a holder.
<1>2. ASSUME LockMutex PROVE mu[self] # m
  BY <1>0, <1>1, <1>2 DEF LockMutex, Die, lockVars
<1>3. CASE holder[m] = Nil /\ mutexQ[m] # <<>>
  <2>1. PICK t \in Thread : /\ state[t] = "alive" /\ mu[t] = m
                            /\ pc[t] \in {"lock", "lockYield"}
    BY <1>3 DEF NoLostUnlock
  <2> QED  BY <1>2, <2>1, TryerKept
<1>4. CASE ~(holder[m] = Nil /\ mutexQ[m] # <<>>)
  <2>1. ASSUME XRelease(m), Wake(LongestWaiter(m), "waiting") \/ Wake(LongestWaiter(m), state[self]),
               UNCHANGED mu, \A t \in Thread \ {self} : pc'[t] = pc[t], state[self] = "alive"
        PROVE  \E t \in Thread : /\ state'[t] = "alive" /\ mu'[t] = m
                                 /\ pc'[t] \in {"lock", "lockYield"}
    <3>1. mutexQ[m] # <<>>
      BY <1>0, <1>1, <2>1, SubSeqEmpty, SMT DEF XRelease, Front
    <3>2. PICK t \in LongestWaiter(m) : t \in Thread /\ state[t] = "locking" /\ mu[t] = m
      BY <2>1, <3>1, LongestWaiterLemma DEF LongestWaiter
    <3>3. state'[t] = "alive" /\ t # self
      BY <2>1, <3>2 DEF Wake
    <3>4. pc[t] = "lockYield"
      BY <3>2 DEF StatesOK
    <3> QED  BY <2>1, <3>2, <3>3, <3>4
  <2>2. CASE Release(m)
    <3>1. state[self] = "alive"
      BY <2>2, RunnerAlive DEF Release, Calls
    <3> QED  BY <2>1, <2>2, <3>1 DEF Release, Goto, CallsOK
  <2>3. CASE XWait /\ mu[self] = m
    <3>1. state[self] = "alive"
      BY <2>3, RunnerAlive DEF XWait
    <3> QED  BY <2>1, <2>3, <3>1 DEF XWait, Goto, CallsOK
  <2>4. CASE UNCHANGED <<holder, mutexQ>>
    BY <1>1, <1>4, <2>4
  <2>5. ASSUME NEW n \in Mutex, Release(n), n # m PROVE FALSE
    BY <1>0, <1>1, <1>4, <2>5 DEF Release, XRelease
  <2>6. ASSUME XWait, mu[self] # m PROVE FALSE
    BY <1>0, <1>1, <1>4, <2>6 DEF XWait, XRelease
  <2>7. ASSUME LockMutex PROVE FALSE
    BY <1>0, <1>1, <1>2, <1>4, <2>7 DEF LockMutex, Die, lockVars
  <2> QED  BY LockFrame, <2>2, <2>3, <2>4, <2>5, <2>6, <2>7
           DEF lockVars, Signal, Broadcast, VisitAlertedWaiter, Exit, XJoin
<1> QED  BY <1>3, <1>4

-----------------------------------------------------------------------------
(* Who waits for a mutex is not alertable.                                 *)

\* Every step keeps who waits for a mutex from being alertable.
LEMMA LockingStep ==
  ASSUME LockInv, [Next]_vars
  PROVE  LockingNotAlertable'
<1> USE DEF LockInv, TypeOK
<1>0. /\ self \in Thread /\ state \in [Thread -> States]
      /\ alertable \in [Thread -> BOOLEAN] /\ LockingNotAlertable
  BY DEF SchedOK, ThreadsOK
\* Only the running thread becomes alertable, and only LockMutex locks.
<1>k. ASSUME \A t \in Thread :
               \/ state'[t] # "locking" \/ alertable'[t] = FALSE
               \/ state'[t] = state[t] /\ (alertable'[t] => alertable[t])
      PROVE  LockingNotAlertable'
  BY <1>0, <1>k DEF LockingNotAlertable
<1>u. ASSUME UNCHANGED <<state, alertable>> PROVE LockingNotAlertable'
  BY <1>k, <1>u
<1>w. ASSUME NEW woken, NEW s, Wake(woken, s), UNCHANGED alertable,
             s # "locking"
      PROVE  LockingNotAlertable'
  BY <1>k, <1>w DEF Wake
<1>a. ASSUME NEW b, SetAlertable(b), UNCHANGED state, state[self] = "alive"
      PROVE  LockingNotAlertable'
  BY <1>0, <1>k, <1>a DEF SetAlertable
<1>1. ASSUME Client PROVE LockingNotAlertable'
  <2>1. ASSUME NEW m \in Mutex, Acquire(m) PROVE LockingNotAlertable'
    BY <1>u, <2>1 DEF Acquire, threadVars
  <2>2. ASSUME NEW m \in Mutex, Release(m) PROVE LockingNotAlertable'
    <3>1. state[self] = "alive"
      BY <2>2, RunnerAlive DEF Release, Calls
    <3> QED  BY <1>w, <2>2, <3>1 DEF Release
  <2>3. ASSUME NEW m \in Mutex, NEW c \in Cond, Wait(m, c) \/ AlertWait(m, c)
        PROVE  LockingNotAlertable'
    <3>1. state[self] = "alive"
      BY <2>3, RunnerAlive DEF Wait, AlertWait, WaitCall, Calls
    <3> QED  BY <1>a, <2>3, <3>1 DEF Wait, AlertWait, WaitCall
  <2>4. ASSUME NEW c \in Cond, Signal(c) \/ Broadcast(c) PROVE LockingNotAlertable'
    <3>1. state[self] = "alive"
      BY <2>4, RunnerAlive DEF Signal, Broadcast, Calls
    <3> QED  BY <1>w, <2>4, <3>1 DEF Signal, Broadcast
  <2>5. ASSUME NEW u \in Thread, Join(u) \/ AlertJoin(u) PROVE LockingNotAlertable'
    <3>1. state[self] = "alive"
      BY <2>5, RunnerAlive DEF Join, AlertJoin, JoinCall, Calls
    <3> QED  BY <1>a, <2>5, <3>1 DEF Join, AlertJoin, JoinCall
  <2>6. ASSUME NEW u \in Thread, Alert(u) PROVE LockingNotAlertable'
    BY <1>u, <2>6 DEF Alert
  <2>7. CASE CallFork \/ Yield \/ TestAlert \/ SuspendOthers \/ ResumeOthers
    BY <1>u, <2>7 DEF CallFork, Yield, TestAlert, SuspendOthers, ResumeOthers, threadVars
  <2>8. CASE Exit
    BY <1>w, <2>8 DEF Exit
  <2>9. CASE Pause \/ AlertPause
    BY <1>0, <1>k, <2>9 DEF Pause, AlertPause, XPause, SetAlertable, Wake
  <2>10. CASE IOWait \/ IOAlertWait
    <3>1. state[self] = "alive"
      BY <2>10, RunnerAlive DEF IOWait, IOAlertWait, IOCall, Calls
    <3> QED  BY <1>a, <2>10, <3>1 DEF IOWait, IOAlertWait, IOCall
  <2> QED  BY <1>1, <2>1, <2>2, <2>3, <2>4, <2>5, <2>6, <2>7, <2>8, <2>9, <2>10 DEF Client
<1>2. ASSUME Library PROVE LockingNotAlertable'
  <2>1. CASE LockMutex
    <3>1. CASE Wake({}, "locking") /\ SetAlertable(FALSE)
      BY <1>0, <1>k, <3>1 DEF Wake, SetAlertable
    <3>2. CASE UNCHANGED <<state, alertable>>
      BY <1>u, <3>2
    <3> QED  BY <2>1, <3>1, <3>2 DEF LockMutex, Die, threadVars
  <2>2. CASE CallXWait
    BY <1>u, <2>2 DEF CallXWait, threadVars
  <2>3. CASE XWait
    BY <1>w, <2>3 DEF XWait
  <2>4. CASE XJoin
    <3>1. CASE Wake({}, "waiting")
      BY <1>w, <2>4, <3>1 DEF XJoin
    <3>2. CASE state' = [state EXCEPT ![cv[self]] = "dead"]
      BY <1>0, <1>k, <2>4, <3>2 DEF XJoin
    <3> QED  BY <2>4, <3>1, <3>2 DEF XJoin
  <2>5. CASE XIOWait
    <3>1. state[self] = "alive"
      BY <2>5, RunnerAlive DEF XIOWait
    <3> QED  BY <1>a, <1>w, <2>5, <3>1 DEF XIOWait
  <2>6. CASE CallInternalYield \/ JoinMain
    BY <1>0, <1>k, <2>6 DEF CallInternalYield, JoinMain, Die, threadVars
  <2>7. ASSUME NEW u \in Thread, Fork(u) PROVE LockingNotAlertable'
    BY <1>0, <1>k, <2>7 DEF Fork
  <2> QED  BY <1>2, <2>1, <2>2, <2>3, <2>4, <2>5, <2>6, <2>7 DEF Library
<1>3. ASSUME Scheduler PROVE LockingNotAlertable'
  <2>1. ASSUME NEW u \in Thread, VisitAlertedWaiter(u) \/ VisitReady(u)
        PROVE  LockingNotAlertable'
    BY <1>0, <1>k, <2>1 DEF VisitAlertedWaiter, VisitReady
  <2>2. ASSUME NEW u \in Thread, VisitBlocked(u) \/ VisitGone(u)
        PROVE  LockingNotAlertable'
    BY <1>u, <2>2 DEF VisitBlocked, VisitGone, threadVars
  <2>3. ASSUME NEW u \in Thread, Transfer(u) PROVE LockingNotAlertable'
    BY <1>0, <1>k, <2>3 DEF Transfer
  <2>4. CASE Rescan \/ Select \/ Deadlock
    BY <1>u, <2>4 DEF Rescan, Select, Deadlock, Die, threadVars
  <2> QED  BY <1>3, <2>1, <2>2, <2>3, <2>4 DEF Scheduler
<1>4. CASE Preempt
  BY <1>u, <1>4 DEF Preempt, threadVars
<1>5. ASSUME NEW u \in Thread, Due(u) PROVE LockingNotAlertable'
  BY <1>u, <1>5 DEF Due
<1>6. CASE Halted \/ UNCHANGED vars
  BY <1>u, <1>6 DEF Halted, vars, threadVars
<1> QED  BY <1>1, <1>2, <1>3, <1>4, <1>5, <1>6 DEF Next

-----------------------------------------------------------------------------
(* The inductive invariant.                                                *)

\* LockInv holds when the program starts.
LEMMA InvInit == Init => LockInv
<1> SUFFICES ASSUME Init PROVE LockInv
  OBVIOUS
<1>1. TypeOK /\ Main \in Thread /\ Nil \notin Thread
  BY TypeInit, MainAssumption, NilAssumption
<1>2. ring # <<>>
  <2>1. ring \in Seq(Thread) /\ ring = <<Main>>
    BY <1>1 DEF Init, TypeOK, SchedOK
  <2> QED  BY <2>1, SMT
<1>3. OperandsOK /\ StatesOK
  BY <1>1 DEF Init, OperandsOK, StatesOK
<1>4. LockedByHolder
  BY <1>1 DEF Init, LockedByHolder
<1>5. QueuesMatchStates
  <2>1. \A t \in Thread : state[t] \notin {"waiting", "locking"}
    BY DEF Init
  <2>2. \A c \in Waitable : condQ[c] = <<>>
    BY DEF Init
  <2>3. \A m \in Mutex : mutexQ[m] = <<>>
    BY DEF Init
  <2> QED  BY <2>1, <2>2, <2>3, EmptyLemma DEF QueuesMatchStates
<1>6. NoLostUnlock
  BY DEF Init, NoLostUnlock
<1>7. LockingNotAlertable
  BY DEF Init, LockingNotAlertable
<1> QED  BY <1>1, <1>2, <1>3, <1>4, <1>5, <1>6, <1>7 DEF LockInv

\* Every step keeps LockInv.
LEMMA InvStep == LockInv /\ [Next]_vars => LockInv'
BY TypeStep, OperandsStep, StatesStep, HolderStep, QueuesStep, UnlockStep,
   LockingStep DEF LockInv

\* LockInv is inductive: it holds in every state of the program.
THEOREM Invariance == Spec => []LockInv
BY InvInit, InvStep, PTL DEF Spec

\* The variables keep their types.
THEOREM TypeCorrect == Spec => []TypeOK
<1>1. LockInv => TypeOK
  BY DEF LockInv
<1> QED  BY <1>1, Invariance, PTL

\* LOCK excludes, for any number of threads and mutexes.
THEOREM MutualExclusion == Spec => []LockedByHolder
<1>1. LockInv => LockedByHolder
  BY DEF LockInv
<1> QED  BY <1>1, Invariance, PTL

\* The waiting lists hold exactly the threads that wait, each once.
THEOREM QueueIntegrity == Spec => []QueuesMatchStates
<1>1. LockInv => QueuesMatchStates
  BY DEF LockInv
<1> QED  BY <1>1, Invariance, PTL

\* A mutex that is free and wanted has a thread on its way to it.
THEOREM UnlocksReachSomebody == Spec => []NoLostUnlock
<1>1. LockInv => NoLostUnlock
  BY DEF LockInv
<1> QED  BY <1>1, Invariance, PTL

\* InternalYield's assertion about locking threads holds.
THEOREM LockersNotAlertable == Spec => []LockingNotAlertable
<1>1. LockInv => LockingNotAlertable
  BY DEF LockInv
<1> QED  BY <1>1, Invariance, PTL

-----------------------------------------------------------------------------
(* The scheduler, InternalYield: it loses no thread, it reports a deadlock *)
(* only when there is one, it keeps a thread that suspended the others     *)
(* running, and it wakes the threads that wait for the causes that the     *)
(* Thread interface names.                                                 *)

-----------------------------------------------------------------------------
(* The ring turned round.                                                  *)

\* q has the elements of s in another order: its k-th is the p[k]-th of s.
Shuffles(s, q, p, r) ==
  /\ \A k \in 1 .. Len(q) :
       p[k] \in 1 .. Len(s) /\ q[k] = s[p[k]] /\ r[p[k]] = k
  /\ \A j \in 1 .. Len(s) : r[j] \in 1 .. Len(q) /\ p[r[j]] = j

\* Then it has the same threads.
LEMMA ShuffleLemma ==
  ASSUME NEW s \in Seq(Thread), NEW q \in Seq(Thread), NEW p, NEW r,
         Shuffles(s, q, p, r)
  PROVE  \A t : /\ OnceIn(s, t) => OnceIn(q, t)
                /\ NotIn(s, t) => NotIn(q, t)
<1>1. DOMAIN s = 1 .. Len(s) /\ DOMAIN q = 1 .. Len(q)
  BY LenProperties
<1>2. ASSUME NEW t, OnceIn(s, t) PROVE OnceIn(q, t)
  <2>1. PICK i \in DOMAIN s : \A j \in DOMAIN s : s[j] = t <=> j = i
    BY <1>2 DEF OnceIn
  <2>2. i \in 1 .. Len(s) /\ \A j \in 1 .. Len(s) : s[j] = t <=> j = i
    BY <1>1, <2>1
  <2>3. r[i] \in 1 .. Len(q) /\ \A k \in 1 .. Len(q) : q[k] = t <=> k = r[i]
    BY <2>2 DEF Shuffles
  <2>4. r[i] \in DOMAIN q /\ \A k \in DOMAIN q : q[k] = t <=> k = r[i]
    BY <1>1, <2>3
  <2> QED  BY <2>4 DEF OnceIn
<1>3. ASSUME NEW t, NotIn(s, t) PROVE NotIn(q, t)
  BY <1>1, <1>3 DEF NotIn, Shuffles
<1> QED  BY <1>2, <1>3

\* Turning the ring round keeps who is in it, and makes the i-th thread last.
LEMMA RotateKeeps ==
  ASSUME NEW s \in Seq(Thread), NEW i \in 1 .. Len(s)
  PROVE  /\ RotateTo(s, i) \in Seq(Thread) /\ Len(RotateTo(s, i)) = Len(s)
         /\ RotateTo(s, i)[Len(s)] = s[i]
         /\ \A t : /\ OnceIn(s, t) => OnceIn(RotateTo(s, i), t)
                   /\ NotIn(s, t) => NotIn(RotateTo(s, i), t)
<1> DEFINE n == Len(s)
           a == SubSeq(s, i + 1, n)
           b == SubSeq(s, 1, i)
           q == a \o b
<1>0. n \in Nat /\ i \in Nat /\ i >= 1 /\ i <= n /\ \A k \in 1 .. n : s[k] \in Thread
  BY LenProperties, ElementOfSeq
<1>1. a \in Seq(Thread) /\ Len(a) = n - i /\ \A k \in 1 .. n - i : a[k] = s[i + k]
  <2>1. \A k \in i + 1 .. n : s[k] \in Thread
    BY <1>0, SMT
  <2> QED  BY <1>0, <2>1, SubSeqProperties, SMT
<1>2. b \in Seq(Thread) /\ Len(b) = i /\ \A k \in 1 .. i : b[k] = s[k]
  <2>1. \A k \in 1 .. i : s[k] \in Thread
    BY <1>0, SMT
  <2> QED  BY <1>0, <2>1, SubSeqProperties, SMT
<1> HIDE DEF a, b
<1>3. /\ q \in Seq(Thread) /\ Len(q) = n
      /\ \A k \in 1 .. n : q[k] = IF k <= n - i THEN a[k] ELSE b[k - (n - i)]
  <2>1. /\ q \in Seq(Thread) /\ Len(q) = Len(a) + Len(b)
        /\ \A k \in 1 .. Len(a) + Len(b) :
             q[k] = IF k <= Len(a) THEN a[k] ELSE b[k - Len(a)]
    BY <1>1, <1>2, ConcatProperties
  <2>2. Len(a) + Len(b) = n
    BY <1>0, <1>1, <1>2
  <2> QED  BY <1>1, <2>1, <2>2
<1> HIDE DEF q
<1>4. \A k \in 1 .. n : q[k] = IF k <= n - i THEN s[i + k] ELSE s[k - (n - i)]
  <2> SUFFICES ASSUME NEW k \in 1 .. n
               PROVE  q[k] = IF k <= n - i THEN s[i + k] ELSE s[k - (n - i)]
    OBVIOUS
  <2>1. q[k] = IF k <= n - i THEN a[k] ELSE b[k - (n - i)]
    BY <1>3
  <2>2. CASE k <= n - i
    <3>1. k \in 1 .. n - i
      BY <1>0, <2>2
    <3> QED  BY <1>1, <2>1, <2>2, <3>1
  <2>3. CASE ~(k <= n - i)
    <3>1. k - (n - i) \in 1 .. i
      BY <1>0, <2>3
    <3> QED  BY <1>2, <2>1, <2>3, <3>1
  <2> QED  BY <2>2, <2>3
<1> DEFINE p == [k \in 1 .. n |-> IF k <= n - i THEN i + k ELSE k - (n - i)]
           r == [j \in 1 .. n |-> IF j > i THEN j - i ELSE j + (n - i)]
<1>5. \A k \in 1 .. Len(q) : p[k] \in 1 .. Len(s) /\ q[k] = s[p[k]] /\ r[p[k]] = k
  BY <1>0, <1>3, <1>4, SMT
<1>6. \A j \in 1 .. Len(s) : r[j] \in 1 .. Len(q) /\ p[r[j]] = j
  BY <1>0, <1>3, SMT
<1> HIDE DEF p, r
<1>s. Shuffles(s, q, p, r)
  BY <1>5, <1>6 DEF Shuffles
<1>7. \A t : /\ OnceIn(s, t) => OnceIn(q, t)
             /\ NotIn(s, t) => NotIn(q, t)
  BY <1>3, <1>s, ShuffleLemma
<1>8. q[n] = s[i]
  BY <1>0, <1>4, SMT
<1>9. q = RotateTo(s, i)
  BY DEF q, a, b, RotateTo
<1> QED  BY <1>3, <1>7, <1>8, <1>9

\* VisitGone removes the first thread of a ring with more than one, and lets
\* the walk go on from the last.
LEMMA DropFirst ==
  ASSUME NEW s \in Seq(Thread), 2 \in 1 .. Len(s)
  PROVE  /\ <<Last(s)>> \o Front(Tail(s)) \in Seq(Thread)
         /\ \A t \in Thread \ {s[1]} :
              /\ OnceIn(s, t) => OnceIn(<<Last(s)>> \o Front(Tail(s)), t)
              /\ NotIn(s, t) => NotIn(<<Last(s)>> \o Front(Tail(s)), t)
<1> DEFINE n == Len(s)
           u == Tail(s)
           f == Front(u)
           q == <<Last(s)>> \o f
<1>0. n \in Nat /\ n >= 2 /\ \A k \in 1 .. n : s[k] \in Thread
  BY LenProperties, ElementOfSeq
<1>1. s # <<>> /\ 1 \in 1 .. n
  BY <1>0, EmptySeq, SMT
<1>2. u \in Seq(Thread) /\ Len(u) = n - 1 /\ \A k \in 1 .. n - 1 : u[k] = s[k + 1]
  BY <1>0, <1>1, HeadTailProperties, SMT
<1>3. \A t \in Thread \ {s[1]} :
        /\ OnceIn(s, t) => OnceIn(u, t)
        /\ NotIn(s, t) => NotIn(u, t)
  BY <1>1, EndsLemma, RemoveLemma
<1>4. Last(s) = s[n] /\ Last(s) \in Thread
  BY <1>1, EndsLemma
<1> HIDE DEF u
<1>5. f \in Seq(Thread) /\ Len(f) = n - 2 /\ \A k \in 1 .. n - 2 : f[k] = u[k]
  <2>1. \A k \in 1 .. n - 2 : u[k] \in Thread
    BY <1>0, <1>2, SMT
  <2>2. f = SubSeq(u, 1, n - 2)
    <3>1. n - 1 - 1 = n - 2
      BY <1>0, SMT
    <3> QED  BY <1>2, <3>1 DEF Front
  <2>3. n - 2 \in Int /\ n - 2 \in Nat /\ 1 \in Int
    BY <1>0, SMT
  <2>4. /\ SubSeq(u, 1, n - 2) \in Seq(Thread)
        /\ Len(SubSeq(u, 1, n - 2)) = IF 1 <= n - 2 THEN n - 2 - 1 + 1 ELSE 0
        /\ \A k \in 1 .. n - 2 - 1 + 1 : SubSeq(u, 1, n - 2)[k] = u[1 + k - 1]
    BY <2>1, <2>3, SubSeqProperties
  <2>5. /\ n - 2 - 1 + 1 = n - 2
        /\ (IF 1 <= n - 2 THEN n - 2 - 1 + 1 ELSE 0) = n - 2
    <3>1. \A m \in Nat : m >= 2 =>
            m - 2 - 1 + 1 = m - 2 /\ (IF 1 <= m - 2 THEN m - 2 - 1 + 1 ELSE 0) = m - 2
      OBVIOUS
    <3> QED  BY <1>0, <3>1
  <2>6. \A k \in 1 .. n - 2 : 1 + k - 1 = k
    OBVIOUS
  <2> QED  BY <2>2, <2>4, <2>5, <2>6
<1> HIDE DEF f
<1>6. /\ <<Last(s)>> \in Seq(Thread) /\ Len(<<Last(s)>>) = 1
      /\ <<Last(s)>>[1] = s[n]
  BY <1>4
<1>7. /\ q \in Seq(Thread) /\ Len(q) = n - 1
      /\ q[1] = s[n]
      /\ \A k \in 2 .. n - 1 : q[k] = f[k - 1]
  BY <1>0, <1>5, <1>6, ConcatProperties, SMT
<1> HIDE DEF q
<1>8. q[1] = u[n - 1] /\ \A k \in 2 .. n - 1 : q[k] = u[k - 1]
  BY <1>0, <1>2, <1>5, <1>7, SMT
<1> DEFINE p == [k \in 1 .. n - 1 |-> IF k = 1 THEN n - 1 ELSE k - 1]
           r == [j \in 1 .. n - 1 |-> IF j = n - 1 THEN 1 ELSE j + 1]
<1>9. \A k \in 1 .. Len(q) : p[k] \in 1 .. Len(u) /\ q[k] = u[p[k]] /\ r[p[k]] = k
  BY <1>0, <1>2, <1>7, <1>8, SMT
<1>10. \A j \in 1 .. Len(u) : r[j] \in 1 .. Len(q) /\ p[r[j]] = j
  BY <1>0, <1>2, <1>7, SMT
<1> HIDE DEF p, r
<1>s. Shuffles(u, q, p, r)
  BY <1>9, <1>10 DEF Shuffles
<1>11. \A t : /\ OnceIn(u, t) => OnceIn(q, t)
              /\ NotIn(u, t) => NotIn(q, t)
  BY <1>2, <1>7, <1>s, ShuffleLemma
<1>12. q = <<Last(s)>> \o Front(Tail(s))
  BY DEF q, f, u
<1> QED  BY <1>3, <1>7, <1>11, <1>12
-----------------------------------------------------------------------------
(* How the state of a thread may change.                                   *)

Live(t) == state[t] \notin {"none", "dying", "dead"}

\* A thread is born by Fork, wakes and waits, ends itself, and is joined.
Moves(t) ==
  \/ state'[t] = state[t]
  \/ Fork(t)
  \/ Gone(t) /\ state'[t] = "dead" /\ t # self
  \/ Live(t) /\ state'[t] \notin {"none", "dying", "dead"}
  \/ Live(t) /\ t = self /\ t # Main /\ state'[t] = "dying"

\* The other steps leave T.state alone.
LEMMA StateFrame ==
  ASSUME [Next]_vars
  PROVE  \/ UNCHANGED state
         \/ \E m \in Mutex : Release(m)
         \/ \E c \in Cond : Signal(c) \/ Broadcast(c)
         \/ \E t \in Thread : Fork(t) \/ VisitAlertedWaiter(t) \/ VisitReady(t)
         \/ Exit \/ Pause \/ AlertPause
         \/ LockMutex \/ XWait \/ XJoin \/ XIOWait
<1>1. CASE Client
  BY <1>1 DEF Client, Acquire, Wait, AlertWait, WaitCall, Join, AlertJoin,
     JoinCall, Alert, CallFork, TestAlert, Yield, IOWait, IOAlertWait, IOCall,
     SuspendOthers, ResumeOthers, threadVars
<1>2. CASE Library
  BY <1>2 DEF Library, CallXWait, JoinMain, CallInternalYield, Die, threadVars
<1>3. CASE Scheduler
  <2>1. ASSUME NEW t \in Thread, VisitBlocked(t) \/ VisitGone(t) \/ Transfer(t)
        PROVE  UNCHANGED state
    BY <2>1 DEF VisitBlocked, VisitGone, Transfer, threadVars
  <2>2. ASSUME Rescan \/ Select \/ Deadlock PROVE UNCHANGED state
    BY <2>2 DEF Rescan, Select, Deadlock, Die, threadVars
  <2> QED  BY <1>3, <2>1, <2>2 DEF Scheduler
<1>4. CASE Preempt
  BY <1>4 DEF Preempt, threadVars
<1>5. ASSUME NEW t \in Thread, Due(t) PROVE UNCHANGED state
  BY <1>5 DEF Due
<1>6. CASE Halted \/ UNCHANGED vars
  BY <1>6 DEF Halted, vars, threadVars
<1> QED  BY <1>1, <1>2, <1>3, <1>4, <1>5, <1>6 DEF Next

\* Who is in the list of a condition waits for it.
LEMMA ListedWaits ==
  ASSUME LockInv, NEW c \in Waitable, NEW t \in ToSet(condQ[c])
  PROVE  t \in Thread /\ state[t] = "waiting" /\ cv[t] = c
<1>1. condQ[c] \in Seq(Thread)
  BY DEF LockInv, TypeOK, LocksOK
<1>2. PICK i \in DOMAIN condQ[c] : condQ[c][i] = t
  BY DEF ToSet
<1>3. t \in Thread
  BY <1>1, <1>2, LenProperties, ElementOfSeq
<1>4. ~NotIn(condQ[c], t)
  BY <1>2 DEF NotIn
<1> QED  BY <1>3, <1>4 DEF LockInv, QueuesMatchStates

\* self takes a new state and wakes threads that are alive.
LEMMA WakeMoves ==
  ASSUME LockInv, NEW woken, NEW s, Wake(woken, s), Live(self),
         \/ s \notin {"none", "dying", "dead"}
         \/ s = "dying" /\ self # Main,
         \A t \in Thread : t \in woken => Live(t),
         NEW t \in Thread
  PROVE  Moves(t)
<1>1. self \in Thread
  BY DEF LockInv, TypeOK, SchedOK
<1>2. state'[t] = IF t \in woken THEN "alive"
                  ELSE IF t = self THEN s ELSE state[t]
  BY DEF Wake
<1> QED  BY <1>1, <1>2 DEF Moves, Live

\* Every step changes the state of a thread in one of those ways.
LEMMA StateMoves ==
  ASSUME LockInv, [Next]_vars, NEW t \in Thread
  PROVE  Moves(t)
<1>0. self \in Thread /\ state \in [Thread -> States]
  BY DEF LockInv, TypeOK, SchedOK, ThreadsOK
<1>r. ASSUME NEW l \in {"run", "fork", "lock", "alertWait", "enter", "join", "io"},
             At(l)
      PROVE  Live(self) /\ state[self] = "alive"
  BY <1>r, RunnerAlive DEF Live
<1>c. ASSUME NEW op, Calls(op) PROVE Live(self) /\ state[self] = "alive"
  BY <1>c, <1>r DEF Calls
<1>w. ASSUME NEW u \in Thread, state' = [state EXCEPT ![u] = "alive"], Live(u)
      PROVE  Moves(t)
  BY <1>0, <1>w DEF Moves, Live
<1>l. ASSUME NEW m \in Mutex, XRelease(m)
      PROVE  \A u \in Thread : u \in LongestWaiter(m) => Live(u)
  BY <1>l, LongestWaiterLemma DEF Live
<1>e. \A u \in Thread : u \in {} => Live(u)
  OBVIOUS
<1>1. CASE UNCHANGED state
  BY <1>1 DEF Moves
<1>2. ASSUME NEW m \in Mutex, Release(m) PROVE Moves(t)
  <2>1. XRelease(m) /\ Wake(LongestWaiter(m), state[self]) /\ Calls("Release")
    BY <1>2 DEF Release
  <2> QED  BY <1>c, <1>l, <2>1, WakeMoves
<1>3. ASSUME NEW c \in Cond, Signal(c) PROVE Moves(t)
  <2>1. condQ[c] # <<>> /\ Wake({Head(condQ[c])}, state[self]) /\ Calls("Signal")
    BY <1>3 DEF Signal
  <2>2. c \in Waitable /\ condQ[c] \in Seq(Thread)
    BY DEF Waitable, LockInv, TypeOK, LocksOK
  <2>3. Head(condQ[c]) \in ToSet(condQ[c])
    <3>1. 1 \in 1 .. Len(condQ[c]) /\ Head(condQ[c]) = condQ[c][1]
      BY <2>1, <2>2, EndsLemma
    <3>2. 1 \in DOMAIN condQ[c]
      BY <2>2, <3>1, LenProperties
    <3> QED  BY <3>1, <3>2 DEF ToSet
  <2>4. Live(Head(condQ[c]))
    BY <2>2, <2>3, ListedWaits DEF Live
  <2> QED  BY <1>c, <2>1, <2>4, WakeMoves
<1>4. ASSUME NEW c \in Cond, Broadcast(c) PROVE Moves(t)
  <2>1. Wake(ToSet(condQ[c]), state[self]) /\ Calls("Broadcast")
    BY <1>4 DEF Broadcast
  <2>2. c \in Waitable
    BY DEF Waitable
  <2>3. \A u \in Thread : u \in ToSet(condQ[c]) => Live(u)
    BY <2>2, ListedWaits DEF Live
  <2> QED  BY <1>c, <2>1, <2>3, WakeMoves
<1>5. ASSUME NEW u \in Thread, Fork(u) PROVE Moves(t)
  BY <1>0, <1>5 DEF Fork, Moves
<1>6. ASSUME NEW u \in Thread, VisitAlertedWaiter(u) \/ VisitReady(u)
      PROVE  Moves(t)
  BY <1>w, <1>6 DEF VisitAlertedWaiter, VisitReady, Live
<1>7. CASE Exit
  <2>1. Wake(ToSet(condQ[self]), "dying") /\ Calls("Exit") /\ self # Main
    BY <1>7 DEF Exit
  <2>2. self \in Waitable
    BY <1>0 DEF Waitable
  <2>3. \A u \in Thread : u \in ToSet(condQ[self]) => Live(u)
    BY <2>2, ListedWaits DEF Live
  <2> QED  BY <1>c, <2>1, <2>3, WakeMoves
<1>8. CASE Pause \/ AlertPause
  <2>1. Wake({}, "pausing") /\ \E op : Calls(op)
    BY <1>8 DEF Pause, AlertPause, XPause
  <2> QED  BY <1>c, <1>e, <2>1, WakeMoves
<1>9. CASE LockMutex
  <2>1. Live(self)
    BY <1>9, <1>r DEF LockMutex
  <2>2. UNCHANGED state \/ Wake({}, "locking")
    BY <1>9 DEF LockMutex, Die, threadVars
  <2> QED  BY <1>1, <1>e, <2>1, <2>2, WakeMoves
<1>10. CASE XWait
  <2>1. Live(self) /\ Wake(LongestWaiter(mu[self]), "waiting") /\ XRelease(mu[self])
    BY <1>10, <1>r DEF XWait
  <2>2. mu[self] \in Mutex
    BY <1>0, <1>10 DEF XWait, At, LockInv, OperandsOK
  <2> QED  BY <1>l, <2>1, <2>2, WakeMoves
<1>11. CASE XJoin
  <2>1. Live(self) /\ state[self] = "alive" /\ pc[self] = "join"
    BY <1>11, <1>r DEF XJoin, At
  <2>2. cv[self] \in Thread
    BY <1>0, <2>1 DEF LockInv, OperandsOK
  <2>3. CASE Gone(cv[self]) /\ state' = [state EXCEPT ![cv[self]] = "dead"]
    <3>1. cv[self] # self
      BY <2>1, <2>3 DEF Gone
    <3> QED  BY <1>0, <2>2, <2>3, <3>1 DEF Moves
  <2>4. CASE Wake({}, "waiting")
    BY <1>e, <2>1, <2>4, WakeMoves
  <2> QED  BY <1>11, <2>3, <2>4 DEF XJoin
<1>12. CASE XIOWait
  <2>1. Live(self)
    BY <1>12, <1>r DEF XIOWait
  <2>2. UNCHANGED state \/ Wake({}, "blocking")
    BY <1>12 DEF XIOWait
  <2> QED  BY <1>1, <1>e, <2>1, <2>2, WakeMoves
<1> QED  BY StateFrame, <1>1, <1>2, <1>3, <1>4, <1>5, <1>6, <1>7, <1>8, <1>9,
            <1>10, <1>11, <1>12
-----------------------------------------------------------------------------
(* The scheduler loses no thread.                                          *)

\* RingHasAll, as what it says of a ring q.
HasAll(q) ==
  \A t \in Thread : /\ Live(t) => OnceIn(q, t)
                    /\ state[t] = "none" => NotIn(q, t)

SelfLast == ~scan.on => state[self] # "dead" /\ ring[Len(ring)] = self

LEMMA RingParts == RingHasAll <=> HasAll(ring) /\ SelfLast
BY MainAssumption DEF RingHasAll, HasAll, SelfLast, Live

\* A ring that changes has the threads that it had, but for those that end.
LEMMA KeepAll ==
  ASSUME HasAll(ring), UNCHANGED state, ring' \in Seq(Thread),
         \A t \in Thread : Live(t) \/ state[t] = "none" =>
           /\ OnceIn(ring, t) => OnceIn(ring', t)
           /\ NotIn(ring, t) => NotIn(ring', t)
  PROVE  HasAll(ring)'
BY DEF HasAll, Live

\* The walk is never at a thread that is alone in the ring and gone.
LEMMA MainElsewhere ==
  ASSUME RingInv, NEW i \in 1 .. Len(ring), Gone(ring[i])
  PROVE  2 \in 1 .. Len(ring)
<1>1. ring \in Seq(Thread) /\ Len(ring) \in Nat /\ DOMAIN ring = 1 .. Len(ring)
  BY LenProperties DEF RingInv, LockInv, TypeOK, SchedOK
<1>2. Main \in Thread /\ Live(Main)
  BY MainAssumption DEF RingInv, MainStays, Gone, Live
<1>3. PICK j \in DOMAIN ring : ring[j] = Main
  BY <1>2 DEF RingInv, RingHasAll, OnceIn, Live
<1>4. j # i
  BY <1>2, <1>3 DEF Gone, Live
<1> QED  BY <1>1, <1>3, <1>4, SMT

\* Every step keeps the ring complete, and self last in it.
LEMMA RingStep ==
  ASSUME RingInv, [Next]_vars
  PROVE  RingHasAll'
<1>0. /\ LockInv /\ HasAll(ring) /\ SelfLast
      /\ self \in Thread /\ ring \in Seq(Thread) /\ ring # <<>>
      /\ scan \in ScanType /\ state \in [Thread -> States]
      /\ Len(ring) \in Nat /\ Len(ring) >= 1 /\ Len(ring) \in 1 .. Len(ring)
      /\ 1 \in 1 .. Len(ring) /\ DOMAIN ring = 1 .. Len(ring)
  BY RingParts, LenProperties, EmptySeq, SMT
     DEF RingInv, LockInv, TypeOK, SchedOK, ThreadsOK
<1>p. ASSUME HasAll(ring)', SelfLast' PROVE RingHasAll'
  BY <1>p, RingParts, PTL
<1>1. ASSUME NEW t \in Thread, Fork(t) PROVE RingHasAll'
  <2>1. /\ ring' = <<t>> \o ring /\ state' = [state EXCEPT ![t] = "alive"]
        /\ state[t] = "none" /\ UNCHANGED <<self, scan>>
    BY <1>1 DEF Fork, Unborn
  <2>2. /\ OnceIn(ring', t)
        /\ \A u \in Thread \ {t} :
             /\ OnceIn(ring, u) => OnceIn(ring', u)
             /\ NotIn(ring, u) => NotIn(ring', u)
    BY <1>0, <2>1, PushLemma DEF HasAll
  <2>3. HasAll(ring)'
    BY <1>0, <2>1, <2>2 DEF HasAll, Live
  <2>4. Len(ring') = Len(ring) + 1 /\ ring'[Len(ring) + 1] = ring[Len(ring)]
    <3>1. /\ <<t>> \in Seq(Thread) /\ Len(<<t>>) = 1
      OBVIOUS
    <3>2. /\ Len(ring') = 1 + Len(ring)
          /\ \A k \in 1 .. 1 + Len(ring) :
               ring'[k] = IF k <= 1 THEN <<t>>[k] ELSE ring[k - 1]
      BY <1>0, <2>1, <3>1, ConcatProperties
    <3>3. /\ Len(ring) + 1 \in 1 .. 1 + Len(ring) /\ ~(Len(ring) + 1 <= 1)
          /\ Len(ring) + 1 - 1 = Len(ring) /\ 1 + Len(ring) = Len(ring) + 1
      BY <1>0, SMT
    <3> QED  BY <3>2, <3>3
  <2>5. SelfLast'
    BY <1>0, <2>1, <2>4 DEF SelfLast
  <2> QED  BY <1>p, <2>3, <2>5
<1>2. ASSUME UNCHANGED <<self, ring>>, \A t \in Thread : ~Fork(t),
             scan'.on \/ UNCHANGED scan
      PROVE  RingHasAll'
  <2>1. \A t \in Thread : Moves(t)
    BY <1>0, StateMoves
  <2>2. HasAll(ring)'
    <3>1. \A t \in Thread : /\ Live(t)' => Live(t)
                            /\ state'[t] = "none" => state[t] = "none"
      BY <1>2, <2>1 DEF Moves, Live, Gone
    <3> QED  BY <1>0, <1>2, <3>1 DEF HasAll
  <2>3. state[self] # "dead" => state'[self] # "dead"
    BY <1>0, <1>2, <2>1 DEF Moves
  <2>4. SelfLast'
    BY <1>0, <1>2, <2>3 DEF SelfLast
  <2> QED  BY <1>p, <2>2, <2>4
<1>3. ASSUME NEW t \in Thread, VisitGone(t) PROVE RingHasAll'
  <2>1. /\ scan.on /\ scan.at \in 1 .. Len(ring) /\ t = ring[scan.at] /\ Gone(t)
        /\ UNCHANGED <<self, state>>
    BY <1>3 DEF VisitGone, Visits, threadVars
  <2>2. scan'.on
    BY <1>0, <1>3, <2>1 DEF VisitGone, ScanType
  <2>3. ring' \in Seq(Thread)
    BY <1>0, SchedStep DEF SchedOK
  <2>4. \A u \in Thread \ {t} : /\ OnceIn(ring, u) => OnceIn(ring', u)
                                /\ NotIn(ring, u) => NotIn(ring', u)
    <3>1. CASE scan.at = 1
      <4>1. 2 \in 1 .. Len(ring)
        BY <2>1, MainElsewhere
      <4> QED  BY <1>0, <1>3, <2>1, <3>1, <4>1, DropFirst DEF VisitGone
    <3>2. CASE scan.at # 1
      BY <1>0, <1>3, <2>1, <3>2, RemoveLemma DEF VisitGone
    <3> QED  BY <3>1, <3>2
  <2>5. HasAll(ring)'
    <3>1. ~Live(t) /\ state[t] # "none"
      BY <2>1 DEF Gone, Live
    <3> QED  BY <1>0, <2>1, <2>3, <2>4, <3>1, KeepAll
  <2>6. SelfLast'
    BY <2>2 DEF SelfLast
  <2> QED  BY <1>p, <2>5, <2>6
<1>4. ASSUME NEW t \in Thread, Transfer(t) PROVE RingHasAll'
  <2>1. /\ self' = t /\ t = Cursor /\ state[t] = "alive" /\ UNCHANGED state
        /\ ring' = RotateTo(ring, CursorIndex)
    BY <1>4 DEF Transfer, CanTransfer
  <2>2. CursorIndex \in 1 .. Len(ring) /\ t = ring[CursorIndex]
    BY <1>0, <2>1 DEF CursorIndex, Cursor
  <2>3. HasAll(ring)'
    BY <1>0, <2>1, <2>2, RotateKeeps, KeepAll
  <2>4. SelfLast'
    BY <1>0, <2>1, <2>2, RotateKeeps DEF SelfLast
  <2> QED  BY <1>p, <2>3, <2>4
<1>5. CASE UNCHANGED schedVars /\ \A t \in Thread : ~Fork(t)
  BY <1>2, <1>5 DEF schedVars
<1>6. CASE /\ CallInternalYield \/ Preempt \/ Rescan \/ Select
           /\ \A t \in Thread : ~Fork(t)
  <2>1. UNCHANGED <<self, ring>>
    BY <1>6 DEF CallInternalYield, Preempt, Rescan, Select, Die, schedVars
  <2>2. scan' \in {scan, FirstPass, [FirstPass EXCEPT !.scanned = TRUE]}
    BY <1>6 DEF CallInternalYield, Preempt, Rescan, Select, Die, schedVars
  <2>3. scan'.on \/ UNCHANGED scan
    BY <2>2 DEF FirstPass, NoScan
  <2> QED  BY <1>2, <1>6, <2>1, <2>3
<1>7. ASSUME NEW t \in Thread, VisitBlocked(t), \A u \in Thread : ~Fork(u)
      PROVE  RingHasAll'
  <2>1. UNCHANGED <<self, ring>>
    BY <1>7 DEF VisitBlocked
  <2>2. scan'.on
    BY <1>0, <1>7 DEF VisitBlocked, Visits, ScanType
  <2> QED  BY <1>2, <1>7, <2>1, <2>2
<1> QED  BY SchedFrame, <1>1, <1>3, <1>4, <1>5, <1>6, <1>7

\* The thread of the main program never ends.
LEMMA MainStep ==
  ASSUME LockInv, MainStays, [Next]_vars
  PROVE  MainStays'
<1>1. Main \in Thread /\ Live(Main)
  BY MainAssumption DEF MainStays, Gone, Live
<1>2. Moves(Main)
  BY <1>1, StateMoves
<1>3. Fork(Main) => state'[Main] = "alive"
  BY <1>1 DEF Fork, LockInv, TypeOK, ThreadsOK
<1>4. Live(Main)'
  BY <1>1, <1>2, <1>3 DEF Moves, Live, Gone
<1> QED  BY <1>4 DEF MainStays, Gone, Live

\* The ring that Init leaves holds the main thread alone.
LEMMA RingInit == Init => RingHasAll /\ MainStays
<1> SUFFICES ASSUME Init PROVE RingHasAll /\ MainStays
  OBVIOUS
<1>1. ring = <<Main>> /\ self = Main /\ Main \in Thread /\ Len(ring) = 1
  BY MainAssumption DEF Init
<1>2. DOMAIN ring = {1} /\ ring[1] = Main
  BY <1>1
<1>3. \A t \in Thread : state[t] = IF t = Main THEN "alive" ELSE "none"
  BY DEF Init
<1>4. OnceIn(ring, Main) /\ \A t \in Thread \ {Main} : NotIn(ring, t)
  BY <1>2 DEF OnceIn, NotIn
<1> QED  BY <1>1, <1>2, <1>3, <1>4 DEF RingHasAll, MainStays, Gone

LEMMA RingInvStep == RingInv /\ [Next]_vars => RingInv'
BY RingStep, MainStep, InvStep DEF RingInv

\* The scheduler loses no thread, however many there are: each one that can
\* run or be woken is in the ring, once, and the running one is its last.
THEOREM RingCorrect == Spec => []RingHasAll
<1>1. Init => RingInv
  BY InvInit, RingInit DEF RingInv
<1>2. RingInv => RingHasAll
  BY DEF RingInv
<1> QED  BY <1>1, <1>2, RingInvStep, PTL DEF Spec
-----------------------------------------------------------------------------
(* A deadlock is reported only when there is one.                          *)

\* While InternalYield walks, nothing but the walk and the clock moves.
LEMMA WalkFrame ==
  ASSUME [Next]_vars, scan.on \/ fatal # "none"
  PROVE  \/ UNCHANGED vars
         \/ fatal = "none" /\ (Scheduler \/ \E t \in Thread : Due(t))
<1>1. ASSUME NEW l, At(l) PROVE FALSE
  BY <1>1 DEF At
<1>2. ASSUME NEW op, Calls(op) PROVE FALSE
  BY <1>1, <1>2 DEF Calls
<1>3. ~Client
  BY <1>2 DEF Client, Acquire, Release, Wait, AlertWait, WaitCall, Signal,
     Broadcast, Join, AlertJoin, JoinCall, Alert, CallFork, Exit, TestAlert,
     Yield, Pause, AlertPause, XPause, IOWait, IOAlertWait, IOCall,
     SuspendOthers, ResumeOthers
<1>4. ~Library
  BY <1>1 DEF Library, LockMutex, CallXWait, XWait, XJoin, JoinMain, XIOWait,
     CallInternalYield, Fork
<1>5. ~Preempt
  BY DEF Preempt
<1>6. Scheduler => fatal = "none"
  <2>1. ASSUME NEW t \in Thread,
               \/ VisitAlertedWaiter(t) \/ VisitReady(t) \/ VisitBlocked(t)
               \/ VisitGone(t) \/ Transfer(t)
        PROVE  fatal = "none"
    BY <2>1 DEF VisitAlertedWaiter, VisitReady, VisitBlocked, VisitGone,
       Transfer, Visits, LoopEnded
  <2>2. ASSUME Rescan \/ Select \/ Deadlock PROVE fatal = "none"
    BY <2>2 DEF Rescan, Select, Deadlock, LoopEnded
  <2> QED  BY <2>1, <2>2 DEF Scheduler
<1>7. (\E t \in Thread : Due(t)) => fatal = "none"
  BY DEF Due
<1> QED  BY <1>3, <1>4, <1>5, <1>6, <1>7 DEF Next, Halted

\* A walk that begins has passed nobody.
LEMMA FreshWalk ==
  ASSUME scan' = FirstPass \/ ~scan'.on
  PROVE  WalkOK'
BY DEF WalkOK, FirstPass, NoScan

\* What WalkOK says when its hypotheses hold.
WalkFacts ==
  /\ \A i \in 1 .. Len(ring) : i < scan.at => Passed(ring[i])
  /\ scan.scanned =>
       \E i \in 1 .. Len(ring) : i >= scan.at /\ StopsAt(ring[i])

\* A thread that can run or be woken is in the ring at one place.
LEMMA RingPlace ==
  ASSUME RingInv, NEW t \in Thread, Live(t)
  PROVE  \E i \in 1 .. Len(ring) :
           /\ ring[i] = t
           /\ \A j \in 1 .. Len(ring) : ring[j] = t => j = i
<1>1. DOMAIN ring = 1 .. Len(ring)
  BY LenProperties DEF RingInv, LockInv, TypeOK, SchedOK
<1> QED  BY <1>1 DEF RingInv, RingHasAll, OnceIn, Live

\* The threads of the ring are threads.
LEMMA RingThreads ==
  ASSUME RingInv
  PROVE  /\ Len(ring) \in Nat /\ 1 \in 1 .. Len(ring)
         /\ \A i \in 1 .. Len(ring) : ring[i] \in Thread
         /\ scan \in ScanType /\ scan.at \in Nat \ {0}
         /\ state \in [Thread -> States]
<1>1. ring \in Seq(Thread) /\ ring # <<>> /\ scan \in ScanType
  BY DEF RingInv, LockInv, TypeOK, SchedOK
<1>2. scan.at \in Nat \ {0} /\ state \in [Thread -> States]
  BY <1>1 DEF ScanType, RingInv, LockInv, TypeOK, ThreadsOK
<1> QED  BY <1>1, <1>2, LenProperties, ElementOfSeq, EmptySeq, SMT

\* The walk wakes the thread it is at, and stays there.
LEMMA WakeKeepsWalk ==
  ASSUME RingInv, WalkFacts, NEW t \in Thread, Visits(t), Live(t),
         state' = [state EXCEPT ![t] = "alive"],
         UNCHANGED <<ring, scan, alertable, alertPending, due>>
  PROVE  WalkFacts'
<1>0. /\ \A i \in 1 .. Len(ring) : ring[i] \in Thread
      /\ state \in [Thread -> States] /\ Len(ring) \in Nat
      /\ scan.at \in 1 .. Len(ring) /\ t = ring[scan.at]
  BY RingThreads DEF Visits
<1>1. \A i \in 1 .. Len(ring) : i < scan.at => ring[i] # t
  BY <1>0, RingPlace, SMT
<1>2. ASSUME NEW i \in 1 .. Len(ring), i < scan.at
      PROVE  Passed(ring[i])'
  <2>1. state'[ring[i]] = state[ring[i]] /\ Passed(ring[i])
    BY <1>0, <1>1, <1>2 DEF WalkFacts
  <2> QED  BY <2>1 DEF Passed, Alerted
<1>3. ASSUME NEW i \in 1 .. Len(ring), StopsAt(ring[i])
      PROVE  StopsAt(ring[i])'
  BY <1>0, <1>3 DEF StopsAt
<1> QED  BY <1>2, <1>3 DEF WalkFacts

\* The walk passes the thread it is at.
LEMMA PassKeepsWalk ==
  ASSUME RingInv, WalkFacts, NEW t \in Thread, VisitBlocked(t)
  PROVE  WalkFacts'
<1>0. /\ \A i \in 1 .. Len(ring) : ring[i] \in Thread
      /\ Len(ring) \in Nat /\ scan.at \in Nat
      /\ scan.at \in 1 .. Len(ring) /\ t = ring[scan.at]
      /\ UNCHANGED <<ring, state, alertable, alertPending, due>>
      /\ \/ state[t] = "locking"
         \/ /\ state[t] \in {"waiting", "pausing", "blocking"}
            /\ ~Alerted(t) /\ ~Ready(t)
  BY RingThreads DEF VisitBlocked, Visits, threadVars
<1>1. /\ scan'.at = scan.at + 1 /\ scan'.scanned = scan.scanned
      /\ scan'.pausing = (scan.pausing \/ state[t] = "pausing")
      /\ scan'.blocking = (scan.blocking \/ (state[t] = "blocking" /\ ~scan.scanned))
  BY RingThreads DEF VisitBlocked, ScanType
<1>2. ASSUME NEW i \in 1 .. Len(ring), i < scan.at + 1
      PROVE  Passed(ring[i])'
  <2>1. CASE i = scan.at
    BY <1>0, <1>1, <2>1 DEF Passed, Alerted, Ready
  <2>2. CASE i < scan.at
    <3>1. Passed(ring[i])
      BY <2>2 DEF WalkFacts
    <3> QED  BY <1>0, <1>1, <3>1 DEF Passed, Alerted
  <2> QED  BY <1>0, <1>2, <2>1, <2>2, SMT
<1>3. ASSUME scan.scanned
      PROVE  \E i \in 1 .. Len(ring) : i >= scan.at + 1 /\ StopsAt(ring[i])'
  <2>1. PICK i \in 1 .. Len(ring) : i >= scan.at /\ StopsAt(ring[i])
    BY <1>3 DEF WalkFacts
  <2>2. ~StopsAt(t)
    BY <1>0, <1>3 DEF StopsAt, Ready
  <2>3. i >= scan.at + 1
    BY <1>0, <2>1, <2>2, SMT
  <2>4. StopsAt(ring[i])'
    BY <1>0, <2>1 DEF StopsAt
  <2> QED  BY <2>3, <2>4
<1> QED  BY <1>0, <1>1, <1>2, <1>3 DEF WalkFacts

\* select returns: some thread of the ring can run, or will be found ready.
LEMMA SelectFindsOne ==
  ASSUME RingInv, Select
  PROVE  WalkFacts'
<1>0. /\ Len(ring) \in Nat /\ 1 \in 1 .. Len(ring)
      /\ scan'.at = 1 /\ UNCHANGED <<ring, state, due>>
      /\ \/ state[Cursor] = "alive"
         \/ \E t \in Thread : due[t] /\ state[t] \in {"pausing", "blocking"}
  BY RingThreads DEF Select, FirstPass, NoScan, threadVars
<1>1. \E i \in 1 .. Len(ring) : StopsAt(ring[i])
  <2>1. CASE state[Cursor] = "alive"
    BY <1>0, <2>1 DEF Cursor, StopsAt
  <2>2. ASSUME NEW t \in Thread, due[t], state[t] \in {"pausing", "blocking"}
        PROVE  \E i \in 1 .. Len(ring) : StopsAt(ring[i])
    BY <2>2, RingPlace DEF StopsAt, Live
  <2> QED  BY <1>0, <2>1, <2>2
<1>2. \E i \in 1 .. Len(ring) : i >= 1 /\ StopsAt(ring[i])'
  BY <1>0, <1>1 DEF StopsAt
<1> QED  BY <1>0, <1>2 DEF WalkFacts

\* Every step keeps what the walk knows.
LEMMA WalkStep ==
  ASSUME RingInv, WalkOK, [Next]_vars
  PROVE  WalkOK'
<1>1. CASE ~scan.on /\ fatal = "none"
  <2>1. ASSUME NEW t \in Thread
        PROVE  ~VisitBlocked(t) /\ ~VisitGone(t) /\ ~Transfer(t)
    BY <1>1 DEF VisitBlocked, VisitGone, Transfer, Visits, LoopEnded
  <2>2. ~(Rescan \/ Select)
    BY <1>1 DEF Rescan, Select, LoopEnded
  <2>3. UNCHANGED scan \/ scan' = FirstPass
    BY <2>1, <2>2, SchedFrame
       DEF Fork, CallInternalYield, Die, Preempt, schedVars
  <2> QED  BY <1>1, <2>3, FreshWalk
<1>2. CASE UNCHANGED vars
  BY <1>2 DEF vars, schedVars, threadVars, globalVars, WalkOK, Passed, StopsAt,
     Alerted
<1>3. ASSUME scan.on, fatal = "none", ~UNCHANGED vars, scan'.on,
             fatal' = "none", ~scan'.deleted, scan' # FirstPass
      PROVE  WalkFacts'
  <2>f. Scheduler \/ \E t \in Thread : Due(t)
    BY <1>3, WalkFrame
  <2>w. ASSUME ~scan.deleted PROVE WalkFacts
    BY <1>3, <2>w DEF WalkOK, WalkFacts
  <2>1. ASSUME NEW t \in Thread, VisitAlertedWaiter(t) \/ VisitReady(t)
        PROVE  WalkFacts'
    <3>1. /\ Visits(t) /\ Live(t) /\ state' = [state EXCEPT ![t] = "alive"]
          /\ UNCHANGED <<ring, scan, alertable, alertPending, due>>
      BY <2>1 DEF VisitAlertedWaiter, VisitReady, schedVars, Live
    <3> QED  BY <1>3, <2>w, <3>1, WakeKeepsWalk
  <2>2. ASSUME NEW t \in Thread, VisitBlocked(t)
        PROVE  WalkFacts'
    <3>1. ~scan.deleted
      BY <1>3, <2>2, RingThreads DEF VisitBlocked, ScanType
    <3> QED  BY <2>2, <2>w, <3>1, PassKeepsWalk
  <2>3. ASSUME NEW t \in Thread, VisitGone(t)
        PROVE  FALSE
    BY <1>3, <2>3, RingThreads DEF VisitGone, ScanType
  <2>4. ASSUME NEW t \in Thread, Transfer(t)
        PROVE  FALSE
    BY <1>3, <2>4 DEF Transfer, NoScan
  <2>5. ~Rescan /\ ~Deadlock
    BY <1>3 DEF Rescan, Deadlock, Die
  <2>6. CASE Select
    BY <2>6, SelectFindsOne
  <2>7. ASSUME NEW t \in Thread, Due(t)
        PROVE  WalkFacts'
    <3>1. /\ UNCHANGED <<ring, scan, state, alertable, alertPending>>
          /\ \A u \in Thread : due[u] => due'[u]
      BY <2>7 DEF Due, schedVars, RingInv, LockInv, TypeOK, ThreadsOK
    <3>2. WalkFacts
      BY <1>3, <2>w, <3>1
    <3>3. \A i \in 1 .. Len(ring) : /\ Passed(ring[i]) => Passed(ring[i])'
                                    /\ StopsAt(ring[i]) => StopsAt(ring[i])'
      BY <3>1, RingThreads DEF Passed, StopsAt, Alerted
    <3> QED  BY <3>1, <3>2, <3>3 DEF WalkFacts
  <2> QED  BY <2>f, <2>1, <2>2, <2>3, <2>4, <2>5, <2>6, <2>7 DEF Scheduler
<1>4. CASE scan.on /\ fatal = "none" /\ ~UNCHANGED vars
  BY <1>3, <1>4, FreshWalk DEF WalkOK, WalkFacts
<1>5. CASE fatal # "none"
  BY <1>2, <1>5, WalkFrame
<1> QED  BY <1>1, <1>2, <1>4, <1>5

\* If the walk reports a deadlock, every thread is stuck.
LEMMA DeadlockStuck ==
  ASSUME RingInv, WalkOK, Deadlock, NEW t \in Thread, Live(t)
  PROVE  \/ state[t] = "waiting" /\ ~Alerted(t)
         \/ state[t] = "locking" /\ holder[mu[t]] \in Thread
<1>1. /\ LoopEnded /\ ~CanTransfer /\ ~scan.deleted /\ ~scan.pausing
      /\ ~scan.blocking /\ scan.on /\ fatal = "none"
  BY DEF Deadlock, LoopEnded
<1>2. ~(scan.at \in 1 .. Len(ring))
  BY <1>1 DEF LoopEnded, CanTransfer
<1>3. \A i \in 1 .. Len(ring) : i < scan.at
  BY <1>2, RingThreads, SMT
<1>4. /\ \A i \in 1 .. Len(ring) : Passed(ring[i])
      /\ ~scan.scanned
  <2>1. /\ \A i \in 1 .. Len(ring) : i < scan.at => Passed(ring[i])
        /\ scan.scanned =>
             \E i \in 1 .. Len(ring) : i >= scan.at /\ StopsAt(ring[i])
    BY <1>1 DEF WalkOK
  <2>2. \A i \in 1 .. Len(ring) : ~(i >= scan.at)
    BY <1>3, RingThreads, SMT
  <2> QED  BY <1>3, <2>1, <2>2
<1>5. ASSUME NEW u \in Thread, Live(u)
      PROVE  state[u] = "locking" \/ (state[u] = "waiting" /\ ~Alerted(u))
  BY <1>1, <1>4, <1>5, RingPlace DEF Passed
<1>6. ASSUME state[t] = "locking" PROVE holder[mu[t]] \in Thread
  <2>1. mu[t] \in Mutex
    BY <1>6 DEF RingInv, LockInv, StatesOK, OperandsOK
  <2>2. holder[mu[t]] \in Thread \cup {Nil} /\ mutexQ[mu[t]] \in Seq(Thread)
    BY <2>1 DEF RingInv, LockInv, TypeOK, LocksOK
  <2>3. OnceIn(mutexQ[mu[t]], t)
    BY <1>6, <2>1 DEF RingInv, LockInv, QueuesMatchStates
  <2>4. mutexQ[mu[t]] # <<>>
    BY <2>3, EmptyLemma DEF OnceIn, NotIn
  <2>5. ~\E u \in Thread : state[u] = "alive"
    BY <1>5 DEF Live
  <2>6. holder[mu[t]] # Nil
    BY <2>1, <2>4, <2>5 DEF RingInv, LockInv, NoLostUnlock
  <2> QED  BY <2>2, <2>6
<1> QED  BY <1>5, <1>6

\* Every step keeps the report of a deadlock true.
LEMMA VerdictStep ==
  ASSUME RingInv, WalkOK, DeadlockIsReal, [Next]_vars
  PROVE  DeadlockIsReal'
<1>1. CASE fatal # "none"
  <2>1. UNCHANGED vars
    BY <1>1, WalkFrame
  <2> QED  BY <2>1 DEF vars, threadVars, lockVars, callVars, globalVars,
              DeadlockIsReal, Alerted
<1>2. ASSUME fatal = "none", fatal' = "deadlock" PROVE Deadlock
  <2>1. ~UNCHANGED <<ghostVars, globalVars>>
    BY <1>2 DEF globalVars
  <2>2. ~\E m \in Mutex : Release(m)
    BY <1>2 DEF Release, globalVars
  <2>3. ~\E t \in Thread : Transfer(t)
    BY <1>2 DEF Transfer
  <2>4. ~(LockMutex \/ XWait \/ XJoin \/ JoinMain \/ CallFork
          \/ SuspendOthers \/ ResumeOthers \/ CallInternalYield)
    BY <1>2 DEF LockMutex, XWait, XJoin, JoinMain, CallFork, SuspendOthers,
       ResumeOthers, CallInternalYield, Die, globalVars
  <2> QED  BY <2>1, <2>2, <2>3, <2>4, GlobalsFrame
<1>3. CASE fatal = "none" /\ fatal' = "deadlock"
  <2>1. Deadlock /\ UNCHANGED <<threadVars, lockVars, callVars>>
    BY <1>2, <1>3 DEF Deadlock, Die
  <2>2. ASSUME NEW t \in Thread, Live(t)
        PROVE  \/ state[t] = "waiting" /\ ~Alerted(t)
               \/ state[t] = "locking" /\ holder[mu[t]] \in Thread
    BY <2>1, <2>2, DeadlockStuck
  <2>3. UNCHANGED <<state, alertable, alertPending, holder, mu>>
    BY <2>1 DEF threadVars, lockVars, callVars
  <2> QED  BY <2>2, <2>3 DEF DeadlockIsReal, Live, Alerted
<1>4. CASE fatal' # "deadlock"
  BY <1>4 DEF DeadlockIsReal
<1> QED  BY <1>1, <1>3, <1>4

LEMMA WalkInvStep == WalkInv /\ [Next]_vars => WalkInv'
BY RingInvStep, WalkStep, VerdictStep DEF WalkInv

\* "Deadlock !" is the truth, for any number of threads: when InternalYield
\* reports it, each thread that is left waits for a signal, without an alert
\* that it would hear, or for a mutex that somebody holds.
THEOREM DeadlocksReal == Spec => []DeadlockIsReal
<1>1. Init => WalkInv
  <2>1. Init => RingInv
    BY InvInit, RingInit DEF RingInv
  <2>2. Init => WalkOK /\ DeadlockIsReal
    BY DEF Init, NoScan, WalkOK, DeadlockIsReal
  <2> QED  BY <2>1, <2>2 DEF WalkInv
<1>2. WalkInv => DeadlockIsReal
  BY DEF WalkInv
<1> QED  BY <1>1, <1>2, WalkInvStep, PTL DEF Spec
-----------------------------------------------------------------------------
(* Calls in progress.                                                      *)

LockLabels == {"alertWait", "enter", "waitYield", "lock", "lockYield"}

\* Every step gives a call a mutex only from an unlock to the next lock.
LEMMA OperandStep ==
  ASSUME LockInv, NoMutexOperand, [Next]_vars
  PROVE  NoMutexOperand'
<1>0. /\ \A t \in Thread : pc[t] \notin LockLabels => mu[t] = Nil
      /\ self \in Thread /\ pc \in [Thread -> Labels]
      /\ mu \in [Thread -> Mutex \cup {Nil}]
  BY DEF NoMutexOperand, LockLabels, LockInv, TypeOK, SchedOK, CallsOK
<1>p. ASSUME \A t \in Thread : pc'[t] \notin LockLabels => mu'[t] = Nil
      PROVE  NoMutexOperand'
  BY <1>p DEF NoMutexOperand, LockLabels
<1>u. ASSUME UNCHANGED <<pc, mu>> PROVE NoMutexOperand'
  BY <1>0, <1>p, <1>u
<1>g. ASSUME NEW l, Goto(l), l \notin LockLabels => pc[self] \notin LockLabels
      PROVE  NoMutexOperand'
  BY <1>0, <1>p, <1>g DEF Goto
<1>e. ASSUME NEW l, NEW m, NEW c, NEW a, Enter(l, m, c, a),
             l \in LockLabels \/ m = Nil
      PROVE  NoMutexOperand'
  BY <1>0, <1>p, <1>e DEF Enter
<1>r. ASSUME NEW t \in Thread, Return(t) PROVE NoMutexOperand'
  BY <1>0, <1>p, <1>r DEF Return
<1>n. ASSUME NEW l \in {"run", "fork", "join", "io"}, At(l)
      PROVE  pc[self] \notin LockLabels
  BY <1>n DEF At, LockLabels
<1>1. ASSUME Client PROVE NoMutexOperand'
  <2>1. ASSUME NEW m \in Mutex, Acquire(m) PROVE NoMutexOperand'
    BY <1>e, <2>1 DEF Acquire, LockLabels
  <2>2. ASSUME NEW m \in Mutex, Release(m) PROVE NoMutexOperand'
    BY <1>g, <1>n, <2>2 DEF Release, Calls
  <2>3. ASSUME NEW m \in Mutex, NEW c \in Cond, Wait(m, c) \/ AlertWait(m, c)
        PROVE  NoMutexOperand'
    BY <1>e, <2>3 DEF Wait, AlertWait, WaitCall, LockLabels
  <2>4. ASSUME NEW c \in Cond, Signal(c) \/ Broadcast(c) PROVE NoMutexOperand'
    BY <1>u, <2>4 DEF Signal, Broadcast, callVars
  <2>5. ASSUME NEW t \in Thread, Join(t) \/ AlertJoin(t) PROVE NoMutexOperand'
    BY <1>e, <2>5 DEF Join, AlertJoin, JoinCall
  <2>6. ASSUME NEW t \in Thread, Alert(t) PROVE NoMutexOperand'
    BY <1>u, <2>6 DEF Alert, callVars
  <2>7. CASE CallFork \/ Exit \/ Yield
    BY <1>g, <1>n, <2>7 DEF CallFork, Exit, Yield, Calls
  <2>8. CASE TestAlert \/ SuspendOthers \/ ResumeOthers
    BY <1>u, <2>8 DEF TestAlert, SuspendOthers, ResumeOthers, callVars
  <2>9. CASE Pause \/ AlertPause \/ IOWait \/ IOAlertWait
    BY <1>e, <2>9 DEF Pause, AlertPause, XPause, IOWait, IOAlertWait, IOCall
  <2> QED  BY <1>1, <2>1, <2>2, <2>3, <2>4, <2>5, <2>6, <2>7, <2>8, <2>9
              DEF Client
<1>2. ASSUME Library PROVE NoMutexOperand'
  <2>1. CASE LockMutex
    BY <1>0, <1>u, <1>g, <1>r, <2>1 DEF LockMutex, Die, callVars, LockLabels
  <2>2. CASE CallXWait \/ XWait
    BY <1>g, <2>2 DEF CallXWait, XWait, LockLabels
  <2>3. CASE XJoin \/ XIOWait
    BY <1>0, <1>g, <1>n, <1>r, <2>3 DEF XJoin, XIOWait
  <2>4. CASE CallInternalYield \/ JoinMain
    BY <1>u, <2>4 DEF CallInternalYield, JoinMain, Die, callVars
  <2>5. ASSUME NEW t \in Thread, Fork(t) PROVE NoMutexOperand'
    BY <1>g, <1>n, <2>5 DEF Fork
  <2> QED  BY <1>2, <2>1, <2>2, <2>3, <2>4, <2>5 DEF Library
<1>3. ASSUME Scheduler PROVE NoMutexOperand'
  <2>1. ASSUME NEW t \in Thread, Transfer(t) PROVE NoMutexOperand'
    <3>1. \/ UNCHANGED <<pc, mu>>
          \/ Return(t)
          \/ pc' = [pc EXCEPT ![t] = After(@)] /\ UNCHANGED mu
          \/ pc' = [pc EXCEPT ![t] = "lock"] /\ UNCHANGED mu
      BY <2>1 DEF Transfer, ResumeNormally, RaiseAlerted
    <3>2. ASSUME After(pc[t]) \notin LockLabels PROVE pc[t] \notin LockLabels
      BY <3>2 DEF After, LockLabels
    <3>3. "lock" \in LockLabels
      BY DEF LockLabels
    <3>4. CASE pc' = [pc EXCEPT ![t] = After(@)] /\ UNCHANGED mu
      BY <1>0, <1>p, <3>2, <3>4
    <3>5. CASE pc' = [pc EXCEPT ![t] = "lock"] /\ UNCHANGED mu
      BY <1>0, <1>p, <3>3, <3>5
    <3> QED  BY <1>u, <1>r, <3>1, <3>4, <3>5
  <2>2. ASSUME NEW t \in Thread,
               VisitAlertedWaiter(t) \/ VisitReady(t) \/ VisitBlocked(t) \/ VisitGone(t)
        PROVE  NoMutexOperand'
    BY <1>u, <2>2 DEF VisitAlertedWaiter, VisitReady, VisitBlocked, VisitGone,
       callVars
  <2>3. CASE Rescan \/ Select \/ Deadlock
    BY <1>u, <2>3 DEF Rescan, Select, Deadlock, Die, callVars
  <2> QED  BY <1>3, <2>1, <2>2, <2>3 DEF Scheduler
<1>4. CASE Preempt
  BY <1>u, <1>4 DEF Preempt
<1>5. ASSUME NEW t \in Thread, Due(t) PROVE NoMutexOperand'
  BY <1>u, <1>5 DEF Due, callVars
<1>6. CASE Halted \/ UNCHANGED vars
  BY <1>u, <1>6 DEF Halted, vars, callVars
<1> QED  BY <1>1, <1>2, <1>3, <1>4, <1>5, <1>6 DEF Next

\* InternalYield runs outside the critical sections of clients.
LEMMA CriticalStep ==
  ASSUME scan.on => inCritical = 0, [Next]_vars
  PROVE  scan'.on => inCritical' = 0
<1>1. CASE scan.on
  <2>1. UNCHANGED inCritical
    <3>1. ASSUME NEW t \in Thread, Transfer(t) PROVE UNCHANGED inCritical
      BY <3>1 DEF Transfer
    <3>2. CASE Deadlock
      BY <3>2 DEF Deadlock, Die
    <3>3. ~\E m \in Mutex : Release(m)
      BY <1>1 DEF Release, Calls, At
    <3>4. ~(LockMutex \/ XWait \/ XJoin \/ JoinMain \/ CallFork
            \/ SuspendOthers \/ ResumeOthers \/ CallInternalYield)
      BY <1>1 DEF LockMutex, XWait, XJoin, JoinMain, CallFork, SuspendOthers,
         ResumeOthers, CallInternalYield, Calls, At
    <3> QED  BY <3>1, <3>2, <3>3, <3>4, GlobalsFrame DEF globalVars
  <2> QED  BY <1>1, <2>1
<1>2. CASE ~scan.on /\ scan'.on
  <2>1. ASSUME NEW t \in Thread
        PROVE  ~Fork(t) /\ ~VisitBlocked(t) /\ ~VisitGone(t) /\ ~Transfer(t)
    BY <1>2 DEF Fork, VisitBlocked, VisitGone, Transfer, Visits, LoopEnded
  <2>2. ~(Rescan \/ Select) /\ ~UNCHANGED schedVars
    BY <1>2 DEF Rescan, Select, LoopEnded, schedVars
  <2>3. CallInternalYield \/ Preempt
    BY <2>1, <2>2, SchedFrame
  <2> QED  BY <2>2, <2>3 DEF CallInternalYield, Preempt, Die, globalVars
<1> QED  BY <1>1, <1>2

LEMMA CallInvStep == CallInv /\ [Next]_vars => CallInv'
BY InvStep, OperandStep, CriticalStep DEF CallInv

\* CallInv is inductive.
LEMMA CallsInvariant == Spec => []CallInv
<1>1. Init => CallInv
  <2>1. Init => LockInv
    BY InvInit
  <2>2. Init => NoMutexOperand /\ (scan.on => inCritical = 0)
    BY DEF Init, NoScan, NoMutexOperand
  <2> QED  BY <2>1, <2>2 DEF CallInv
<1> QED  BY <1>1, CallInvStep, PTL DEF Spec

\* Outside InternalYield only the running thread's call goes on.
LEMMA OwnCallOnly ==
  ASSUME LockInv, [Next]_vars, ~scan.on, NEW t \in Thread, t # self
  PROVE  pc'[t] = pc[t]
<1>0. self \in Thread /\ pc \in [Thread -> Labels]
  BY DEF LockInv, TypeOK, SchedOK, CallsOK
<1>g. \A l : Goto(l) => pc'[t] = pc[t]
  BY <1>0 DEF Goto
<1>e. ASSUME NEW l, NEW m, NEW c, NEW a, Enter(l, m, c, a) PROVE pc'[t] = pc[t]
  BY <1>0, <1>e DEF Enter
<1>r. Return(self) => pc'[t] = pc[t]
  BY <1>0 DEF Return
<1>1. CASE Client
  <2>1. ASSUME NEW m \in Mutex, Acquire(m) \/ Release(m) PROVE pc'[t] = pc[t]
    BY <1>e, <1>g, <2>1 DEF Acquire, Release
  <2>2. ASSUME NEW m \in Mutex, NEW c \in Cond, Wait(m, c) \/ AlertWait(m, c)
        PROVE  pc'[t] = pc[t]
    BY <1>e, <2>2 DEF Wait, AlertWait, WaitCall
  <2>3. ASSUME NEW c \in Cond, Signal(c) \/ Broadcast(c) PROVE pc'[t] = pc[t]
    BY <2>3 DEF Signal, Broadcast, callVars
  <2>4. ASSUME NEW u \in Thread, Join(u) \/ AlertJoin(u) \/ Alert(u)
        PROVE  pc'[t] = pc[t]
    BY <1>e, <2>4 DEF Join, AlertJoin, JoinCall, Alert, callVars
  <2>5. CASE CallFork \/ Exit \/ Yield
    BY <1>g, <2>5 DEF CallFork, Exit, Yield
  <2>6. CASE TestAlert \/ SuspendOthers \/ ResumeOthers
    BY <2>6 DEF TestAlert, SuspendOthers, ResumeOthers, callVars
  <2>7. CASE Pause \/ AlertPause \/ IOWait \/ IOAlertWait
    BY <1>e, <2>7 DEF Pause, AlertPause, XPause, IOWait, IOAlertWait, IOCall
  <2> QED  BY <1>1, <2>1, <2>2, <2>3, <2>4, <2>5, <2>6, <2>7 DEF Client
<1>2. CASE Library
  BY <1>2, <1>g, <1>r DEF Library, LockMutex, CallXWait, XWait, XJoin, JoinMain,
     XIOWait, CallInternalYield, Fork, Die, callVars
<1>3. CASE Scheduler
  <2>1. ASSUME NEW u \in Thread
        PROVE  /\ ~VisitAlertedWaiter(u) /\ ~VisitReady(u) /\ ~VisitBlocked(u)
               /\ ~VisitGone(u) /\ ~Transfer(u)
    BY DEF VisitAlertedWaiter, VisitReady, VisitBlocked, VisitGone, Transfer,
       Visits, LoopEnded
  <2>2. ~Rescan /\ ~Select /\ ~Deadlock
    BY DEF Rescan, Select, Deadlock, LoopEnded
  <2> QED  BY <1>3, <2>1, <2>2 DEF Scheduler
<1>4. CASE Preempt
  BY <1>4 DEF Preempt
<1>5. ASSUME NEW u \in Thread, Due(u) PROVE pc'[t] = pc[t]
  BY <1>5 DEF Due, callVars
<1>6. CASE Halted \/ UNCHANGED vars
  BY <1>6 DEF Halted, vars, callVars
<1> QED  BY <1>1, <1>2, <1>3, <1>4, <1>5, <1>6 DEF Next

\* While a thread has suspended the others, it alone runs.
THEOREM OthersStaySuspended == Spec => SuspendedStay
<1>1. ASSUME CallInv, [Next]_vars
      PROVE  [inCritical > 0 => self' = self /\ \A t \in Thread \ {self} :
                                                  pc'[t] = pc[t]]_vars
  <2> SUFFICES ASSUME inCritical > 0
               PROVE  self' = self /\ \A t \in Thread \ {self} : pc'[t] = pc[t]
    OBVIOUS
  <2>1. LockInv /\ ~scan.on
    BY <1>1 DEF CallInv
  <2>2. ASSUME NEW t \in Thread
        PROVE  ~VisitBlocked(t) /\ ~VisitGone(t) /\ ~Transfer(t)
    BY <2>1 DEF VisitBlocked, VisitGone, Transfer, Visits, LoopEnded
  <2>3. self' = self
    BY <1>1, <2>2, SchedFrame
       DEF Fork, CallInternalYield, Preempt, Rescan, Select, Die, schedVars
  <2>4. \A t \in Thread \ {self} : pc'[t] = pc[t]
    BY <1>1, <2>1, OwnCallOnly
  <2> QED  BY <2>3, <2>4
<1> QED  BY <1>1, CallsInvariant, PTL DEF Spec, SuspendedStay

-----------------------------------------------------------------------------
(* Waiting.                                                                *)

\* A step that ends a call with a mutex leaves the mutex locked.
LEMMA ReturnLocked ==
  ASSUME CallInv, [Next]_vars, NEW t \in Thread,
         mu[t] # Nil, pc[t] # "run", pc'[t] = "run"
  PROVE  mu[t] \in held'[t]
<1>0. /\ LockInv /\ self \in Thread /\ pc \in [Thread -> Labels]
      /\ held \in [Thread -> SUBSET Mutex]
      /\ pc[t] \in LockLabels /\ pc'[t] # pc[t]
  BY DEF CallInv, NoMutexOperand, LockLabels, LockInv, TypeOK, SchedOK, CallsOK,
     GlobalsOK
<1>1. CASE ~scan.on
  <2>1. t = self
    BY <1>0, <1>1, OwnCallOnly
  <2>2. ASSUME NEW l \in {"run", "fork", "join", "io"}, At(l) PROVE FALSE
    BY <1>0, <2>1, <2>2 DEF At, LockLabels
  <2>3. ASSUME NEW op, Calls(op) PROVE FALSE
    BY <2>2, <2>3 DEF Calls
  <2>4. ~Client
    BY <2>3 DEF Client, Acquire, Release, Wait, AlertWait, WaitCall, Signal,
       Broadcast, Join, AlertJoin, JoinCall, Alert, CallFork, Exit, TestAlert,
       Yield, Pause, AlertPause, XPause, IOWait, IOAlertWait, IOCall,
       SuspendOthers, ResumeOthers
  <2>5. ~XJoin /\ ~JoinMain /\ ~XIOWait /\ \A u \in Thread : ~Fork(u)
    BY <2>2 DEF XJoin, JoinMain, XIOWait, Fork
  <2>6. \A l : Goto(l) => pc'[self] = l
    BY <1>0 DEF Goto
  <2>7. ~CallXWait /\ ~XWait
    BY <2>1, <2>6 DEF CallXWait, XWait
  <2>8. ~CallInternalYield /\ ~Preempt
    BY <1>0 DEF CallInternalYield, Preempt, Die, callVars
  <2>9. ~Scheduler
    <3>1. ASSUME NEW u \in Thread
          PROVE  /\ ~VisitAlertedWaiter(u) /\ ~VisitReady(u) /\ ~VisitBlocked(u)
                 /\ ~VisitGone(u) /\ ~Transfer(u)
      BY <1>1 DEF VisitAlertedWaiter, VisitReady, VisitBlocked, VisitGone,
         Transfer, Visits, LoopEnded
    <3>2. ~Rescan /\ ~Select /\ ~Deadlock
      BY <1>1 DEF Rescan, Select, Deadlock, LoopEnded
    <3> QED  BY <3>1, <3>2 DEF Scheduler
  <2>10. ~Halted /\ ~UNCHANGED vars /\ \A u \in Thread : ~Due(u)
    BY <1>0 DEF Halted, Due, vars, callVars
  <2>11. LockMutex
    BY <2>4, <2>5, <2>7, <2>8, <2>9, <2>10 DEF Next, Library
  <2>12. ~Goto("lockYield") /\ ~UNCHANGED callVars
    BY <1>0, <2>1, <2>6 DEF callVars
  <2>13. held' = [held EXCEPT ![self] = @ \cup {mu[self]}]
    BY <2>11, <2>12 DEF LockMutex, Die
  <2> QED  BY <1>0, <2>1, <2>13
<1>2. CASE scan.on
  <2>1. ~Halted /\ ~UNCHANGED vars /\ \A u \in Thread : ~Due(u)
    BY <1>0 DEF Halted, Due, vars, callVars
  <2>2. Scheduler
    BY <1>2, <2>1, WalkFrame
  <2>3. ASSUME NEW u \in Thread
        PROVE  /\ ~VisitAlertedWaiter(u) /\ ~VisitReady(u) /\ ~VisitBlocked(u)
               /\ ~VisitGone(u)
    BY <1>0 DEF VisitAlertedWaiter, VisitReady, VisitBlocked, VisitGone, callVars
  <2>4. ~Rescan /\ ~Select /\ ~Deadlock
    BY <1>0 DEF Rescan, Select, Deadlock, Die, callVars
  <2>5. PICK u \in Thread : Transfer(u)
    BY <2>2, <2>3, <2>4 DEF Scheduler
  <2>6. \/ UNCHANGED pc
        \/ Return(u) /\ pc[u] \notin LockLabels \ {"alertWait"}
        \/ pc' = [pc EXCEPT ![u] = After(@)]
        \/ pc' = [pc EXCEPT ![u] = "lock"]
    BY <2>5 DEF Transfer, ResumeNormally, RaiseAlerted, Unhandled, LockLabels
  <2>7. \A l : pc' = [pc EXCEPT ![u] = l] => t = u /\ l = "run"
    BY <1>0
  <2>8. CASE pc' = [pc EXCEPT ![u] = After(@)]
    <3>1. t = u /\ After(pc[u]) = "run"
      BY <1>0, <2>8
    <3> QED  BY <1>0, <3>1 DEF After, LockLabels
  <2>9. CASE Return(u) /\ pc[u] \notin LockLabels \ {"alertWait"}
    <3>1. t = u /\ pc[t] = "alertWait"
      BY <1>0, <2>7, <2>9 DEF Return
    <3>2. mu[t] \in held[t]
      BY <1>0, <3>1 DEF LockInv, OperandsOK
    <3> QED  BY <2>5, <3>2 DEF Transfer, ghostVars
  <2> QED  BY <1>0, <2>6, <2>7, <2>8, <2>9
<1> QED  BY <1>1, <1>2

\* Wait and AlertWait return with their mutex locked again, even by Alerted.
THEOREM WaitsRelock == Spec => WaitRelocks
<1>1. ASSUME CallInv, [Next]_vars
      PROVE  [\A t \in Thread : mu[t] # Nil /\ pc[t] # "run" /\ pc'[t] = "run" =>
                mu[t] \in held'[t]]_vars
  BY <1>1, ReturnLocked
<1> QED  BY <1>1, CallsInvariant, PTL DEF Spec, WaitRelocks

\* A step that wakes a waiting thread has one of the causes.
LEMMA WokenByCause ==
  ASSUME LockInv, [Next]_vars, NEW t \in Thread,
         state[t] = "waiting", state'[t] # "waiting"
  PROVE  \/ scan.on /\ alertable[t] /\ alertPending[t]
         \/ ~scan.on /\ condQ'[cv[t]] # condQ[cv[t]]
<1>0. /\ self \in Thread /\ state \in [Thread -> States]
      /\ condQ \in [Waitable -> Seq(Thread)] /\ ~UNCHANGED state
  BY DEF LockInv, TypeOK, SchedOK, ThreadsOK, LocksOK
<1>r. ASSUME NEW l \in {"run", "fork", "lock", "alertWait", "enter", "join", "io"},
             At(l)
      PROVE  state[self] = "alive" /\ t # self /\ ~scan.on
  BY <1>r, RunnerAlive DEF At
<1>w. ASSUME NEW woken, NEW s, Wake(woken, s), t # self
      PROVE  t \in woken
  BY <1>w DEF Wake
<1>c. ASSUME NEW c \in Waitable, ~scan.on, NotIn(condQ'[c], t), t \in ToSet(condQ[c])
      PROVE  ~scan.on /\ condQ'[cv[t]] # condQ[cv[t]]
  <2>1. cv[t] = c /\ condQ[c] \in Seq(Thread)
    BY <1>0, <1>c, ListedWaits
  <2>2. ~NotIn(condQ[c], t)
    BY <1>c, <2>1, ToSetLemma
  <2> QED  BY <1>c, <2>1, <2>2
<1>1. ASSUME NEW m \in Mutex, Release(m) PROVE FALSE
  <2>1. XRelease(m) /\ Wake(LongestWaiter(m), state[self]) /\ t # self
    BY <1>1, <1>r DEF Release, Calls
  <2>2. t \in LongestWaiter(m)
    BY <1>w, <2>1
  <2> QED  BY <2>1, <2>2, LongestWaiterLemma
<1>2. ASSUME NEW c \in Cond, Signal(c)
      PROVE  ~scan.on /\ condQ'[cv[t]] # condQ[cv[t]]
  <2>1. /\ condQ[c] # <<>> /\ Wake({Head(condQ[c])}, state[self]) /\ ~scan.on
        /\ condQ' = [condQ EXCEPT ![c] = Tail(@)] /\ t # self
    BY <1>2, <1>r DEF Signal, Calls
  <2>2. c \in Waitable /\ condQ[c] \in Seq(Thread)
    BY <1>0 DEF Waitable
  <2>3. t = Head(condQ[c])
    BY <1>w, <2>1
  <2>4. 1 \in 1 .. Len(condQ[c]) /\ t = condQ[c][1]
    BY <2>1, <2>2, <2>3, EndsLemma
  <2>5. t \in ToSet(condQ[c])
    BY <2>2, <2>4, LenProperties DEF ToSet
  <2>6. cv[t] = c
    BY <2>2, <2>5, ListedWaits
  <2>7. Len(condQ'[c]) = Len(condQ[c]) - 1 /\ Len(condQ[c]) \in Nat
    BY <1>0, <2>1, <2>2, HeadTailProperties, LenProperties
  <2>8. condQ'[c] # condQ[c]
    <3>1. \A n \in Nat : n - 1 # n
      OBVIOUS
    <3> QED  BY <2>7, <3>1, Zenon
  <2> QED  BY <2>1, <2>6, <2>8
<1>3. ASSUME NEW c \in Cond, Broadcast(c)
      PROVE  ~scan.on /\ condQ'[cv[t]] # condQ[cv[t]]
  <2>1. /\ Wake(ToSet(condQ[c]), state[self]) /\ ~scan.on /\ t # self
        /\ condQ' = [condQ EXCEPT ![c] = <<>>]
    BY <1>3, <1>r DEF Broadcast, Calls
  <2>2. c \in Waitable
    BY DEF Waitable
  <2> QED  BY <1>0, <1>c, <1>w, <2>1, <2>2, EmptyLemma
<1>4. ASSUME NEW u \in Thread, Fork(u) PROVE FALSE
  BY <1>0, <1>4 DEF Fork, Unborn
<1>5. ASSUME NEW u \in Thread, VisitAlertedWaiter(u) \/ VisitReady(u)
      PROVE  scan.on /\ alertable[t] /\ alertPending[t]
  <2>1. Visits(u) /\ state' = [state EXCEPT ![u] = "alive"]
    BY <1>5 DEF VisitAlertedWaiter, VisitReady
  <2>2. u = t /\ scan.on
    BY <1>0, <2>1 DEF Visits
  <2> QED  BY <1>5, <2>2 DEF VisitAlertedWaiter, VisitReady, Alerted
<1>6. CASE Exit
  <2>1. /\ Wake(ToSet(condQ[self]), "dying") /\ ~scan.on /\ t # self
        /\ condQ' = [condQ EXCEPT ![self] = <<>>]
    BY <1>6, <1>r DEF Exit, Calls
  <2>2. self \in Waitable
    BY <1>0 DEF Waitable
  <2> QED  BY <1>0, <1>c, <1>w, <2>1, <2>2, EmptyLemma
<1>7. ASSUME Pause \/ AlertPause \/ LockMutex \/ XIOWait PROVE FALSE
  <2>1. t # self /\ \E s : Wake({}, s)
    BY <1>0, <1>7, <1>r DEF Pause, AlertPause, XPause, LockMutex, XIOWait, Calls,
       Die, threadVars
  <2> QED  BY <1>w, <2>1
<1>8. ASSUME XWait PROVE FALSE
  <2>1. XRelease(mu[self]) /\ Wake(LongestWaiter(mu[self]), "waiting") /\ t # self
    BY <1>8, <1>r DEF XWait
  <2>2. mu[self] \in Mutex
    BY <1>0, <1>8 DEF XWait, At, LockInv, OperandsOK
  <2>3. t \in LongestWaiter(mu[self])
    BY <1>w, <2>1
  <2> QED  BY <2>1, <2>2, <2>3, LongestWaiterLemma
<1>9. ASSUME XJoin PROVE FALSE
  <2>1. t # self
    BY <1>9, <1>r DEF XJoin
  <2>2. ~Wake({}, "waiting")
    BY <1>w, <2>1
  <2>3. Gone(cv[self]) /\ state' = [state EXCEPT ![cv[self]] = "dead"]
    BY <1>9, <2>2 DEF XJoin
  <2> QED  BY <1>0, <2>3 DEF Gone
<1> QED  BY <1>0, <1>1, <1>2, <1>3, <1>4, <1>5, <1>6, <1>7, <1>8, <1>9, StateFrame

\* A thread waiting on a condition is woken only by a Signal or Broadcast of
\* it, by the end of the thread it joins, or by an alert it asked for.
THEOREM WakingHasCause == Spec => WokenForCause
<1>1. ASSUME LockInv, [Next]_vars
      PROVE  [\A t \in Thread :
                state[t] = "waiting" /\ state'[t] # "waiting" =>
                  \/ scan.on /\ alertable[t] /\ alertPending[t]
                  \/ ~scan.on /\ condQ'[cv[t]] # condQ[cv[t]]]_vars
  BY <1>1, WokenByCause
<1> QED  BY <1>1, Invariance, PTL DEF Spec, WokenForCause
=============================================================================
