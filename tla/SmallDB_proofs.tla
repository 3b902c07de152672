---------------------------- MODULE SmallDB_proofs ----------------------------
(***************************************************************************)
(* Theorems about SmallDB for any sizes of pages and of updates, and any   *)
(* number of versions, updates, crashes and failures; the last is that it  *)
(* implements Database.                                                    *)
(***************************************************************************)
EXTENDS SmallDB, SequenceTheorems, FiniteSetTheorems, TLAPS

-----------------------------------------------------------------------------
(* The inductive invariants.                                               *)

Fits(e) == PageOf(End(e)) <= MaxPages

\* The records of a log are at increasing positions, on the pages there are.
Ordered(s) ==
  /\ \A i, j \in DOMAIN s : i < j => s[i].at < s[j].at
  /\ \A i \in DOMAIN s : Fits(s[i])

\* A page has finitely many records, each at a position of its own.
PageOK(S) ==
  /\ IsFiniteSet(S) /\ \A e \in S : Fits(e)
  /\ \A e, f \in S : e.at = f.at => e = f

\* The logs are in order, and what is written next comes after what is there.
LogsInv ==
  /\ \A v \in Version : Ordered(cached[v])
  /\ \A v \in Version, p \in Page : PageOK(disk[v][p])
  /\ out # 0 => \A i \in DOMAIN cached[out] : cached[out][i].at < index

Uncommitted ==
  {"openSnapshot", "writeSnapshot", "openLog", "newVersion", "writeNewVersion"}
Committing == {"commit", "writeVersion", "deleteNewVersion"}
Dropping == {"dropSnapshot", "dropLog"}

\* A version that a program can recover from.
Usable(v) == v \in Version /\ HasContents(snapshot[v]) /\ v \in logfile

\* What the version files name can be used, at every step of Snapshot and New;
\* and what Snapshot writes, and deletes, is none of it.
FilesInv ==
  /\ \A f \in {versionFile, newFile} : Valid(f) => Usable(f)
  /\ pc \in {"getOldVersion", "create", "recover"} \cup Dropping
       => newFile = Absent
  /\ pc = "create" => versionFile = 0 /\ version = 0
  /\ pc \in Uncommitted =>
       version \in Version /\ \A f \in {versionFile, newFile} : Valid(f) => f < version
  /\ pc = "run" \/ InCall =>
       \A f \in {versionFile, newFile} : Valid(f) => f <= version
  /\ pc = "openLog" => HasContents(snapshot[version])
  /\ pc \in {"newVersion", "writeNewVersion", "recover"} \cup Committing \cup Dropping
       => Usable(version)
  /\ pc \in Committing => newFile = version
  /\ pc \in Committing /\ caller # "boot" /\ Valid(versionFile)
       => versionFile <= version
  /\ pc \in {"deleteNewVersion", "recover"} \cup Dropping
       => versionFile = version
  /\ pc = "getVersion" => caller = "boot"
  /\ pc \in Dropping => caller # "boot"
  /\ InSnapshot /\ caller # "boot" => old < version
  /\ InCall => out \in Version /\ cached[out] # <<>>

-----------------------------------------------------------------------------
(* Durability.                                                             *)

\* Where a record that comes after the first n goes.
Position(s, n) == IF n = 0 THEN 0 ELSE AlignRead(End(s[n]))

\* The first k records of a log are complete, and nothing the kernel has still
\* to write can hide them from a machine that starts anew.
Settled(s, d, k) ==
  /\ k \in 0 .. Complete(s)
  /\ \A i \in 1 .. k : \A p \in PagesOf(s[i]) : s[i] \in d[p]
  /\ \A e \in Starting(d) : (\E i \in 1 .. k : e = s[i])
                            \/ (\A i \in 1 .. k : s[i].at < e.at)

\* What was promised is in a snapshot and those records of its log.
Keeps(s, d, w, promised) ==
  \E k \in 0 .. Len(s) : /\ Settled(s, d, k)
                         /\ IsPrefix(promised, w \o SubSeq(UpdatesOf(s), 1, k))
Kept(v) == Keeps(cached[v], disk[v], snapshot[v], safe)

Opening == {"openSnapshot", "writeSnapshot", "openLog"}
NewLog == {"newVersion", "writeNewVersion"} \cup Committing \cup Dropping

\* The client's updates go to the log of the version that is committed; or
\* would go to the log of the version that Snapshot is making.
OldOpen ==
  pc = "run" \/ InCall \/ (pc \in Opening /\ caller = "snapshot")
NewOpen == pc \in NewLog /\ caller # "boot"

\* Before the length of the update is in the log.
Incomplete == pc \in {"syncContents", "writeLength"}

\* The open log, and the client's value.
WriterInv ==
  LET s == cached[out]
  IN /\ out \in Version
     /\ InCall => /\ Len(s) > 0 /\ s[Len(s)].u = updates /\ s[Len(s)].whole
                  /\ s[Len(s)].at = Position(s, Len(s) - 1)
     /\ Complete(s) = IF Incomplete THEN Len(s) - 1 ELSE Len(s)
     /\ index = IF Incomplete THEN End(s[Len(s)]) ELSE Position(s, Len(s))
     /\ value = snapshot[out] \o
          SubSeq(UpdatesOf(s), 1, IF InCall THEN Len(s) - 1 ELSE Len(s))

\* The open log is that of the version a restart chooses, but while a new one
\* is made.
VersionInv ==
  /\ caller \in {"boot", "create", "snapshot"}
  /\ pc \in Uncommitted => caller # "boot"
  /\ OldOpen => out = versionFile
  /\ OldOpen \/ pc \in Uncommitted => (Valid(newFile) => newFile = versionFile)
  /\ pc = "openLog" => snapshot[version] = value
  /\ NewOpen => out = version /\ index = 0 /\ cached[version] = <<>>
                /\ snapshot[version] = value

SafeInv ==
  /\ Current = 0 => safe = <<>>
  /\ \A v \in Version : v = Current => Kept(v)
  /\ OldOpen \/ (InSnapshot /\ caller # "boot") => IsPrefix(safe, value)

DurableInv ==
  /\ OldOpen => WriterInv
  /\ VersionInv
  /\ SafeInv

\* The kernel has the padding behind the last record of a log.
Padded(v) ==
  /\ Complete(cached[v]) = Len(cached[v])
  /\ Position(cached[v], Len(cached[v])) <= length[v]

\* Without crashes a log is closed before it is recovered from, and that empties
\* the writer's buffer.
TailInv ==
  \/ Pad
  \/ /\ crashes = 0
     /\ OldOpen \/ \A v \in Version : v = Current => Padded(v)
     /\ pc \in Opening /\ caller # "snapshot" => Current = 0

-----------------------------------------------------------------------------
(* Positions and pages.                                                    *)

LEMMA PageMonotonic ==
  ASSUME NEW m \in Nat, NEW n \in Nat, m <= n
  PROVE  PageOf(m) \in Nat /\ PageOf(n) \in Nat /\ PageOf(m) <= PageOf(n)
<1>1. PageSize \in Nat \ {0}
  BY LayoutAssumption
<1>2. /\ m = PageSize * (m \div PageSize) + (m % PageSize)
      /\ n = PageSize * (n \div PageSize) + (n % PageSize)
      /\ m % PageSize \in 0 .. PageSize - 1 /\ n % PageSize \in 0 .. PageSize - 1
      /\ m \div PageSize \in Nat /\ n \div PageSize \in Nat
  BY <1>1
<1>3. m \div PageSize <= n \div PageSize
  BY <1>1, <1>2
<1> QED  BY <1>2, <1>3 DEF PageOf

LEMMA RoundUpFacts ==
  ASSUME NEW n \in Nat
  PROVE  /\ RoundUp(n) \in Nat /\ n <= RoundUp(n)
         /\ n % PageSize = 0 => RoundUp(n) = n
         /\ n % PageSize # 0 => RoundUp(n) = n + PageSize - (n % PageSize)
<1> DEFINE q == n \div PageSize
           r == n % PageSize
<1>1. PageSize \in Nat \ {0}
  BY LayoutAssumption
<1>2. q \in Nat /\ r \in 0 .. PageSize - 1 /\ n = PageSize * q + r
  BY <1>1
<1>3. CASE r = 0
  <2>1. n + PageSize - 1 = PageSize * q + (PageSize - 1)
    BY <1>1, <1>2, <1>3
  <2>2. (n + PageSize - 1) \div PageSize = q
    BY <1>1, <1>2, <2>1
  <2> QED  BY <1>1, <1>2, <1>3, <2>2 DEF RoundUp
<1>4. CASE r # 0
  <2>1. n + PageSize - 1 = PageSize * (q + 1) + (r - 1)
    BY <1>1, <1>2, <1>4
  <2>2. (n + PageSize - 1) \div PageSize = q + 1
    BY <1>1, <1>2, <1>4, <2>1
  <2>3. (q + 1) * PageSize = PageSize * q + PageSize
    BY <1>1, <1>2
  <2> QED  BY <1>1, <1>2, <1>4, <2>2, <2>3 DEF RoundUp
<1> QED  BY <1>3, <1>4

\* The writer and the reader of a log, and the writer that goes on after a
\* recovery, agree where a record starts.
LEMMA AlignsAgree ==
  ASSUME NEW n \in Nat
  PROVE  /\ Align(n) = AlignRead(n) /\ Align(n) \in Nat /\ n <= Align(n)
         /\ Align(Align(n)) = Align(n)
<1>1. PageSize \in Nat /\ IntBytes \in Nat \ {0} /\ PageSize > IntBytes
  BY LayoutAssumption
<1>2. n % PageSize \in 0 .. PageSize - 1
  BY <1>1
<1>3. /\ RoundUp(n) - n < IntBytes
           <=> (n % PageSize = 0 \/ n % PageSize > PageSize - IntBytes)
      /\ n % PageSize = 0 => RoundUp(n) = n
  <2>1. /\ RoundUp(n) \in Nat
        /\ n % PageSize = 0 => RoundUp(n) = n
        /\ n % PageSize # 0 => RoundUp(n) = n + PageSize - (n % PageSize)
    BY RoundUpFacts
  <2>2. \A r \in Nat, u \in Nat, k \in Nat, b \in Nat \ {0} :
          /\ r < k /\ b < k /\ (r = 0 => u = n) /\ (r # 0 => u = n + k - r)
          => (u - n < b <=> (r = 0 \/ r > k - b)) /\ (r = 0 => ~(r > k - b))
    OBVIOUS
  <2> QED  BY <1>1, <1>2, <2>1, <2>2
<1>4. Align(n) = AlignRead(n) /\ Align(n) \in Nat /\ n <= Align(n)
  BY <1>1, <1>2, <1>3, RoundUpFacts DEF Align, Fills, AlignRead
<1>5. RoundUp(RoundUp(n)) = RoundUp(n) /\ RoundUp(n) % PageSize = 0
  <2> DEFINE k == (n + PageSize - 1) \div PageSize
  <2>1. k \in Nat /\ RoundUp(n) = PageSize * k + 0 /\ RoundUp(n) \in Nat
    BY <1>1, RoundUpFacts DEF RoundUp
  <2>2. RoundUp(n) % PageSize = 0
    BY <1>1, <2>1
  <2> QED  BY <2>1, <2>2, RoundUpFacts
<1>6. Align(Align(n)) = Align(n)
  BY <1>1, <1>5, RoundUpFacts DEF Align, Fills
<1> QED  BY <1>4, <1>6

\* A record ends behind the place where it starts.
LEMMA EndFacts ==
  ASSUME NEW e \in Records
  PROVE  /\ e.at \in Nat /\ e.size \in Nat /\ End(e) \in Nat /\ e.at < End(e)
         /\ PageOf(e.at) \in Nat /\ PageOf(End(e) - 1) \in Nat
         /\ PageOf(e.at) \in PagesOf(e)
<1>1. /\ e.at \in Nat /\ e.size \in Nat /\ IntBytes \in Nat \ {0}
  <2>1. e.at \in Nat /\ e.size \in Sizes
    BY DEF Records
  <2> QED  BY <2>1, LayoutAssumption
<1>2. End(e) \in Nat /\ e.at <= End(e) - 1 /\ End(e) - 1 \in Nat
  BY <1>1 DEF End
<1>3. /\ e.at \div PageSize \in Nat /\ (End(e) - 1) \div PageSize \in Nat
      /\ e.at \div PageSize <= (End(e) - 1) \div PageSize
  BY <1>1, <1>2, PageMonotonic DEF PageOf
<1> QED  BY <1>1, <1>2, <1>3 DEF PageOf, PagesOf

-----------------------------------------------------------------------------
(* Logs.                                                                   *)

LEMMA CountTo ==
  ASSUME NEW n \in Nat
  PROVE  IsFiniteSet(1 .. n) /\ Cardinality(1 .. n) = n
BY FS_Interval

\* A function with a finite domain has finitely many values.
LEMMA FiniteImage ==
  ASSUME NEW f, NEW S, IsFiniteSet(S)
  PROVE  IsFiniteSet({f[x] : x \in S})
<1> DEFINE T == {f[x] : x \in S}
           g == [x \in S |-> f[x]]
<1>1. g \in Surjection(S, T)
  BY DEF Surjection
<1> QED  BY <1>1, FS_Surjection

\* The reader finds the first Complete(s) records, all of them complete, and
\* no more.
LEMMA CompleteFacts ==
  ASSUME NEW s \in Seq(Records)
  PROVE  /\ Complete(s) \in 0 .. Len(s)
         /\ \A i \in 1 .. Complete(s) : Reads(s, i)
         /\ \A k \in 0 .. Len(s) :
              (\A i \in 1 .. k : Reads(s, i)) => k <= Complete(s)
<1> DEFINE S == {n \in DOMAIN s : \A i \in 1 .. n : Reads(s, i)}
           c == Cardinality(S)
<1>1. Len(s) \in Nat /\ DOMAIN s = 1 .. Len(s)
  BY LenProperties
<1>2. Complete(s) = c
  BY DEF Complete
<1>3. IsFiniteSet(S) /\ c \in Nat /\ c <= Len(s)
  <2>1. IsFiniteSet(1 .. Len(s)) /\ Cardinality(1 .. Len(s)) = Len(s)
    BY <1>1, CountTo
  <2>2. S \in SUBSET (1 .. Len(s))
    BY <1>1
  <2> QED  BY <2>1, <2>2, FS_Subset, FS_CardinalityType
<1> HIDE DEF c
<1>4. \A j \in S : j \in 1 .. Len(s) /\ j <= c
  <2> TAKE j \in S
  <2>1. j \in 1 .. Len(s) /\ 1 .. j \in SUBSET S
    BY <1>1
  <2>2. Cardinality(1 .. j) = j
    BY <2>1, FS_Interval
  <2>3. Cardinality(1 .. j) <= Cardinality(S)
    BY <1>3, <2>1, FS_Subset
  <2> QED  BY <2>1, <2>2, <2>3 DEF c
<1>5. S = 1 .. c
  <2>1. IsFiniteSet(1 .. c) /\ Cardinality(1 .. c) = c
    BY <1>3, FS_Interval
  <2>2. S \in SUBSET (1 .. c)
    BY <1>3, <1>4
  <2> QED  BY <2>1, <2>2, FS_Subset DEF c
<1> HIDE DEF S
<1>6. \A i \in 1 .. c : Reads(s, i)
  BY <1>3, <1>5 DEF S
<1>7. ASSUME NEW k \in 0 .. Len(s), \A i \in 1 .. k : Reads(s, i)
      PROVE  k <= c
  <2>1. CASE k = 0
    BY <1>3, <2>1
  <2>2. CASE k # 0
    <3>1. k \in S
      BY <1>1, <1>7, <2>2 DEF S
    <3> QED  BY <1>4, <3>1
  <2> QED  BY <2>1, <2>2
<1> QED  BY <1>2, <1>3, <1>6, <1>7

\* What the reader makes of a log.
LEMMA UpdatesType ==
  ASSUME NEW s \in Seq(Records)
  PROVE  /\ UpdatesOf(s) \in Value /\ Len(UpdatesOf(s)) = Complete(s)
         /\ \A i \in 1 .. Complete(s) : UpdatesOf(s)[i] = Contents(s[i])
<1>1. Complete(s) \in Nat /\ Complete(s) <= Len(s)
  BY CompleteFacts, LenProperties
<1>2. \A i \in 1 .. Complete(s) : Contents(s[i]) \in Update \cup {Garbage}
  <2> TAKE i \in 1 .. Complete(s)
  <2>1. s[i] \in Records
    BY <1>1, ElementOfSeq, LenProperties
  <2> QED  BY <2>1 DEF Contents, Records
<1>3. UpdatesOf(s) \in [1 .. Complete(s) -> Update \cup {Garbage}]
  BY <1>2 DEF UpdatesOf
<1>4. UpdatesOf(s) \in Value
  BY <1>1, <1>3, SeqDef DEF Value
<1> QED  BY <1>1, <1>3, <1>4, LenProperties DEF UpdatesOf, Value

\* In a finite set of records at different positions each record has a rank;
\* every rank occurs once, and goes up with the position.
Below(S, e) == {f \in S : f.at < e.at}

LEMMA Ranks ==
  ASSUME NEW S, IsFiniteSet(S), S \subseteq Records,
         \A e, f \in S : e.at = f.at => e = f
  PROVE  /\ Cardinality(S) \in Nat
         /\ \A e \in S : Cardinality(Below(S, e)) \in 0 .. Cardinality(S) - 1
         /\ \A e, f \in S : e.at < f.at
              => Cardinality(Below(S, e)) < Cardinality(Below(S, f))
         /\ \A i \in 1 .. Cardinality(S) :
              \E e \in S : Cardinality(Below(S, e)) = i - 1
<1> DEFINE n == Cardinality(S)
           rank == [e \in S |-> Cardinality(Below(S, e))]
<1>1. n \in Nat
  BY FS_CardinalityType
<1>2. \A e \in S : e.at \in Nat
  BY DEF Records
<1>3. \A e \in S : IsFiniteSet(Below(S, e)) /\ Cardinality(Below(S, e)) \in Nat
  <2> TAKE e \in S
  <2>1. Below(S, e) \in SUBSET S
    BY DEF Below
  <2> QED  BY <2>1, FS_Subset, FS_CardinalityType
<1>4. ASSUME NEW e \in S, NEW T \in SUBSET S, Below(S, e) \subseteq T, e \in T
      PROVE  Cardinality(Below(S, e)) < Cardinality(T)
  <2>1. e \notin Below(S, e)
    BY <1>2 DEF Below
  <2>2. IsFiniteSet(T) /\ Cardinality(T) \in Nat
    BY FS_Subset, FS_CardinalityType
  <2>3. /\ Cardinality(Below(S, e)) <= Cardinality(T)
        /\ Cardinality(Below(S, e)) = Cardinality(T) => Below(S, e) = T
    BY <1>4, <2>2, FS_Subset
  <2> QED  BY <1>3, <1>4, <2>1, <2>2, <2>3
<1>5. \A e \in S : Cardinality(Below(S, e)) \in 0 .. n - 1
  <2> TAKE e \in S
  <2>1. Below(S, e) \subseteq S /\ S \in SUBSET S
    BY DEF Below
  <2>2. Cardinality(Below(S, e)) < n
    BY <1>4, <2>1
  <2> QED  BY <1>1, <1>3, <2>2
<1>6. ASSUME NEW e \in S, NEW f \in S, e.at < f.at
      PROVE  Cardinality(Below(S, e)) < Cardinality(Below(S, f))
  <2>1. Below(S, e) \subseteq Below(S, f) /\ e \in Below(S, f)
    BY <1>2, <1>6 DEF Below
  <2>2. Below(S, f) \in SUBSET S
    BY DEF Below
  <2> QED  BY <1>4, <2>1, <2>2
<1>7. \A i \in 1 .. n : \E e \in S : Cardinality(Below(S, e)) = i - 1
  <2>1. rank \in [S -> 0 .. n - 1]
    BY <1>5
  <2>2. \A e, f \in S : rank[e] = rank[f] => e = f
    <3> TAKE e \in S, f \in S
    <3>1. e.at < f.at \/ f.at < e.at \/ e.at = f.at
      BY <1>2
    <3>2. CASE e.at < f.at
      BY <1>3, <1>6, <3>2
    <3>3. CASE f.at < e.at
      BY <1>3, <1>6, <3>3
    <3> QED  BY <3>1, <3>2, <3>3
  <2>3. rank \in Injection(S, 0 .. n - 1)
    BY <2>1, <2>2 DEF Injection, IsInjective
  <2>4. IsFiniteSet(0 .. n - 1) /\ Cardinality(0 .. n - 1) = n
    BY <1>1, FS_Interval
  <2>5. rank \in Surjection(S, 0 .. n - 1)
    BY <2>3, <2>4, FS_Injection
  <2>6. \A j \in 0 .. n - 1 : \E e \in S : rank[e] = j
    BY <2>5 DEF Surjection
  <2> QED  BY <1>1, <2>6
<1> QED  BY <1>1, <1>5, <1>6, <1>7

\* The records of a finite set, in order.
LEMMA InOrderFacts ==
  ASSUME NEW S, IsFiniteSet(S), S \subseteq Records,
         \A e, f \in S : e.at = f.at => e = f
  PROVE  /\ InOrder(S) \in Seq(Records) /\ Len(InOrder(S)) = Cardinality(S)
         /\ \A i \in 1 .. Cardinality(S) :
              /\ InOrder(S)[i] \in S
              /\ Cardinality(Below(S, InOrder(S)[i])) = i - 1
         /\ \A i, j \in 1 .. Cardinality(S) :
              i < j => InOrder(S)[i].at < InOrder(S)[j].at
<1> DEFINE n == Cardinality(S)
           s == InOrder(S)
<1>1. n \in Nat
  BY Ranks
<1>2. ASSUME NEW i \in 1 .. n
      PROVE  s[i] \in S /\ Cardinality(Below(S, s[i])) = i - 1
  <2>1. s[i] = CHOOSE e \in S : Cardinality(Below(S, e)) = i - 1
    BY DEF InOrder, Below
  <2>2. \E e \in S : Cardinality(Below(S, e)) = i - 1
    BY Ranks
  <2> QED  BY <2>1, <2>2
<1>3. s \in [1 .. n -> Records]
  <2> DEFINE g(i) == CHOOSE e \in S : Cardinality(Below(S, e)) = i - 1
  <2>1. s = [i \in 1 .. n |-> g(i)]
    BY DEF InOrder, Below
  <2>2. \A i \in 1 .. n : g(i) \in Records
    <3> TAKE i \in 1 .. n
    <3>1. g(i) = s[i]
      BY <2>1
    <3> QED  BY <1>2, <3>1
  <2> HIDE DEF g, s
  <2> QED  BY <2>1, <2>2
<1>4. s \in Seq(Records) /\ Len(s) = n
  <2>1. s \in Seq(Records)
    BY <1>1, <1>3, SeqDef
  <2> QED  BY <1>1, <1>3, <2>1, LenProperties
<1>5. ASSUME NEW i \in 1 .. n, NEW j \in 1 .. n, i < j
      PROVE  s[i].at < s[j].at
  <2>1. s[i].at \in Nat /\ s[j].at \in Nat
    BY <1>2 DEF Records
  <2>2. s[i].at # s[j].at
    BY <1>2, <1>5
  <2>3. ~(s[j].at < s[i].at)
    BY <1>2, <1>5, Ranks
  <2> QED  BY <2>1, <2>2, <2>3
<1> QED  BY <1>2, <1>4, <1>5

\* A record as it is found has its contents, or not, and is else the same.
LEMMA FoundFacts ==
  ASSUME NEW d, NEW e \in Records
  PROVE  /\ Found(d, e) \in Records
         /\ Found(d, e).at = e.at /\ Found(d, e).u = e.u
         /\ Found(d, e).size = e.size /\ Found(d, e).len = e.len
         /\ End(Found(d, e)) = End(e)
<1>1. \A b \in BOOLEAN : [e EXCEPT !.whole = b] \in Records
  BY DEF Records
<1>2. Found(d, e) \in Records
  BY DEF Found, Records
<1> QED  BY <1>2 DEF Found, Records, End

\* What is found when a machine starts anew is a log.
LEMMA OnDiskFacts ==
  ASSUME NEW d, \A p \in Page : d[p] \in SUBSET Records /\ PageOK(d[p])
  PROVE  LET T == {Found(d, e) : e \in Starting(d)}
         IN /\ T \subseteq Records /\ IsFiniteSet(T)
            /\ \A e, f \in T : e.at = f.at => e = f
            /\ OnDisk(d) = InOrder(T) /\ OnDisk(d) \in Seq(Records)
            /\ Ordered(OnDisk(d))
<1> DEFINE T == {Found(d, e) : e \in Starting(d)}
<1>1. Starting(d) \subseteq Records
  BY DEF Starting
<1>2. IsFiniteSet(Starting(d))
  <2> DEFINE P == [p \in Page |-> {e \in d[p] : PageOf(e.at) = p}]
  <2>1. IsFiniteSet(Page)
    BY BoundAssumption, FS_Interval DEF Page
  <2>2. \A p \in Page : IsFiniteSet(P[p])
    <3> TAKE p \in Page
    <3>1. P[p] \in SUBSET d[p] /\ IsFiniteSet(d[p])
      BY DEF PageOK
    <3> QED  BY <3>1, FS_Subset
  <2>3. Starting(d) = UNION {P[p] : p \in Page}
    BY DEF Starting
  <2> HIDE DEF P
  <2>4. IsFiniteSet({P[p] : p \in Page})
    BY <2>1, FiniteImage
  <2>5. IsFiniteSet(UNION {P[p] : p \in Page})
    BY <2>2, <2>4, FS_UNION
  <2> QED  BY <2>3, <2>5
<1>3. IsFiniteSet(T)
  <2> DEFINE g == [e \in Starting(d) |-> Found(d, e)]
  <2>1. T = {g[e] : e \in Starting(d)}
    OBVIOUS
  <2> HIDE DEF g
  <2> QED  BY <1>2, <2>1, FiniteImage
<1>4. T \subseteq Records
  BY <1>1, FoundFacts
<1>5. \A e, f \in Starting(d) : e.at = f.at => e = f
  <2> TAKE e \in Starting(d), f \in Starting(d)
  <2>1. PICK p \in Page : e \in d[p] /\ PageOf(e.at) = p
    BY DEF Starting
  <2>2. PICK q \in Page : f \in d[q] /\ PageOf(f.at) = q
    BY DEF Starting
  <2> QED  BY <2>1, <2>2 DEF PageOK
<1>6. \A e, f \in T : e.at = f.at => e = f
  <2> TAKE e \in T, f \in T
  <2>1. PICK x \in Starting(d), y \in Starting(d) :
          e = Found(d, x) /\ f = Found(d, y)
    OBVIOUS
  <2>2. e.at = x.at /\ f.at = y.at
    BY <1>1, <2>1, FoundFacts
  <2> QED  BY <1>5, <2>1, <2>2
<1>7. OnDisk(d) = InOrder(T)
  BY DEF OnDisk
<1>8. \A e \in T : Fits(e)
  <2> TAKE e \in T
  <2>1. PICK x \in Starting(d) : e = Found(d, x)
    OBVIOUS
  <2>2. Fits(x)
    BY DEF Starting, PageOK
  <2> QED  BY <1>1, <2>1, <2>2, FoundFacts DEF Fits
<1>9. OnDisk(d) \in Seq(Records) /\ Ordered(OnDisk(d))
  <2> HIDE DEF T
  <2>1. /\ InOrder(T) \in Seq(Records) /\ Len(InOrder(T)) = Cardinality(T)
        /\ \A i \in 1 .. Cardinality(T) : InOrder(T)[i] \in T
        /\ \A i, j \in 1 .. Cardinality(T) :
             i < j => InOrder(T)[i].at < InOrder(T)[j].at
    BY <1>3, <1>4, <1>6, InOrderFacts
  <2>2. DOMAIN InOrder(T) = 1 .. Cardinality(T)
    BY <2>1, LenProperties
  <2> QED  BY <1>7, <1>8, <2>1, <2>2 DEF Ordered
<1> QED  BY <1>3, <1>4, <1>6, <1>7, <1>9

\* The first records of a log are a log.
LEMMA FirstRecords ==
  ASSUME NEW s \in Seq(Records), NEW k \in 0 .. Len(s)
  PROVE  /\ SubSeq(s, 1, k) \in Seq(Records) /\ Len(SubSeq(s, 1, k)) = k
         /\ \A i \in 1 .. k : SubSeq(s, 1, k)[i] = s[i]
         /\ Ordered(s) => Ordered(SubSeq(s, 1, k))
<1>1. /\ Len(s) \in Nat /\ DOMAIN s = 1 .. Len(s) /\ k \in Nat /\ k <= Len(s)
      /\ \A i \in 1 .. Len(s) : s[i] \in Records
  BY LenProperties, ElementOfSeq
<1>2. \A i \in 1 .. k : s[i] \in Records
  BY <1>1
<1>3. /\ SubSeq(s, 1, k) \in Seq(Records)
      /\ Len(SubSeq(s, 1, k)) = IF 1 <= k THEN k - 1 + 1 ELSE 0
      /\ \A i \in 1 .. k - 1 + 1 : SubSeq(s, 1, k)[i] = s[1 + i - 1]
  <2>1. 1 \in Int /\ k \in Int
    BY <1>1
  <2> QED  BY <1>2, <2>1, SubSeqProperties
<1>4. /\ Len(SubSeq(s, 1, k)) = k
      /\ \A i \in 1 .. k : SubSeq(s, 1, k)[i] = s[i]
  BY <1>1, <1>3
<1>5. Ordered(s) => Ordered(SubSeq(s, 1, k))
  <2>1. DOMAIN SubSeq(s, 1, k) = 1 .. k
    BY <1>3, <1>4, LenProperties
  <2> QED  BY <1>1, <1>4, <2>1 DEF Ordered
<1> QED  BY <1>3, <1>4, <1>5

\* So is a log with one record more behind the others.
LEMMA OneMoreRecord ==
  ASSUME NEW s \in Seq(Records), Ordered(s), NEW e \in Records, Fits(e),
         \A i \in DOMAIN s : s[i].at < e.at
  PROVE  Append(s, e) \in Seq(Records) /\ Ordered(Append(s, e))
<1>1. /\ Append(s, e) \in Seq(Records) /\ Len(Append(s, e)) = Len(s) + 1
      /\ \A i \in 1 .. Len(s) : Append(s, e)[i] = s[i]
      /\ Append(s, e)[Len(s) + 1] = e
  BY AppendProperties
<1>2. Len(s) \in Nat /\ DOMAIN s = 1 .. Len(s)
  BY LenProperties
<1>3. DOMAIN Append(s, e) = 1 .. Len(s) + 1
  BY <1>1, LenProperties
<1>4. \A i \in 1 .. Len(s) + 1 : Fits(Append(s, e)[i])
  <2> TAKE i \in 1 .. Len(s) + 1
  <2>1. i \in 1 .. Len(s) \/ i = Len(s) + 1
    BY <1>2
  <2> QED  BY <1>1, <1>2, <2>1 DEF Ordered
<1>5. \A i, j \in 1 .. Len(s) + 1 :
        i < j => Append(s, e)[i].at < Append(s, e)[j].at
  <2> TAKE i \in 1 .. Len(s) + 1, j \in 1 .. Len(s) + 1
  <2> HAVE i < j
  <2>1. i \in 1 .. Len(s) /\ (j \in 1 .. Len(s) \/ j = Len(s) + 1)
    BY <1>2
  <2> QED  BY <1>1, <1>2, <2>1 DEF Ordered
<1> QED  BY <1>1, <1>3, <1>4, <1>5 DEF Ordered

\* And one whose records change in nothing but their lengths and contents.
LEMMA LengthWritten ==
  ASSUME NEW s \in Seq(Records), Ordered(s), NEW k \in 1 .. Len(s)
  PROVE  /\ [s EXCEPT ![k].len = TRUE] \in Seq(Records)
         /\ Len([s EXCEPT ![k].len = TRUE]) = Len(s)
         /\ Ordered([s EXCEPT ![k].len = TRUE])
         /\ \A i \in 1 .. Len(s) :
              LET e == [s EXCEPT ![k].len = TRUE][i]
              IN /\ i # k => e = s[i]
                 /\ e.at = s[i].at /\ e.u = s[i].u /\ e.size = s[i].size
                 /\ e.whole = s[i].whole /\ (i = k => e.len)
<1> DEFINE r == [s[k] EXCEPT !.len = TRUE]
           t == [s EXCEPT ![k] = r]
<1>1. /\ Len(s) \in Nat /\ DOMAIN s = 1 .. Len(s)
      /\ \A i \in 1 .. Len(s) : s[i] \in Records
  BY LenProperties, ElementOfSeq
<1>2. /\ r \in Records /\ r.at = s[k].at /\ r.u = s[k].u /\ r.size = s[k].size
      /\ r.whole = s[k].whole /\ r.len
  BY <1>1 DEF Records
<1>3. [s EXCEPT ![k].len = TRUE] = t
  OBVIOUS
<1> HIDE DEF r
<1>4. t \in Seq(Records) /\ Len(t) = Len(s)
      /\ \A i \in 1 .. Len(s) : t[i] = IF i = k THEN r ELSE s[i]
  BY <1>2, ExceptSeq
<1>5. \A i \in 1 .. Len(s) : t[i].at = s[i].at /\ t[i].size = s[i].size
  BY <1>2, <1>4
<1>6. DOMAIN t = 1 .. Len(s)
  BY <1>4, LenProperties
<1> HIDE DEF t
<1>7. Ordered(t)
  BY <1>1, <1>5, <1>6 DEF Ordered, Fits, End
<1> QED  BY <1>2, <1>3, <1>4, <1>7

LEMMA AppendNotEmpty ==
  ASSUME NEW s \in Seq(Records), NEW e
  PROVE  Append(s, e) # <<>>
<1> DEFINE T == Records \cup {e}
<1>1. Records \subseteq T /\ e \in T
  OBVIOUS
<1> HIDE DEF T
<1>2. s \in Seq(T)
  BY <1>1, SeqMonotonic
<1> QED  BY <1>1, <1>2, AppendProperties

LEMMA EmptyLog == <<>> \in Seq(Records) /\ Len(<<>>) = 0 /\ Ordered(<<>>)
BY EmptySeq DEF Ordered

\* The pages of a log.
LEMMA WrittenFacts ==
  ASSUME NEW s \in Seq(Records), Ordered(s), NEW p
  PROVE  OnPage(s, p) \in SUBSET Records /\ PageOK(OnPage(s, p))
<1>1. /\ Len(s) \in Nat /\ DOMAIN s = 1 .. Len(s)
      /\ \A i \in 1 .. Len(s) : s[i] \in Records /\ s[i].at \in Nat
  BY LenProperties, ElementOfSeq, EndFacts
<1>2. ToSet(s) = {s[i] : i \in 1 .. Len(s)}
  BY <1>1 DEF ToSet
<1>3. IsFiniteSet(ToSet(s))
  <2>1. IsFiniteSet(1 .. Len(s))
    BY <1>1, CountTo
  <2>2. IsFiniteSet({s[i] : i \in 1 .. Len(s)})
    BY <2>1, FiniteImage
  <2> QED  BY <1>2, <2>2
<1>4. OnPage(s, p) \in SUBSET ToSet(s)
  BY DEF OnPage
<1>5. IsFiniteSet(OnPage(s, p))
  BY <1>3, <1>4, FS_Subset
<1>6. \A e, f \in ToSet(s) : e.at = f.at => e = f
  <2> TAKE e \in ToSet(s), f \in ToSet(s)
  <2>1. PICK i \in 1 .. Len(s), j \in 1 .. Len(s) : e = s[i] /\ f = s[j]
    BY <1>2
  <2>2. i < j \/ j < i \/ i = j
    OBVIOUS
  <2> QED  BY <1>1, <2>1, <2>2 DEF Ordered
<1> QED  BY <1>1, <1>2, <1>4, <1>5, <1>6 DEF PageOK, Ordered

\* A page without its last records.
LEMMA CutPage ==
  ASSUME NEW S \in SUBSET Records, PageOK(S), NEW pos
  PROVE  /\ {e \in S : e.at < pos} \in SUBSET Records
         /\ PageOK({e \in S : e.at < pos})
BY FS_Subset DEF PageOK

-----------------------------------------------------------------------------
(* Types, and the order of the logs.                                       *)

LogInv == StateOK /\ LogsInv

\* A log, or the page of one, is replaced by a proper one.
LEMMA LogReplaced ==
  ASSUME LogInv, NEW v \in Version, NEW s \in Seq(Records), Ordered(s),
         cached' = [cached EXCEPT ![v] = s]
  PROVE  cached' \in [Version -> Seq(Records)]
         /\ \A w \in Version : Ordered(cached'[w])
BY DEF LogInv, LogsInv, StateOK

LEMMA LogFinished ==
  ASSUME LogInv, out \in Version, NEW n, Sync(n)
  PROVE  /\ disk' \in [Version -> [Page -> SUBSET Records]]
         /\ \A v \in Version, p \in Page : PageOK(disk'[v][p])
<1>1. \A p \in Page : /\ Written(cached[out])[p] \in SUBSET Records
                      /\ PageOK(Written(cached[out])[p])
  BY WrittenFacts DEF LogInv, LogsInv, StateOK, Written
<1>2. Written(cached[out]) \in [Page -> SUBSET Records]
  BY <1>1 DEF Written
<1> QED  BY <1>1, <1>2 DEF Sync, LogInv, LogsInv, StateOK

LEMMA EmptyPages ==
  /\ Written(<<>>) \in [Page -> SUBSET Records]
  /\ \A p \in Page : PageOK(Written(<<>>)[p])
<1>1. \A p \in Page : /\ Written(<<>>)[p] \in SUBSET Records
                      /\ PageOK(Written(<<>>)[p])
  BY EmptyLog, WrittenFacts DEF Written
<1> QED  BY <1>1 DEF Written

LEMMA NumberTypes ==
  /\ 0 \in 0 .. MaxVersions /\ 0 \in 0 .. MaxUpdates
  /\ Version \subseteq 0 .. MaxVersions
  /\ <<>> \in Value
BY BoundAssumption, EmptySeq DEF Version, Value

LEMMA LogInit == Init => LogInv
<1> SUFFICES ASSUME Init PROVE LogInv
  OBVIOUS
<1>1. /\ cached \in [Version -> Seq(Records)]
      /\ \A v \in Version : Ordered(cached[v])
  BY EmptyLog DEF Init
<1>2. /\ disk \in [Version -> [Page -> SUBSET Records]]
      /\ \A v \in Version, p \in Page : PageOK(disk[v][p])
  BY EmptyPages DEF Init
<1> QED  BY <1>1, <1>2, NumberTypes
         DEF Init, LogInv, StateOK, LogsInv, VersionFile

\* Steps of New and of Snapshot that leave the logs alone.
LEMMA LogBoot ==
  ASSUME LogInv, New \/ GetVersion \/ GetOldVersion \/ Snapshot
  PROVE  LogInv'
<1>1. CASE New
  BY <1>1, NumberTypes DEF New, LogInv, StateOK, LogsInv, files, writer, counters
<1>2. CASE GetVersion
  BY <1>2 DEF GetVersion, LogInv, StateOK, LogsInv, writer, counters, Valid,
              VersionFile
<1>3. CASE GetOldVersion
  BY <1>3, NumberTypes DEF GetOldVersion, LogInv, StateOK, LogsInv, writer,
              counters, Valid, VersionFile
<1>4. CASE Snapshot
  <2>1. version + 1 \in 0 .. MaxVersions
    BY <1>4, BoundAssumption DEF Snapshot, LogInv, StateOK
  <2>2. value' \in Value
    BY <1>4, NumberTypes DEF Snapshot, LogInv, StateOK
  <2> QED  BY <1>4, <2>1, <2>2 DEF Snapshot, LogInv, StateOK, LogsInv, files,
              writer, counters
<1> QED  BY <1>1, <1>2, <1>3, <1>4

LEMMA LogCommit ==
  ASSUME LogInv, WriteSnapshot \/ NewVersion \/ CommitToNewVersion \/ DropSnapshot
  PROVE  LogInv'
<1>1. CASE WriteSnapshot
  <2>1. snapshot' \in [Version -> {Absent, Torn} \cup Value]
    BY <1>1 DEF WriteSnapshot, LogInv, StateOK
  <2> QED  BY <1>1, <2>1 DEF WriteSnapshot, LogInv, StateOK, LogsInv, writer, counters
<1>2. CASE NewVersion
  <2>1. newFile' \in VersionFile
    BY <1>2 DEF NewVersion, LogInv, StateOK, VersionFile
  <2> QED  BY <1>2, <2>1 DEF NewVersion, LogInv, StateOK, LogsInv, writer, counters
<1>3. CASE CommitToNewVersion
  <2>1. newFile' \in VersionFile /\ versionFile' \in VersionFile
    BY <1>3 DEF CommitToNewVersion, LogInv, StateOK, VersionFile
  <2> QED  BY <1>3, <2>1 DEF CommitToNewVersion, LogInv, StateOK, LogsInv, writer,
              counters
<1>4. CASE DropSnapshot
  <2>1. snapshot' \in [Version -> {Absent, Torn} \cup Value]
    BY <1>4 DEF DropSnapshot, LogInv, StateOK
  <2> QED  BY <1>4, <2>1 DEF DropSnapshot, LogInv, StateOK, LogsInv, writer, counters
<1> QED  BY <1>1, <1>2, <1>3, <1>4

LEMMA LogOpen ==
  ASSUME LogInv, OpenLog, version \in Version
  PROVE  LogInv'
<1>1. /\ cached' \in [Version -> Seq(Records)]
      /\ \A w \in Version : Ordered(cached'[w])
  BY EmptyLog, LogReplaced DEF OpenLog
<1>2. /\ disk' \in [Version -> [Page -> SUBSET Records]]
      /\ \A v \in Version, p \in Page : PageOK(disk'[v][p])
  BY EmptyPages DEF OpenLog, LogInv, LogsInv, StateOK
<1>3. DOMAIN cached'[version] = {}
  BY EmptyLog DEF OpenLog, LogInv, StateOK
<1>4. logfile' \subseteq Version /\ out' \in 0 .. MaxVersions /\ index' \in Nat
  BY DEF OpenLog, LogInv, StateOK
<1> QED  BY <1>1, <1>2, <1>3, <1>4 DEF OpenLog, LogInv, StateOK, LogsInv, counters

LEMMA LogDrop ==
  ASSUME LogInv, DropLog
  PROVE  LogInv'
<1>1. \A v \in Version : cached'[v] = IF v = old THEN <<>> ELSE cached[v]
  BY DEF DropLog
<1>2. /\ cached' \in [Version -> Seq(Records)]
      /\ \A v \in Version : Ordered(cached'[v])
  BY EmptyLog DEF DropLog, LogInv, LogsInv, StateOK
<1>3. /\ disk' \in [Version -> [Page -> SUBSET Records]]
      /\ \A v \in Version, p \in Page : PageOK(disk'[v][p])
  BY EmptyPages DEF DropLog, LogInv, LogsInv, StateOK
<1>4. out # 0 => out \in Version
  BY DEF LogInv, StateOK, Version
<1>5. out # 0 => \A i \in DOMAIN cached'[out] : cached'[out][i].at < index
  BY <1>1, <1>4 DEF LogInv, LogsInv
<1>6. safe' \in Value /\ logfile' \subseteq Version
  BY DEF DropLog, LogInv, StateOK
<1> QED  BY <1>2, <1>3, <1>5, <1>6 DEF DropLog, LogInv, StateOK, LogsInv, counters,
                                      writer

\* The place where the reader stops is behind all it found.
LEMMA StopsBehind ==
  ASSUME NEW s \in Seq(Records), Ordered(s)
  PROVE  /\ Position(s, Len(s)) \in Nat
         /\ \A i \in 1 .. Len(s) : s[i].at < Position(s, Len(s))
         /\ Align(Position(s, Len(s))) = Position(s, Len(s))
<1>1. /\ Len(s) \in Nat /\ DOMAIN s = 1 .. Len(s)
      /\ \A i \in 1 .. Len(s) : s[i] \in Records
  BY LenProperties, ElementOfSeq
<1>2. CASE Len(s) = 0
  <2>1. 0 % PageSize = 0 /\ PageSize \in Nat \ {0} /\ IntBytes \in Nat
        /\ ~(0 > PageSize - IntBytes)
    BY LayoutAssumption
  <2>2. RoundUp(0) = 0
    BY <2>1, RoundUpFacts
  <2>3. Align(0) = 0
    BY <2>1, <2>2 DEF Align, Fills
  <2> QED  BY <1>2, <2>3 DEF Position
<1>3. CASE Len(s) # 0
  <2> DEFINE e == s[Len(s)]
  <2>1. e \in Records /\ Len(s) \in 1 .. Len(s)
    BY <1>1, <1>3
  <2>2. e.at \in Nat /\ End(e) \in Nat /\ e.at < End(e)
    BY <2>1, EndFacts
  <2>3. /\ Align(End(e)) = AlignRead(End(e)) /\ Align(End(e)) \in Nat
        /\ End(e) <= Align(End(e)) /\ Align(Align(End(e))) = Align(End(e))
    BY <2>2, AlignsAgree
  <2>4. Position(s, Len(s)) = AlignRead(End(e))
    BY <1>3 DEF Position
  <2>5. \A i \in 1 .. Len(s) : s[i].at \in Nat /\ s[i].at <= e.at
    <3> TAKE i \in 1 .. Len(s)
    <3>0. s[i] \in Records
      BY <1>1
    <3>1. \A n \in Nat : i \in 1 .. n => i = n \/ i < n
      OBVIOUS
    <3>2. s[i].at \in Nat
      BY <3>0, EndFacts
    <3>3. CASE i = Len(s)
      BY <2>2, <3>3
    <3>4. CASE i < Len(s)
      <4>1. s[i].at < s[Len(s)].at
        BY <1>1, <2>1, <3>4 DEF Ordered
      <4> QED  BY <2>2, <3>2, <4>1
    <3>5. Len(s) \in Nat /\ i \in 1 .. Len(s)
      BY <1>1
    <3>6. i = Len(s) \/ i < Len(s)
      BY <3>1, <3>5
    <3> QED  BY <3>3, <3>4, <3>6
  <2> HIDE DEF e
  <2> QED  BY <2>2, <2>3, <2>4, <2>5
<1> QED  BY <1>2, <1>3

\* The writer goes on behind all that the reader found: where the reader
\* stopped, if the file goes that far or the log is padded.
LEMMA Placed ==
  ASSUME NEW s \in Seq(Records), Ordered(s), NEW seek,
         \/ seek = Position(s, Len(s))
         \/ Len(s) # 0 /\ seek = End(s[Len(s)])
  PROVE  LET pos == Position(s, Len(s))
         IN /\ seek \in Nat /\ Place(pos, seek) \in Nat
            /\ \A i \in 1 .. Len(s) : s[i].at < Place(pos, seek)
            /\ seek = pos \/ Pad => Place(pos, seek) = pos
<1> DEFINE pos == Position(s, Len(s))
<1>1. /\ pos \in Nat /\ \A i \in 1 .. Len(s) : s[i].at < pos
      /\ Align(pos) = pos
  BY StopsBehind
<1>2. /\ Len(s) \in Nat
      /\ \A i \in 1 .. Len(s) : s[i] \in Records /\ s[i].at \in Nat
  BY LenProperties, ElementOfSeq, EndFacts
<1>3. CASE seek = pos
  <2>1. Place(pos, seek) = pos
    BY <1>1, <1>3 DEF Place, Align
  <2> QED  BY <1>1, <1>3, <2>1
<1>4. CASE Len(s) # 0 /\ seek = End(s[Len(s)])
  <2>1. Len(s) \in 1 .. Len(s) /\ pos = AlignRead(seek)
    BY <1>2, <1>4 DEF Position
  <2>2. /\ seek \in Nat /\ s[Len(s)].at \in Nat /\ s[Len(s)].at < seek
    BY <1>2, <1>4, <2>1, EndFacts
  <2>3. \A i \in 1 .. Len(s) : s[i].at < seek
    <3> TAKE i \in 1 .. Len(s)
    <3>1. i = Len(s) \/ i < Len(s)
      BY <1>2
    <3>2. DOMAIN s = 1 .. Len(s)
      BY LenProperties
    <3>3. CASE i < Len(s)
      <4>1. s[i].at < s[Len(s)].at
        BY <2>1, <3>2, <3>3 DEF Ordered
      <4> QED  BY <1>2, <2>2, <4>1
    <3> QED  BY <2>2, <3>1, <3>3
  <2>4. RoundUp(seek) \in Nat /\ seek <= RoundUp(seek)
    BY <2>2, RoundUpFacts
  <2>5. Place(pos, seek) \in Nat /\ seek <= Place(pos, seek)
    BY <2>2, <2>4 DEF Place
  <2>6. Pad => Place(pos, seek) = pos
    BY <2>1 DEF Place, Fills, AlignRead
  <2> HIDE DEF pos
  <2>7. \A i \in 1 .. Len(s) : s[i].at < Place(pos, seek)
    BY <1>2, <2>2, <2>3, <2>5
  <2> QED  BY <1>3, <2>2, <2>5, <2>6, <2>7 DEF pos
<1> QED  BY <1>3, <1>4

\* What Recover leaves of a log.
LEMMA Recovered ==
  ASSUME NEW s \in Seq(Records), Ordered(s)
  PROVE  LET found == SubSeq(s, 1, Complete(s))
             pos == IF found = <<>> THEN 0 ELSE AlignRead(End(Last(found)))
         IN /\ found \in Seq(Records) /\ Ordered(found)
            /\ Len(found) = Complete(s)
            /\ \A i \in 1 .. Complete(s) : found[i] = s[i]
            /\ pos = Position(found, Len(found)) /\ Align(pos) = pos
            /\ \A seek \in {pos, IF found = <<>> THEN pos ELSE End(Last(found))} :
                 /\ seek \in Nat /\ Place(pos, seek) \in Nat
                 /\ \A i \in 1 .. Len(found) : found[i].at < Place(pos, seek)
                 /\ seek = pos \/ Pad => Place(pos, seek) = pos
<1> DEFINE found == SubSeq(s, 1, Complete(s))
           pos == IF found = <<>> THEN 0 ELSE AlignRead(End(Last(found)))
<1>1. Complete(s) \in 0 .. Len(s)
  BY CompleteFacts
<1>2. /\ found \in Seq(Records) /\ Ordered(found) /\ Len(found) = Complete(s)
      /\ \A i \in 1 .. Complete(s) : found[i] = s[i]
  BY <1>1, FirstRecords
<1> HIDE DEF found
<1>3. found = <<>> <=> Len(found) = 0
  BY <1>2, EmptySeq
<1>4. pos = Position(found, Len(found))
  BY <1>3 DEF Position, Last
<1>5. Align(pos) = pos
  BY <1>2, <1>4, StopsBehind
<1>6. ASSUME NEW seek \in {pos, IF found = <<>> THEN pos ELSE End(Last(found))}
      PROVE  /\ seek \in Nat /\ Place(pos, seek) \in Nat
             /\ \A i \in 1 .. Len(found) : found[i].at < Place(pos, seek)
             /\ seek = pos \/ Pad => Place(pos, seek) = pos
  <2>1. seek = pos \/ (Len(found) # 0 /\ seek = End(found[Len(found)]))
    BY <1>3 DEF Last
  <2> QED  BY <1>2, <1>4, <2>1, Placed
<1> HIDE DEF pos
<1> QED  BY <1>2, <1>4, <1>5, <1>6 DEF found, pos

LEMMA LogRecover ==
  ASSUME LogInv, Recover
  PROVE  LogInv'
<1> DEFINE s == cached[version]
           found == SubSeq(s, 1, Complete(s))
           pos == IF found = <<>> THEN 0 ELSE AlignRead(End(Last(found)))
           seek == IF found = <<>> \/ pos <= length[version] THEN pos
                   ELSE End(Last(found))
<1>1. version \in Version /\ s \in Seq(Records) /\ Ordered(s)
  BY DEF Recover, LogInv, LogsInv, StateOK
<1>2. /\ found \in Seq(Records) /\ Ordered(found) /\ Place(pos, seek) \in Nat
      /\ \A i \in 1 .. Len(found) : found[i].at < Place(pos, seek)
  <2>1. seek \in {pos, IF found = <<>> THEN pos ELSE End(Last(found))}
    OBVIOUS
  <2> HIDE DEF seek
  <2> QED  BY <1>1, <2>1, Recovered
<1>3. cached' = [cached EXCEPT ![version] = found] /\ out' = version
      /\ index' = Place(pos, seek)
  BY DEF Recover
<1>4. /\ cached' \in [Version -> Seq(Records)]
      /\ \A w \in Version : Ordered(cached'[w])
  BY <1>1, <1>2, <1>3, LogReplaced
<1>5. /\ disk' \in [Version -> [Page -> SUBSET Records]]
      /\ \A v \in Version, p \in Page : PageOK(disk'[v][p])
  <2> DEFINE cut == [p \in Page |-> {e \in disk[version][p] : e.at < pos}]
  <2>1. disk' = [disk EXCEPT ![version] = cut]
    BY DEF Recover
  <2>4. \A p \in Page : disk[version][p] \in SUBSET Records
                        /\ PageOK(disk[version][p])
    BY <1>1 DEF LogInv, LogsInv, StateOK
  <2> HIDE DEF pos
  <2>2. \A p \in Page : cut[p] \in SUBSET Records /\ PageOK(cut[p])
    BY <2>4, CutPage
  <2>3. cut \in [Page -> SUBSET Records]
    BY <2>2
  <2> HIDE DEF cut
  <2> QED  BY <1>1, <2>1, <2>2, <2>3 DEF LogInv, LogsInv, StateOK
<1>6. /\ index' \in Nat
      /\ \A i \in DOMAIN cached'[version] : cached'[version][i].at < index'
  <2>1. cached'[version] = found
    BY <1>1, <1>3 DEF LogInv, StateOK
  <2> HIDE DEF found, pos, seek
  <2>2. DOMAIN found = 1 .. Len(found)
    BY <1>2, LenProperties
  <2> QED  BY <1>2, <1>3, <2>1, <2>2
<1>7. value' \in Value
  <2>1. snapshot[version] \in Value
    BY <1>1 DEF Recover, HasContents, LogInv, StateOK
  <2>2. UpdatesOf(s) \in Value
    BY <1>1, UpdatesType
  <2>3. value' = snapshot[version] \o UpdatesOf(s)
    BY DEF Recover
  <2> QED  BY <2>1, <2>2, <2>3, ConcatProperties DEF Value
<1> HIDE DEF found, pos, seek, s
<1> QED  BY <1>1, <1>3, <1>4, <1>5, <1>6, <1>7, NumberTypes
         DEF Recover, LogInv, StateOK, LogsInv, counters

LEMMA LogRecord ==
  ASSUME LogInv, NEW force \in BOOLEAN, NEW size \in Sizes, LogUpdate(force, size)
  PROVE  LogInv'
<1> DEFINE e == Record(size)
           s == cached[out]
<1>1. out \in Version /\ s \in Seq(Records) /\ Ordered(s)
  BY DEF LogUpdate, LogInv, LogsInv, StateOK, Version
<1>2. updates + 1 \in Update /\ updates + 1 \in 0 .. MaxUpdates
  BY BoundAssumption DEF LogUpdate, LogInv, StateOK, Update
<1>3. e \in Records /\ e.at = index /\ Fits(e)
  <2>1. e \in Records /\ e.at = index
    BY <1>2 DEF Record, Records, LogInv, StateOK
  <2>2. PageOf(End(e)) <= MaxPages
    BY DEF LogUpdate
  <2> QED  BY <2>1, <2>2 DEF Fits
<1>4. \A i \in DOMAIN s : s[i].at < e.at
  BY <1>1, <1>3 DEF LogUpdate, LogInv, LogsInv
<1>5. Append(s, e) \in Seq(Records) /\ Ordered(Append(s, e))
  BY <1>1, <1>3, <1>4, OneMoreRecord
<1>6. cached' = [cached EXCEPT ![out] = Append(s, e)] /\ index' = End(e)
  BY DEF LogUpdate
<1>7. /\ cached' \in [Version -> Seq(Records)]
      /\ \A w \in Version : Ordered(cached'[w])
  BY <1>1, <1>5, <1>6, LogReplaced
<1>8. /\ index' \in Nat
      /\ \A i \in DOMAIN cached'[out] : cached'[out][i].at < index'
  <2>1. cached'[out] = Append(s, e)
    BY <1>1, <1>6 DEF LogInv, StateOK
  <2>2. e.at \in Nat /\ End(e) \in Nat /\ e.at < End(e)
    BY <1>3, EndFacts
  <2>3. /\ DOMAIN Append(s, e) = 1 .. Len(s) + 1 /\ DOMAIN s = 1 .. Len(s)
        /\ Len(s) \in Nat
        /\ \A i \in 1 .. Len(s) : Append(s, e)[i] = s[i]
        /\ Append(s, e)[Len(s) + 1] = e
    BY <1>1, <1>3, <1>5, AppendProperties, LenProperties
  <2>4. \A i \in 1 .. Len(s) : s[i].at \in Nat /\ s[i].at < e.at
    BY <1>1, <1>4, <2>3, ElementOfSeq, EndFacts
  <2> HIDE DEF e, s
  <2>5. \A i \in 1 .. Len(s) + 1 : Append(s, e)[i].at < End(e)
    <3> TAKE i \in 1 .. Len(s) + 1
    <3>1. i \in 1 .. Len(s) \/ i = Len(s) + 1
      BY <2>3
    <3> QED  BY <2>2, <2>3, <2>4, <3>1
  <2> QED  BY <1>6, <2>1, <2>2, <2>3, <2>5
<1>9. updates' \in 0 .. MaxUpdates /\ forced' \in BOOLEAN
  BY <1>2 DEF LogUpdate
<1> HIDE DEF e, s
<1> QED  BY <1>7, <1>8, <1>9 DEF LogUpdate, LogInv, StateOK, LogsInv

LEMMA LogWritten ==
  ASSUME LogInv, SyncContents \/ WriteLength \/ Finish, out \in Version,
         cached[out] # <<>>
  PROVE  LogInv'
<1> DEFINE s == cached[out]
<1>0. s \in Seq(Records) /\ Ordered(s) /\ Len(s) \in 1 .. Len(s)
  BY EmptySeq DEF LogInv, LogsInv, StateOK
<1>1. CASE SyncContents
  <2>1. /\ disk' \in [Version -> [Page -> SUBSET Records]]
        /\ \A v \in Version, p \in Page : PageOK(disk'[v][p])
    BY <1>1, LogFinished DEF SyncContents
  <2> QED  BY <1>1, <2>1 DEF SyncContents, LogInv, StateOK, LogsInv, writer, counters
<1>2. CASE WriteLength
  <2> DEFINE t == [s EXCEPT ![Len(s)].len = TRUE]
  <2>1. cached' = [cached EXCEPT ![out] = t] /\ index' = Align(index)
    BY <1>2 DEF WriteLength
  <2>2. /\ t \in Seq(Records) /\ Len(t) = Len(s) /\ Ordered(t)
        /\ \A i \in 1 .. Len(s) : t[i].at = s[i].at
    BY <1>0, LengthWritten
  <2>3. /\ cached' \in [Version -> Seq(Records)]
        /\ \A w \in Version : Ordered(cached'[w])
    <3> HIDE DEF t
    <3> QED  BY <2>1, <2>2, LogReplaced
  <2>4. index \in Nat /\ index' \in Nat /\ index <= index'
    BY <2>1, AlignsAgree DEF LogInv, StateOK
  <2>5. DOMAIN t = 1 .. Len(s) /\ DOMAIN s = 1 .. Len(s)
    BY <1>0, <2>2, LenProperties
  <2>a. out # 0
    BY DEF Version
  <2>b. \A i \in 1 .. Len(s) : s[i] \in Records /\ s[i].at < index
    BY <1>0, <2>5, <2>a, ElementOfSeq DEF LogInv, LogsInv
  <2>6. \A i \in 1 .. Len(s) : s[i].at \in Nat /\ s[i].at < index
    BY <2>b, EndFacts
  <2>7. cached'[out] = t
    BY <2>1 DEF LogInv, StateOK
  <2> HIDE DEF t, s
  <2>8. \A i \in DOMAIN cached'[out] : cached'[out][i].at < index'
    BY <2>2, <2>4, <2>5, <2>6, <2>7
  <2> QED  BY <1>2, <2>3, <2>4, <2>8 DEF WriteLength, LogInv, StateOK, LogsInv,
                                         counters
<1>3. CASE Finish
  <2>1. /\ disk' \in [Version -> [Page -> SUBSET Records]]
        /\ \A v \in Version, p \in Page : PageOK(disk'[v][p])
    <3>1. Sync(index) \/ UNCHANGED disk
      BY <1>3 DEF Finish
    <3> QED  BY <3>1, LogFinished DEF LogInv, LogsInv, StateOK
  <2>2. value' \in Value /\ safe' \in Value
    <3>1. updates \in Update \cup {Garbage}
      BY DEF LogInv, StateOK, Update, Garbage
    <3>2. Append(value, updates) \in Value
      BY <3>1, AppendProperties DEF LogInv, StateOK, Value
    <3> QED  BY <1>3, <3>2 DEF Finish, LogInv, StateOK
  <2> QED  BY <1>3, <2>1, <2>2 DEF Finish, LogInv, StateOK, LogsInv, writer, counters
<1> QED  BY <1>1, <1>2, <1>3

\* A program that ends leaves the logs alone.
LEMMA LogEnds ==
  ASSUME LogInv, Ends
  PROVE  /\ version' \in 0 .. MaxVersions /\ old' \in 0 .. MaxVersions
         /\ out' \in 0 .. MaxVersions /\ index' \in Nat /\ forced' \in BOOLEAN
         /\ value' \in Value /\ out' = 0
BY NumberTypes DEF Ends

LEMMA LogFails ==
  ASSUME LogInv, Raise \/ Close \/ Crash
  PROVE  LogInv'
<1>1. CASE Ends /\ UNCHANGED <<versionFile, newFile, snapshot, logfile, cached,
                               disk, updates, safe>>
  BY <1>1, LogEnds DEF LogInv, StateOK, LogsInv
<1>2. CASE Raise
  <2> DEFINE Goes ==
        /\ newFile' \in {newFile, Absent} /\ versionFile' \in {versionFile, 0}
        /\ version' \in {version, 0} /\ out' \in {0, out}
        /\ UNCHANGED <<old, index, forced, value>>
  <2>1. (Ends /\ UNCHANGED <<versionFile, newFile>>) \/ Goes
    BY <1>2 DEF Raise, writer
  <2>2. UNCHANGED <<snapshot, logfile, cached, disk, updates, safe>>
    BY <1>2 DEF Raise
  <2>3. CASE Ends /\ UNCHANGED <<versionFile, newFile>>
    BY <1>1, <2>2, <2>3
  <2>4. CASE Goes
    <3>1. /\ newFile' \in VersionFile /\ versionFile' \in VersionFile
          /\ version' \in 0 .. MaxVersions /\ out' \in 0 .. MaxVersions
      BY <2>4, NumberTypes DEF LogInv, StateOK, VersionFile
    <3> QED  BY <2>2, <2>4, <3>1 DEF LogInv, StateOK, LogsInv
  <2> QED  BY <2>1, <2>3, <2>4
<1>3. CASE Close
  BY <1>1, <1>3 DEF Close, files, counters
<1>4. CASE Crash
  BY <1>1, <1>4 DEF Crash, files
<1> QED  BY <1>2, <1>3, <1>4

LEMMA LogCrash ==
  ASSUME LogInv, MachineCrash
  PROVE  LogInv'
<1>1. \A v \in Version : OnDisk(disk[v]) \in Seq(Records)
                         /\ Ordered(OnDisk(disk[v]))
  BY OnDiskFacts DEF LogInv, LogsInv, StateOK
<1>2. cached' = [v \in Version |-> OnDisk(disk[v])] /\ Ends
  BY DEF MachineCrash
<1>3. /\ cached' \in [Version -> Seq(Records)]
      /\ \A w \in Version : Ordered(cached'[w])
  BY <1>1, <1>2
<1> QED  BY <1>2, <1>3, LogEnds DEF MachineCrash, LogInv, StateOK, LogsInv

LEMMA LogWriteback ==
  ASSUME LogInv, NEW v \in Version, NEW p \in Page, Writeback(v, p)
  PROVE  LogInv'
<1>1. OnPage(cached[v], p) \in SUBSET Records /\ PageOK(OnPage(cached[v], p))
  BY WrittenFacts DEF LogInv, LogsInv, StateOK
<1>2. /\ disk' \in [Version -> [Page -> SUBSET Records]]
      /\ \A w \in Version, q \in Page : PageOK(disk'[w][q])
  BY <1>1 DEF Writeback, LogInv, LogsInv, StateOK
<1> QED  BY <1>2 DEF Writeback, LogInv, StateOK, LogsInv, writer, counters

-----------------------------------------------------------------------------
(* The version files.                                                      *)

Inv == LogInv /\ SizesOK /\ FilesInv

\* Nothing but the sizes of files changes.
AllButSizes ==
  <<versionFile, newFile, snapshot, logfile, cached, disk, pc, caller, version,
    old, writer, value, counters, safe>>

LEMMA SizesAlone ==
  ASSUME (\E v \in Version : WriteSize(v)) \/ UNCHANGED vars
  PROVE  UNCHANGED AllButSizes
BY DEF WriteSize, vars, files, AllButSizes

LEMMA VersionFacts ==
  ASSUME LogInv, NEW f \in {versionFile, newFile}, Valid(f)
  PROVE  f \in Version
BY DEF LogInv, StateOK, VersionFile, Valid, Version

\* Names of files and numbers of versions are told apart.
LEMMA Names ==
  /\ ~Valid(Absent) /\ ~Valid(Torn) /\ ~Valid(0)
  /\ \A v \in Version : Valid(v) /\ v # 0
  /\ \A s \in Value : HasContents(s)
<1>1. Version \subseteq Nat \ {0}
  BY BoundAssumption DEF Version
<1>2. \A s \in Value : s \in Seq(Nat)
  <2>1. Update \cup {Garbage} \subseteq Nat
    BY BoundAssumption DEF Update, Garbage
  <2> QED  BY <2>1, SeqMonotonic DEF Value
<1> QED  BY <1>1, <1>2, NameAssumption DEF Valid, HasContents

LEMMA FilesInit == Init => FilesInv /\ SizesOK
BY Names DEF Init, FilesInv, Uncommitted, Committing, Dropping, InCall, InSnapshot,
             SizesOK

LEMMA FilesBoot ==
  ASSUME Inv, New \/ GetVersion \/ GetOldVersion \/ Snapshot
  PROVE  FilesInv'
<1> USE DEF Inv, FilesInv, Uncommitted, Committing, Dropping, InCall, InSnapshot
<1>1. CASE New
  BY <1>1 DEF New, files, Usable
<1>2. CASE GetVersion
  BY <1>2, VersionFacts, Names DEF GetVersion, Usable
<1>3. CASE GetOldVersion
  BY <1>3, VersionFacts, Names DEF GetOldVersion, Usable
<1>4. CASE Snapshot
  <2>1. version \in 0 .. MaxVersions /\ version + 1 \in Version
    BY <1>4, BoundAssumption DEF Snapshot, LogInv, StateOK, Version
  <2>2. \A f \in {versionFile, newFile} : Valid(f) => f \in Nat /\ f < version + 1
    <3> TAKE f \in {versionFile, newFile}
    <3> HAVE Valid(f)
    <3>1. f \in Version
      BY VersionFacts
    <3>2. pc = "create" => f = 0
      BY Names
    <3>3. f <= version
      BY <1>4, <3>2, Names DEF Snapshot
    <3> QED  BY <2>1, <3>1, <3>3 DEF Version
  <2> QED  BY <1>4, <2>1, <2>2 DEF Snapshot, files, Usable
<1> QED  BY <1>1, <1>2, <1>3, <1>4

LEMMA FilesCommit ==
  ASSUME Inv, WriteSnapshot \/ OpenLog \/ NewVersion \/ CommitToNewVersion
  PROVE  FilesInv'
<1> USE DEF Inv, FilesInv, Uncommitted, Committing, Dropping, InCall, InSnapshot
<1>1. CASE WriteSnapshot
  <2>1. version \in Version /\ HasContents(value)
    BY <1>1, Names DEF WriteSnapshot, LogInv, StateOK
  <2>2. \A f \in {versionFile, newFile} :
          Valid(f) => f \in Version /\ f < version /\ f # version
    BY <1>1, <2>1, VersionFacts DEF WriteSnapshot, Version
  <2>3. \A v \in Version : v # version => (Usable(v) => Usable(v)')
    BY <1>1 DEF WriteSnapshot, Usable, LogInv, StateOK
  <2>4. pc = "writeSnapshot" => HasContents(snapshot'[version])
    BY <1>1, <2>1 DEF WriteSnapshot, LogInv, StateOK
  <2> QED  BY <1>1, <2>1, <2>2, <2>3, <2>4 DEF WriteSnapshot
<1>2. CASE OpenLog
  <2>1. \A v \in Version : Usable(v) => Usable(v)'
    BY <1>2 DEF OpenLog, Usable
  <2>2. Usable(version)'
    BY <1>2 DEF OpenLog, Usable
  <2> QED  BY <1>2, <2>1, <2>2, VersionFacts DEF OpenLog
<1>3. CASE NewVersion
  <2>1. \A v : Usable(v) => Usable(v)'
    BY <1>3 DEF NewVersion, Usable
  <2>2. version \in Version
        /\ (Valid(versionFile) => versionFile \in Version /\ versionFile < version)
    BY <1>3, VersionFacts DEF NewVersion, Usable
  <2>3. Valid(versionFile) => versionFile <= version
    BY <2>2 DEF Version
  <2> QED  BY <1>3, <2>1, <2>2, <2>3, Names DEF NewVersion
<1>4. CASE CommitToNewVersion
  <2>1. \A v : Usable(v) => Usable(v)'
    BY <1>4 DEF CommitToNewVersion, Usable
  <2>2. version \in Version /\ version <= version
    BY <1>4 DEF CommitToNewVersion, Usable, Version
  <2> QED  BY <1>4, <2>1, <2>2, Names DEF CommitToNewVersion
<1> QED  BY <1>1, <1>2, <1>3, <1>4

LEMMA FilesDrop ==
  ASSUME Inv, DropSnapshot \/ DropLog
  PROVE  FilesInv'
<1> USE DEF Inv, FilesInv, Uncommitted, Committing, Dropping, InCall, InSnapshot
<1>1. /\ version \in Version /\ versionFile = version /\ newFile = Absent
      /\ old \in 0 .. MaxVersions /\ old < version /\ Usable(version)
      /\ caller # "boot"
  BY DEF DropSnapshot, DropLog, Usable, LogInv, StateOK
<1>2. \A v \in Version : v # old => (Usable(v) => Usable(v)')
  BY DEF DropSnapshot, DropLog, Usable, LogInv, StateOK
<1>3. version # old
  BY <1>1 DEF Version
<1>4. Usable(version)'
  BY <1>1, <1>2, <1>3 DEF DropSnapshot, DropLog
<1>5. UNCHANGED <<versionFile, newFile, caller, version, old>>
      /\ pc' \in {"dropLog", "run", "recover"} /\ (pc' = "dropLog" => pc = "dropSnapshot")
  BY DEF DropSnapshot, DropLog
<1> QED  BY <1>1, <1>4, <1>5, Names DEF Version

LEMMA FilesUpdate ==
  ASSUME Inv, Recover \/ UpdateStep
  PROVE  FilesInv'
<1> USE DEF Inv, FilesInv, Uncommitted, Committing, Dropping, InCall, InSnapshot
<1>1. UNCHANGED <<versionFile, newFile, snapshot, logfile, version, caller, old>>
  BY DEF Recover, UpdateStep, LogUpdate, SyncContents, WriteLength, Finish
<1>2. \A v : Usable(v) => Usable(v)'
  BY <1>1 DEF Usable
<1>3. CASE Recover
  <2>1. pc = "recover" /\ pc' = "run"
    BY <1>3 DEF Recover
  <2>2. version \in Version /\ version <= version
    BY <2>1 DEF Usable, Version
  <2> QED  BY <1>1, <1>2, <2>1, <2>2, Names
<1>4. CASE UpdateStep
  <2>1. pc \in {"run", "syncContents", "writeLength", "finish"}
        /\ pc' \in {"run", "syncContents", "writeLength", "finish"}
    BY <1>4 DEF UpdateStep, LogUpdate, SyncContents, WriteLength, Finish
  <2>2. pc' # "run" => out' \in Version /\ cached'[out'] # <<>>
    <3>1. ASSUME NEW force \in BOOLEAN, NEW size \in Sizes, LogUpdate(force, size)
          PROVE  out' \in Version /\ cached'[out'] # <<>>
      <4>1. out \in Version /\ out' = out
        BY <3>1 DEF LogUpdate, LogInv, StateOK, Version
      <4>2. cached'[out] = Append(cached[out], Record(size))
        BY <3>1, <4>1 DEF LogUpdate, LogInv, StateOK
      <4>3. cached[out] \in Seq(Records)
        BY <4>1 DEF LogInv, StateOK
      <4>4. Append(cached[out], Record(size)) # <<>>
        BY <4>3, AppendNotEmpty
      <4> QED  BY <4>1, <4>2, <4>4
    <3>2. CASE SyncContents
      BY <3>2 DEF SyncContents, writer
    <3>3. CASE WriteLength
      <4>1. out \in Version /\ cached[out] # <<>> /\ out' = out
        BY <3>3 DEF WriteLength
      <4>2. cached[out] \in Seq(Records) /\ Ordered(cached[out])
            /\ Len(cached[out]) \in 1 .. Len(cached[out])
        BY <4>1, EmptySeq DEF LogInv, LogsInv, StateOK
      <4>3. cached'[out] = [cached[out] EXCEPT ![Len(cached[out])].len = TRUE]
        BY <3>3, <4>1 DEF WriteLength, LogInv, StateOK
      <4>4. Len(cached'[out]) = Len(cached[out])
        BY <4>2, <4>3, LengthWritten
      <4> QED  BY <4>1, <4>2, <4>4, EmptyLog
    <3>4. CASE Finish
      BY <3>4 DEF Finish
    <3> QED  BY <1>4, <3>1, <3>2, <3>3, <3>4 DEF UpdateStep
  <2> QED  BY <1>1, <1>2, <2>1, <2>2
<1> QED  BY <1>3, <1>4

LEMMA FilesFails ==
  ASSUME Inv, Raise \/ Close \/ Crash \/ MachineCrash
  PROVE  FilesInv'
<1> USE DEF Inv, FilesInv, Uncommitted, Committing, Dropping, InCall, InSnapshot
<1>1. UNCHANGED <<snapshot, logfile>>
  BY DEF Raise, Close, Crash, MachineCrash, files
<1>2. \A v : Usable(v) => Usable(v)'
  BY <1>1 DEF Usable
<1>3. CASE Ends /\ UNCHANGED <<versionFile, newFile>>
  BY <1>1, <1>2, <1>3 DEF Ends
<1>4. CASE Raise /\ ~(Ends /\ UNCHANGED <<versionFile, newFile>>)
  <2>1. CASE /\ pc' = "getOldVersion" /\ newFile' = Absent
             /\ UNCHANGED <<versionFile, caller, version, old, writer, value>>
    BY <1>1, <1>2, <2>1, Names DEF writer
  <2>3. CASE /\ pc = "getOldVersion" /\ pc' = "create"
             /\ version' = 0 /\ versionFile' = 0 /\ UNCHANGED <<newFile, caller>>
    BY <1>1, <1>2, <2>3, Names
  <2>2. CASE /\ Running
             /\ pc' = "run"
             /\ UNCHANGED <<versionFile, newFile, caller, version, old>>
    <3>1. \A f \in {versionFile, newFile} : Valid(f) => f <= version
      <4> TAKE f \in {versionFile, newFile}
      <4> HAVE Valid(f)
      <4>1. f \in Version /\ version \in 0 .. MaxVersions /\ f # Absent
        BY VersionFacts, Names DEF LogInv, StateOK
      <4>2. f \in Nat /\ version \in Nat
        BY <4>1 DEF Version
      <4>3. \/ pc = "run" \/ InCall \/ pc \in Uncommitted
            \/ (pc \in Committing /\ caller # "boot") \/ pc \in Dropping
        BY <2>2 DEF Running
      <4> QED  BY <4>1, <4>2, <4>3
    <3> QED  BY <1>1, <1>2, <2>2, <3>1
  <2> QED  BY <1>4, <2>1, <2>2, <2>3 DEF Raise
<1> QED  BY <1>3, <1>4 DEF Close, Crash, MachineCrash, files

\* Every step keeps the types of the lengths of the logs.
LEMMA SizesStep ==
  ASSUME Inv, LogInv', [Next]_vars
  PROVE  SizesOK'
<1>0. length \in [Version -> Nat] /\ stable \in [Version -> Nat] /\ index \in Nat
  BY DEF Inv, SizesOK, LogInv, StateOK
<1>f. Flushed \in [Version -> Nat]
  BY <1>0 DEF Flushed
<1>1. CASE UNCHANGED sizes
  BY <1>0, <1>1 DEF sizes, SizesOK
<1>2. CASE OpenLog
  BY <1>0, <1>f, <1>2 DEF OpenLog, SizesOK
<1>3. CASE DropLog
  BY <1>0, <1>3 DEF DropLog, SizesOK
<1>4. CASE Recover
  <2> DEFINE s == cached[version]
             found == SubSeq(s, 1, Complete(s))
             pos == IF found = <<>> THEN 0 ELSE AlignRead(End(Last(found)))
             seek == IF found = <<>> \/ pos <= length[version] THEN pos
                     ELSE End(Last(found))
  <2>1. s \in Seq(Records) /\ Ordered(s)
    BY <1>4 DEF Recover, Inv, LogInv, LogsInv, StateOK
  <2>2. seek \in {pos, IF found = <<>> THEN pos ELSE End(Last(found))}
    OBVIOUS
  <2>3. /\ length' = [length EXCEPT ![version] = seek]
        /\ stable' = [stable EXCEPT ![version] = IF seek < @ THEN seek ELSE @]
    BY <1>4 DEF Recover
  <2> HIDE DEF seek
  <2>4. seek \in Nat
    BY <2>1, <2>2, Recovered
  <2> QED  BY <1>0, <2>3, <2>4 DEF SizesOK
<1>5. ASSUME NEW force \in BOOLEAN, NEW size \in Sizes, LogUpdate(force, size)
      PROVE  SizesOK'
  <2>1. /\ length' = [length EXCEPT ![out] = index'] /\ UNCHANGED stable
    BY <1>5 DEF LogUpdate
  <2>2. index' \in Nat
    BY DEF LogInv, StateOK
  <2> QED  BY <1>0, <2>1, <2>2 DEF SizesOK
<1>6. CASE SyncContents \/ Finish
  <2>1. \/ length' = length /\ stable' = [stable EXCEPT ![out] = length[out]]
        \/ length' = Flushed /\ stable' = [stable EXCEPT ![out] = index]
        \/ UNCHANGED sizes
    BY <1>6 DEF SyncContents, Finish, Sync
  <2> QED  BY <1>0, <1>1, <1>f, <2>1 DEF SizesOK
<1>7. CASE length' \in {length, Flushed, stable} /\ UNCHANGED stable
  BY <1>0, <1>f, <1>7 DEF SizesOK
<1>8. ASSUME NEW v \in Version, WriteSize(v) PROVE SizesOK'
  BY <1>0, <1>8 DEF WriteSize, SizesOK
<1>9. Raise \/ Close \/ Crash \/ MachineCrash
        => length' \in {length, Flushed, stable} /\ UNCHANGED stable
  BY DEF Raise, Close, Crash, MachineCrash, files, sizes
<1>10. \/ New \/ GetVersion \/ GetOldVersion \/ Snapshot \/ WriteSnapshot
       \/ NewVersion \/ CommitToNewVersion \/ DropSnapshot \/ WriteLength
       \/ UNCHANGED vars \/ \E v \in Version, p \in Page : Writeback(v, p)
       => UNCHANGED sizes
  BY DEF New, GetVersion, GetOldVersion, Snapshot, WriteSnapshot, NewVersion,
         CommitToNewVersion, DropSnapshot, WriteLength, Writeback, vars, files
<1> QED  BY <1>1, <1>2, <1>3, <1>4, <1>5, <1>6, <1>7, <1>8, <1>9, <1>10
         DEF Next, Boot, SnapshotStep, UpdateStep

LEMMA FilesWriteback ==
  ASSUME Inv, NEW v \in Version, NEW p \in Page, Writeback(v, p)
  PROVE  FilesInv'
BY DEF Inv, FilesInv, Uncommitted, Committing, Dropping, InCall, InSnapshot,
       Usable, Writeback, writer

LEMMA InvStutter ==
  ASSUME LogInv, FilesInv, UNCHANGED AllButSizes
  PROVE  LogInv' /\ FilesInv'
BY DEF LogInv, StateOK, LogsInv, FilesInv, Uncommitted, Committing, Dropping,
       InCall, InSnapshot, Usable, AllButSizes, writer, counters

\* Every step keeps the types, the order of the logs and the version files.
LEMMA InvStep == Inv /\ [Next]_vars => Inv'
<1> SUFFICES ASSUME Inv, [Next]_vars PROVE Inv'
  OBVIOUS
<1>0. LogInv /\ FilesInv
  BY DEF Inv
<1>s. ASSUME LogInv', FilesInv' PROVE Inv'
  BY <1>s, SizesStep DEF Inv
<1>1. CASE Boot
  <2>1. LogInv'
    BY <1>0, <1>1, LogBoot, LogRecover DEF Boot
  <2>2. FilesInv'
    BY <1>1, FilesBoot, FilesUpdate DEF Boot
  <2> QED  BY <1>s, <2>1, <2>2
<1>2. CASE SnapshotStep
  <2>1. OpenLog => version \in Version
    BY DEF OpenLog, Inv, FilesInv, Uncommitted
  <2>2. LogInv'
    BY <1>0, <1>2, <2>1, LogBoot, LogCommit, LogOpen, LogDrop DEF SnapshotStep
  <2>3. FilesInv'
    BY <1>2, FilesBoot, FilesCommit, FilesDrop DEF SnapshotStep
  <2> QED  BY <1>s, <2>2, <2>3
<1>3. CASE UpdateStep
  <2>1. SyncContents \/ WriteLength \/ Finish
          => out \in Version /\ cached[out] # <<>>
    BY DEF Inv, FilesInv, InCall, SyncContents, WriteLength, Finish
  <2>2. LogInv'
    BY <1>0, <1>3, <2>1, LogRecord, LogWritten DEF UpdateStep
  <2>3. FilesInv'
    BY <1>3, FilesUpdate
  <2> QED  BY <1>s, <2>2, <2>3
<1>4. CASE Raise \/ Close \/ Crash \/ MachineCrash
  <2>1. LogInv'
    BY <1>0, <1>4, LogFails, LogCrash
  <2>2. FilesInv'
    BY <1>4, FilesFails
  <2> QED  BY <1>s, <2>1, <2>2
<1>5. CASE \E v \in Version, p \in Page : Writeback(v, p)
  <2>1. PICK v \in Version, p \in Page : Writeback(v, p)
    BY <1>5
  <2>2. LogInv'
    BY <1>0, <2>1, LogWriteback
  <2>3. FilesInv'
    BY <2>1, FilesWriteback
  <2> QED  BY <1>s, <2>2, <2>3
<1>6. CASE (\E v \in Version : WriteSize(v)) \/ UNCHANGED vars
  BY <1>0, <1>s, <1>6, SizesAlone, InvStutter
<1> QED  BY <1>1, <1>2, <1>3, <1>4, <1>5, <1>6 DEF Next

LEMMA InvHolds == Spec => []Inv
<1>1. Init => Inv
  BY LogInit, FilesInit DEF Inv
<1> QED  BY <1>1, InvStep, PTL DEF Spec

\* Every variable has its type, for every size of pages and of records.
THEOREM TypeCorrect == Spec => []TypeOK
<1>1. Inv => TypeOK
  BY DEF Inv, LogInv, TypeOK
<1> QED  BY <1>1, InvHolds, PTL

\* Whatever operations on files fail, and whatever steps of Snapshot and of
\* GetVersion a crash comes between, GetVersion finds a version with a
\* snapshot that is complete and with a log.
THEOREM RecoveryCorrect == Spec => []RecoverySucceeds
<1>1. Inv => RecoverySucceeds
  <2> SUFFICES ASSUME Inv, Current # 0
               PROVE  HasContents(snapshot[Current]) /\ Current \in logfile
    BY DEF RecoverySucceeds
  <2>1. \E f \in {versionFile, newFile} : Valid(f) /\ Current = f
    BY DEF Current
  <2> QED  BY <2>1 DEF Inv, FilesInv, Usable
<1> QED  BY <1>1, InvHolds, PTL

-----------------------------------------------------------------------------
(* Prefixes.                                                               *)

\* What is a prefix stays one when something is appended.
LEMMA PrefixGrows ==
  ASSUME NEW s \in Value, NEW t \in Value, NEW u \in Value, IsPrefix(s, t)
  PROVE  t \o u \in Value /\ IsPrefix(s, t \o u)
<1>1. t \o u \in Value /\ Len(t \o u) = Len(t) + Len(u)
  BY ConcatProperties DEF Value
<1>2. Len(s) \in Nat /\ Len(t) \in Nat /\ Len(u) \in Nat
  BY LenProperties DEF Value
<1>3. SubSeq(t, 1, Len(s)) = SubSeq(s, 1, Len(s)) /\ Len(t) >= Len(s)
  BY DEF IsPrefix
<1>4. CASE Len(s) = 0
  <2>1. SubSeq(<<>>, 1, 0) = <<>> /\ SubSeq(t \o u, 1, 0) = <<>>
        /\ SubSeq(s, 1, 0) = <<>>
    BY SubSeqEmpty
  <2> QED  BY <1>1, <1>2, <1>4, <2>1 DEF IsPrefix
<1>5. CASE Len(s) # 0
  <2>1. 1 \in 1 .. Len(t) /\ Len(s) \in 1 .. Len(t)
    BY <1>2, <1>3, <1>5
  <2>2. SubSeq(t \o u, 1, Len(s)) = SubSeq(t, 1, Len(s))
    BY <2>1, SubSeqOfConcat1 DEF Value
  <2> QED  BY <1>1, <1>2, <1>3, <2>2 DEF IsPrefix
<1> QED  BY <1>1, <1>4, <1>5

\* The empty sequence is a prefix of every one, and each of itself.
LEMMA PrefixSelf ==
  ASSUME NEW s \in Value
  PROVE  IsPrefix(s, s) /\ IsPrefix(<<>>, s)
<1>1. Len(s) \in Nat /\ Len(<<>>) = 0
  BY LenProperties, EmptySeq DEF Value
<1>2. SubSeq(<<>>, 1, 0) = <<>> /\ SubSeq(s, 1, 0) = <<>>
  BY SubSeqEmpty
<1> QED  BY <1>1, <1>2 DEF IsPrefix

\* The first elements of a value.
LEMMA FirstUpdates ==
  ASSUME NEW t \in Value, NEW k \in 0 .. Len(t)
  PROVE  /\ SubSeq(t, 1, k) \in Value /\ Len(SubSeq(t, 1, k)) = k
         /\ \A i \in 1 .. k : SubSeq(t, 1, k)[i] = t[i]
         /\ SubSeq(t, k + 1, Len(t)) \in Value
         /\ SubSeq(t, 1, k) \o SubSeq(t, k + 1, Len(t)) = t
<1> DEFINE V == Update \cup {Garbage}
<1>1. /\ Len(t) \in Nat /\ k \in Nat /\ k <= Len(t) /\ t \in Seq(V)
      /\ \A i \in 1 .. Len(t) : t[i] \in V
  BY LenProperties, ElementOfSeq DEF Value
<1>2. /\ SubSeq(t, 1, k) \in Value /\ Len(SubSeq(t, 1, k)) = k
      /\ \A i \in 1 .. k : SubSeq(t, 1, k)[i] = t[i]
  <2>1. \A i \in 1 .. k : t[i] \in V
    BY <1>1
  <2>2. 1 \in Int /\ k \in Int
    BY <1>1
  <2>3. /\ SubSeq(t, 1, k) \in Seq(V)
        /\ Len(SubSeq(t, 1, k)) = IF 1 <= k THEN k - 1 + 1 ELSE 0
        /\ \A i \in 1 .. k - 1 + 1 : SubSeq(t, 1, k)[i] = t[1 + i - 1]
    BY <2>1, <2>2, SubSeqProperties
  <2> QED  BY <1>1, <2>3 DEF Value
<1>3. SubSeq(t, k + 1, Len(t)) \in Value
  <2>1. \A i \in k + 1 .. Len(t) : t[i] \in V
    BY <1>1
  <2>2. k + 1 \in Int /\ Len(t) \in Int
    BY <1>1
  <2> QED  BY <2>1, <2>2, SubSeqProperties DEF Value
<1>4. SubSeq(t, 1, k) \o SubSeq(t, k + 1, Len(t)) = t
  <2>1. /\ 1 \in 1 .. Len(t) + 1 /\ k \in 1 - 1 .. Len(t)
        /\ Len(t) \in k .. Len(t)
    BY <1>1
  <2>2. SubSeq(t, 1, k) \o SubSeq(t, k + 1, Len(t)) = SubSeq(t, 1, Len(t))
    BY <1>1, <2>1, ConcatAdjacentSubSeq
  <2> QED  BY <1>1, <2>2, SubSeqFull
<1> QED  BY <1>2, <1>3, <1>4

LEMMA OneElement ==
  ASSUME NEW V, NEW U, NEW n \in Nat, U[n] \in V
  PROVE  SubSeq(U, n, n) = <<U[n]>> /\ <<U[n]>> \in Seq(V)
<1> DEFINE c == SubSeq(U, n, n)
           b == <<U[n]>>
<1>1. b \in Seq(V) /\ Len(b) = 1 /\ b[1] = U[n]
  OBVIOUS
<1>2. n \in Int /\ \A i \in n .. n : U[i] \in V
  <2>1. \A i \in n .. n : i = n
    OBVIOUS
  <2> QED  BY <2>1
<1>3. /\ c \in Seq(V)
      /\ Len(c) = IF n <= n THEN n - n + 1 ELSE 0
      /\ \A i \in 1 .. n - n + 1 : c[i] = U[n + i - 1]
  BY <1>2, SubSeqProperties
<1> HIDE DEF c, b
<1>4. n <= n /\ n - n + 1 = 1 /\ n + 1 - 1 = n
  OBVIOUS
<1>5. Len(c) = 1 /\ c[1] = U[n]
  <2>1. \A i \in 1 .. 1 : c[i] = U[n + i - 1]
    BY <1>3, <1>4
  <2>2. c[1] = U[n + 1 - 1]
    BY <2>1
  <2> QED  BY <1>3, <1>4, <2>2
<1>6. \A i \in 1 .. Len(b) : c[i] = b[i]
  BY <1>1, <1>5
<1>7. c = b
  BY <1>1, <1>3, <1>5, <1>6, SeqEqual
<1> QED  BY <1>1, <1>7 DEF c, b

\* What is found with some of the updates is found with all of them.
LEMMA PrefixOfAll ==
  ASSUME NEW s \in Value, NEW w \in Value, NEW t \in Value, NEW k \in 0 .. Len(t),
         IsPrefix(s, w \o SubSeq(t, 1, k))
  PROVE  w \o t \in Value /\ IsPrefix(s, w \o t)
<1> DEFINE a == SubSeq(t, 1, k)
           b == SubSeq(t, k + 1, Len(t))
<1>1. a \in Value /\ b \in Value /\ a \o b = t
  BY FirstUpdates
<1>2. w \o a \in Value
  BY <1>1, ConcatProperties DEF Value
<1> HIDE DEF a, b
<1>3. (w \o a) \o b \in Value /\ IsPrefix(s, (w \o a) \o b)
  BY <1>1, <1>2, PrefixGrows DEF a
<1>4. (w \o a) \o b = w \o (a \o b)
  <2> DEFINE V == Update \cup {Garbage}
  <2>1. w \in Seq(V) /\ a \in Seq(V) /\ b \in Seq(V)
    BY <1>1 DEF Value
  <2> HIDE DEF V
  <2> QED  BY <2>1, ConcatAssociative
<1> QED  BY <1>1, <1>3, <1>4

-----------------------------------------------------------------------------
(* What is settled stays.                                                  *)

\* Two logs that begin alike are read alike.
LEMMA ReadAlike ==
  ASSUME NEW s \in Seq(Records), NEW t \in Seq(Records), NEW k \in Nat,
         k <= Complete(s), k <= Len(t), \A i \in 1 .. k : t[i] = s[i]
  PROVE  /\ k <= Complete(t) /\ k \in 0 .. Len(UpdatesOf(s))
         /\ k \in 0 .. Len(UpdatesOf(t))
         /\ SubSeq(UpdatesOf(t), 1, k) = SubSeq(UpdatesOf(s), 1, k)
<1>1. /\ Complete(s) \in 0 .. Len(s) /\ Len(s) \in Nat /\ Len(t) \in Nat
      /\ Complete(t) \in 0 .. Len(t)
      /\ \A i \in 1 .. Complete(s) : Reads(s, i)
  BY CompleteFacts, LenProperties
<1>2. \A i \in 1 .. k : Reads(t, i)
  <2> TAKE i \in 1 .. k
  <2>1. Reads(s, i) /\ t[i] = s[i] /\ (i # 1 => t[i - 1] = s[i - 1])
    BY <1>1
  <2> QED  BY <2>1 DEF Reads
<1>3. k <= Complete(t)
  BY <1>1, <1>2, CompleteFacts
<1>4. /\ UpdatesOf(s) \in Value /\ Len(UpdatesOf(s)) = Complete(s)
      /\ UpdatesOf(t) \in Value /\ Len(UpdatesOf(t)) = Complete(t)
      /\ \A i \in 1 .. Complete(s) : UpdatesOf(s)[i] = Contents(s[i])
      /\ \A i \in 1 .. Complete(t) : UpdatesOf(t)[i] = Contents(t[i])
  BY UpdatesType
<1>5. k \in 0 .. Len(UpdatesOf(s)) /\ k \in 0 .. Len(UpdatesOf(t))
  BY <1>1, <1>3, <1>4
<1>6. \A i \in 1 .. k : UpdatesOf(t)[i] = UpdatesOf(s)[i]
  BY <1>1, <1>3, <1>4
<1>7. /\ SubSeq(UpdatesOf(s), 1, k) \in Value /\ Len(SubSeq(UpdatesOf(s), 1, k)) = k
      /\ \A i \in 1 .. k : SubSeq(UpdatesOf(s), 1, k)[i] = UpdatesOf(s)[i]
      /\ SubSeq(UpdatesOf(t), 1, k) \in Value /\ Len(SubSeq(UpdatesOf(t), 1, k)) = k
      /\ \A i \in 1 .. k : SubSeq(UpdatesOf(t), 1, k)[i] = UpdatesOf(t)[i]
  BY <1>4, <1>5, FirstUpdates
<1>8. SubSeq(UpdatesOf(t), 1, k) = SubSeq(UpdatesOf(s), 1, k)
  BY <1>6, <1>7, SeqEqual DEF Value
<1> QED  BY <1>3, <1>5, <1>8

LEMMA FittingPages ==
  ASSUME NEW e \in Records, Fits(e)
  PROVE  PagesOf(e) \subseteq Page
<1>1. /\ PageOf(e.at) \in Nat /\ PageOf(End(e) - 1) \in Nat
      /\ End(e) \in Nat /\ e.at \in Nat /\ e.at < End(e)
  BY EndFacts
<1>2. \A n \in Nat, a \in Nat : a < n => n - 1 \in Nat /\ n - 1 <= n
  OBVIOUS
<1>3. End(e) - 1 \in Nat /\ End(e) - 1 <= End(e)
  BY <1>1, <1>2
<1>4. PageOf(End(e) - 1) <= PageOf(End(e)) /\ PageOf(End(e)) \in Nat
  BY <1>1, <1>3, PageMonotonic
<1>5. PageOf(End(e) - 1) <= MaxPages /\ MaxPages \in Nat
  <2>1. PageOf(End(e)) <= MaxPages /\ MaxPages \in Nat
    BY BoundAssumption DEF Fits
  <2>2. \A x, y, z \in Nat : x <= y /\ y <= z => x <= z
    OBVIOUS
  <2> QED  BY <1>1, <1>4, <2>1, <2>2
<1>6. \A x, y, z \in Nat : y <= z => x .. y \subseteq 0 .. z
  OBVIOUS
<1> QED  BY <1>1, <1>5, <1>6 DEF PagesOf, Page

\* A page of the disk keeps what is settled of a log: it is what it was, or as
\* the kernel has it, or without the records from a position on that is
\* behind them.
PageKept(s, t, d, e, k, p) ==
  \/ e[p] = d[p]
  \/ e[p] = OnPage(t, p)
  \/ \E pos \in Nat : /\ e[p] = {r \in d[p] : r.at < pos}
                      /\ \A i \in 1 .. k : s[i].at < pos

LEMMA SettledStays ==
  ASSUME NEW s \in Seq(Records), Ordered(s), NEW t \in Seq(Records), Ordered(t),
         NEW d, NEW e, NEW k \in Nat, Settled(s, d, k), k <= Len(t),
         \A i \in 1 .. k : t[i] = s[i],
         \A p \in Page : PageKept(s, t, d, e, k, p)
  PROVE  Settled(t, e, k)
<1>1. /\ k \in 0 .. Complete(s) /\ Complete(s) \in 0 .. Len(s) /\ Len(s) \in Nat
      /\ Len(t) \in Nat /\ DOMAIN t = 1 .. Len(t) /\ DOMAIN s = 1 .. Len(s)
  BY CompleteFacts, LenProperties DEF Settled
<1>2. k \in 0 .. Complete(t)
  <2>1. k <= Complete(t) /\ Complete(t) \in 0 .. Len(t)
    BY <1>1, ReadAlike, CompleteFacts
  <2> QED  BY <1>1, <2>1
<1>3. ASSUME NEW i \in 1 .. k
      PROVE  t[i] \in Records /\ i \in DOMAIN t /\ PagesOf(t[i]) \subseteq Page
  <2>1. i \in 1 .. Len(t)
    BY <1>1
  <2>2. t[i] \in Records /\ Fits(t[i])
    BY <1>1, <2>1, ElementOfSeq DEF Ordered
  <2>5. PagesOf(t[i]) \subseteq Page
    BY <2>2, FittingPages
  <2> QED  BY <1>1, <2>1, <2>2, <2>5
<1>4. ASSUME NEW i \in 1 .. k, NEW p \in PagesOf(t[i])
      PROVE  t[i] \in e[p]
  <2>1. p \in Page /\ s[i] = t[i] /\ s[i] \in d[p]
    BY <1>3, <1>4 DEF Settled
  <2>2. t[i] \in OnPage(t, p)
    BY <1>3, <1>4 DEF OnPage, ToSet
  <2> QED  BY <2>1, <2>2 DEF PageKept
<1>5. ASSUME NEW r \in Starting(e)
      PROVE  (\E i \in 1 .. k : r = t[i]) \/ (\A i \in 1 .. k : t[i].at < r.at)
  <2>1. PICK p \in Page : r \in e[p] /\ PageOf(r.at) = p
    BY DEF Starting
  <2>2. CASE r \in d[p]
    <3>1. r \in Starting(d)
      BY <2>1, <2>2 DEF Starting
    <3> QED  BY <3>1 DEF Settled
  <2>3. CASE r \in OnPage(t, p)
    <3>1. PICK j \in 1 .. Len(t) : r = t[j]
      BY <1>1, <2>3 DEF OnPage, ToSet
    <3>2. CASE j <= k
      BY <1>1, <3>1, <3>2
    <3>3. CASE ~(j <= k)
      <4>1. \A i \in 1 .. k : i \in 1 .. Len(t) /\ i < j
        BY <1>1, <3>1, <3>3
      <4> QED  BY <1>1, <3>1, <4>1 DEF Ordered
    <3> QED  BY <3>2, <3>3
  <2>4. r \in d[p] \/ r \in OnPage(t, p)
    BY <2>1 DEF PageKept
  <2> QED  BY <2>2, <2>3, <2>4
<1> QED  BY <1>2, <1>4, <1>5 DEF Settled

\* A machine that starts anew finds what was settled.
LEMMA SettledFound ==
  ASSUME NEW s \in Seq(Records), Ordered(s),
         NEW d, \A p \in Page : d[p] \in SUBSET Records /\ PageOK(d[p]),
         NEW k \in Nat, Settled(s, d, k)
  PROVE  /\ OnDisk(d) \in Seq(Records) /\ Ordered(OnDisk(d))
         /\ k <= Len(OnDisk(d))
         /\ \A i \in 1 .. k : OnDisk(d)[i] = s[i]
<1> DEFINE T == {Found(d, e) : e \in Starting(d)}
<1>1. /\ T \subseteq Records /\ IsFiniteSet(T)
      /\ \A e, f \in T : e.at = f.at => e = f
      /\ OnDisk(d) = InOrder(T) /\ OnDisk(d) \in Seq(Records)
      /\ Ordered(OnDisk(d))
  BY OnDiskFacts
<1>2. /\ Len(s) \in Nat /\ DOMAIN s = 1 .. Len(s) /\ k <= Len(s)
      /\ \A i \in 1 .. k : i \in 1 .. Len(s) /\ s[i] \in Records /\ Fits(s[i])
  <2>1. k \in 0 .. Complete(s) /\ Complete(s) \in 0 .. Len(s)
    BY CompleteFacts DEF Settled
  <2>2. Len(s) \in Nat /\ DOMAIN s = 1 .. Len(s)
    BY LenProperties
  <2>3. \A i \in 1 .. k : i \in 1 .. Len(s)
    BY <2>1, <2>2
  <2>4. \A i \in 1 .. Len(s) : s[i] \in Records
    BY ElementOfSeq
  <2> QED  BY <2>1, <2>2, <2>3, <2>4 DEF Ordered
<1>3. \A i \in 1 .. k : s[i].at \in Nat
  BY <1>2, EndFacts
<1>4. \A i, j \in 1 .. k : i < j => s[i].at < s[j].at
  BY <1>2 DEF Ordered
<1>5. ASSUME NEW i \in 1 .. k
      PROVE  Found(d, s[i]) = s[i] /\ s[i] \in T
  <2>1. \A q \in PagesOf(s[i]) : s[i] \in d[q]
    BY DEF Settled
  <2>2. PageOf(s[i].at) \in PagesOf(s[i]) /\ PagesOf(s[i]) \subseteq Page
    BY <1>2, EndFacts, FittingPages
  <2>3. s[i] \in Starting(d)
    BY <2>1, <2>2 DEF Starting
  <2>4. Found(d, s[i]) = [s[i] EXCEPT !.whole = @]
    BY <1>2, <2>1 DEF Found, Records
  <2>5. [s[i] EXCEPT !.whole = @] = s[i]
    BY <1>2 DEF Records
  <2> QED  BY <2>3, <2>4, <2>5
<1>6. ASSUME NEW x \in T
      PROVE  (\E i \in 1 .. k : x = s[i]) \/ (\A i \in 1 .. k : s[i].at < x.at)
  <2>1. PICK r \in Starting(d) : x = Found(d, r)
    OBVIOUS
  <2>2. r \in Records
    BY <2>1 DEF Starting
  <2>3. x.at = r.at
    BY <2>1, <2>2, FoundFacts
  <2>4. (\E i \in 1 .. k : r = s[i]) \/ (\A i \in 1 .. k : s[i].at < r.at)
    BY <2>1 DEF Settled
  <2>5. ASSUME NEW i \in 1 .. k, r = s[i] PROVE x = s[i]
    BY <1>5, <2>1, <2>5
  <2> QED  BY <2>3, <2>4, <2>5
<1> HIDE DEF T
<1>7. ASSUME NEW i \in 1 .. k
      PROVE  Cardinality(Below(T, s[i])) = i - 1
  <2> DEFINE m == i - 1
             S == {s[j] : j \in 1 .. m}
             g == [j \in 1 .. m |-> s[j]]
  <2>0. m \in Nat /\ \A j \in 1 .. m : j \in 1 .. k /\ j < i
    OBVIOUS
  <2>1. \A f \in Below(T, s[i]) : f \in S
    <3> TAKE f \in Below(T, s[i])
    <3>1. f \in T /\ f.at < s[i].at /\ f.at \in Nat
      BY <1>1, EndFacts DEF Below
    <3>2. ~(s[i].at < f.at)
      BY <1>3, <3>1
    <3>3. PICK j \in 1 .. k : f = s[j]
      BY <1>6, <3>1, <3>2
    <3>4. ~(i < j) /\ i # j
      BY <1>3, <1>4, <3>1, <3>2, <3>3
    <3>5. j \in 1 .. m
      BY <3>4
    <3> QED  BY <3>3, <3>5
  <2>2. \A f \in S : f \in Below(T, s[i])
    BY <1>4, <1>5, <2>0 DEF Below
  <2>3. Below(T, s[i]) = S
    BY <2>1, <2>2
  <2>4. g \in Bijection(1 .. m, S)
    <3>1. \A a, b \in 1 .. m : s[a] = s[b] => a = b
      <4> TAKE a \in 1 .. m, b \in 1 .. m
      <4>1. a < b \/ b < a \/ a = b
        BY <2>0
      <4>2. a \in 1 .. k /\ b \in 1 .. k
        BY <2>0
      <4>3. s[a].at \in Nat /\ s[b].at \in Nat
        BY <1>3, <4>2
      <4>4. CASE a < b
        <5>1. s[a].at < s[b].at
          BY <1>4, <4>2, <4>4
        <5>2. s[a].at # s[b].at
          BY <4>3, <5>1
        <5> QED  BY <5>2
      <4>5. CASE b < a
        <5>1. s[b].at < s[a].at
          BY <1>4, <4>2, <4>5
        <5>2. s[a].at # s[b].at
          BY <4>3, <5>1
        <5> QED  BY <5>2
      <4> QED  BY <4>1, <4>4, <4>5
    <3> QED  BY <3>1 DEF Bijection, Injection, Surjection, IsInjective
  <2>5. IsFiniteSet(1 .. m) /\ Cardinality(1 .. m) = m
    BY <2>0, CountTo
  <2>6. ExistsBijection(1 .. m, S)
    BY <2>4 DEF ExistsBijection
  <2> HIDE DEF S
  <2>7. Cardinality(S) = m
    BY <2>5, <2>6, FS_Bijection
  <2> QED  BY <2>3, <2>7
<1>8. ASSUME NEW i \in 1 .. k
      PROVE  i \in 1 .. Cardinality(T) /\ InOrder(T)[i] = s[i]
  <2>1. s[i] \in T
    BY <1>5
  <2>2. Cardinality(T) \in Nat /\ i - 1 \in 0 .. Cardinality(T) - 1
    BY <1>1, <1>7, <2>1, Ranks
  <2>3. i \in 1 .. Cardinality(T)
    BY <2>2
  <2> DEFINE x == InOrder(T)[i]
  <2>4. x \in T /\ Cardinality(Below(T, x)) = i - 1
    BY <1>1, <2>3, InOrderFacts
  <2>5. Cardinality(Below(T, s[i])) = i - 1
    BY <1>7
  <2> HIDE DEF x
  <2>6. ~(x.at < s[i].at) /\ ~(s[i].at < x.at)
    BY <1>1, <2>1, <2>4, <2>5, Ranks
  <2>7. x.at \in Nat /\ s[i].at \in Nat
    BY <1>1, <1>3, <2>4, EndFacts
  <2>8. x = s[i]
    BY <1>1, <2>1, <2>4, <2>6, <2>7
  <2> QED  BY <2>3, <2>8 DEF x
<1>9. Len(OnDisk(d)) = Cardinality(T) /\ Cardinality(T) \in Nat
  BY <1>1, InOrderFacts, FS_CardinalityType
<1>10. k <= Cardinality(T)
  <2>1. CASE k = 0
    BY <1>9, <2>1
  <2>2. CASE k # 0
    BY <1>8, <1>9, <2>2
  <2> QED  BY <2>1, <2>2
<1> QED  BY <1>1, <1>8, <1>9, <1>10

-----------------------------------------------------------------------------
(* Durability.                                                             *)

\* What the code can promise: updates start on pages of their own, or no program
\* ends before it closed its log; an update has a length; and no step fails after
\* which it goes on with a version that it has not committed.
Promising ==
  /\ Pad \/ MaxCrashes = 0
  /\ 0 \notin Sizes
  /\ FailurePoints \subseteq {"openSnapshot", "writeSnapshot", "deleteNewVersion",
                              "dropSnapshot", "dropLog", "recover"}

LEMMA LogOf ==
  ASSUME LogInv, NEW v \in Version
  PROVE  /\ cached[v] \in Seq(Records) /\ Ordered(cached[v])
         /\ Len(cached[v]) \in Nat
         /\ \A p \in Page : disk[v][p] \in SUBSET Records /\ PageOK(disk[v][p])
BY LenProperties DEF LogInv, LogsInv, StateOK

\* Nothing is needed for no record to be settled, and for all of them no more
\* than that they are complete and on the disk.
LEMMA SettledBounds ==
  ASSUME NEW s \in Seq(Records), Ordered(s), NEW d
  PROVE  /\ Settled(s, d, 0)
         /\ Complete(s) = Len(s) => Settled(s, Written(s), Len(s))
<1>1. /\ Complete(s) \in 0 .. Len(s) /\ Len(s) \in Nat /\ DOMAIN s = 1 .. Len(s)
      /\ \A i \in 1 .. Len(s) : s[i] \in Records
  BY CompleteFacts, LenProperties, ElementOfSeq
<1>2. Settled(s, d, 0)
  BY <1>1 DEF Settled
<1>3. ASSUME Complete(s) = Len(s) PROVE Settled(s, Written(s), Len(s))
  <2>1. ASSUME NEW i \in 1 .. Len(s), NEW p \in PagesOf(s[i])
        PROVE  s[i] \in Written(s)[p]
    <3>1. p \in Page
      BY <1>1, <2>1, FittingPages DEF Ordered
    <3> QED  BY <1>1, <2>1, <3>1 DEF Written, OnPage, ToSet
  <2>2. \A e \in Starting(Written(s)) : \E i \in 1 .. Len(s) : e = s[i]
    BY <1>1 DEF Starting, Written, OnPage, ToSet
  <2> QED  BY <1>1, <1>3, <2>1, <2>2 DEF Settled
<1> QED  BY <1>2, <1>3

\* What is kept is found, by the next program and by the next machine.
LEMMA KeptFound ==
  ASSUME LogInv, NEW v \in Version, snapshot[v] \in Value, Kept(v)
  PROVE  /\ IsPrefix(safe, snapshot[v] \o UpdatesOf(cached[v]))
         /\ IsPrefix(safe, snapshot[v] \o UpdatesOf(OnDisk(disk[v])))
<1> DEFINE s == cached[v]
           t == OnDisk(disk[v])
           w == snapshot[v]
<1>1. PICK k \in 0 .. Len(s) : /\ Settled(s, disk[v], k)
                               /\ IsPrefix(safe, w \o SubSeq(UpdatesOf(s), 1, k))
  BY DEF Kept, Keeps
<1>2. /\ s \in Seq(Records) /\ Ordered(s) /\ Len(s) \in Nat /\ k \in Nat
      /\ \A p \in Page : disk[v][p] \in SUBSET Records /\ PageOK(disk[v][p])
  BY LogOf
<1>3. safe \in Value /\ w \in Value
  BY DEF LogInv, StateOK
<1>4. k <= Complete(s) /\ k <= Len(s)
  BY <1>1 DEF Settled
<1>5. t \in Seq(Records) /\ k <= Len(t) /\ \A i \in 1 .. k : t[i] = s[i]
  BY <1>1, <1>2, SettledFound
<1> HIDE DEF s, t, w
<1>6. /\ k \in 0 .. Len(UpdatesOf(s)) /\ k \in 0 .. Len(UpdatesOf(t))
      /\ SubSeq(UpdatesOf(t), 1, k) = SubSeq(UpdatesOf(s), 1, k)
  BY <1>2, <1>4, <1>5, ReadAlike
<1>7. UpdatesOf(s) \in Value /\ UpdatesOf(t) \in Value
  BY <1>2, <1>5, UpdatesType
<1>8. IsPrefix(safe, w \o UpdatesOf(s))
  BY <1>1, <1>3, <1>6, <1>7, PrefixOfAll
<1>9. IsPrefix(safe, w \o UpdatesOf(t))
  BY <1>1, <1>3, <1>6, <1>7, PrefixOfAll
<1> QED  BY <1>8, <1>9 DEF s, t, w

\* It stays kept when its log changes in what is not settled only.
LEMMA KeptStays ==
  ASSUME LogInv, LogInv', NEW v \in Version, Kept(v),
         snapshot'[v] = snapshot[v], safe' = safe,
         \A k \in 0 .. Complete(cached[v]) :
           Settled(cached[v], disk[v], k) =>
             /\ k <= Len(cached'[v])
             /\ \A i \in 1 .. k : cached'[v][i] = cached[v][i]
             /\ \A p \in Page :
                  PageKept(cached[v], cached'[v], disk[v], disk'[v], k, p)
  PROVE  Kept(v)'
<1> DEFINE s == cached[v]
           t == cached'[v]
<1>1. PICK k \in 0 .. Len(s) :
        /\ Settled(s, disk[v], k)
        /\ IsPrefix(safe, snapshot[v] \o SubSeq(UpdatesOf(s), 1, k))
  BY DEF Kept, Keeps
<1>2. s \in Seq(Records) /\ Ordered(s) /\ k \in Nat
  BY LogOf
<1>3. t \in Seq(Records) /\ Ordered(t) /\ Len(t) \in Nat
  BY LenProperties DEF LogInv, LogsInv, StateOK
<1>4. k \in 0 .. Complete(s) /\ k <= Complete(s)
  BY <1>1 DEF Settled
<1>5. /\ k <= Len(t) /\ \A i \in 1 .. k : t[i] = s[i]
      /\ \A p \in Page : PageKept(s, t, disk[v], disk'[v], k, p)
  BY <1>1, <1>4
<1> HIDE DEF s, t
<1>6. Settled(t, disk'[v], k)
  BY <1>1, <1>2, <1>3, <1>5, SettledStays
<1>7. SubSeq(UpdatesOf(t), 1, k) = SubSeq(UpdatesOf(s), 1, k)
  BY <1>2, <1>3, <1>4, <1>5, ReadAlike
<1>8. k \in 0 .. Len(t)
  BY <1>2, <1>3, <1>5
<1>9. Keeps(t, disk'[v], snapshot'[v], safe')
  BY <1>1, <1>6, <1>7, <1>8 DEF Keeps
<1> QED  BY <1>9 DEF Kept, t

LEMMA KeptAlone ==
  ASSUME NEW v, Kept(v), snapshot'[v] = snapshot[v], cached'[v] = cached[v],
         disk'[v] = disk[v], safe' = safe
  PROVE  Kept(v)'
BY DEF Kept

\* A snapshot alone keeps what was promised when the client had no more.
LEMMA KeptSnapshot ==
  ASSUME NEW d, NEW w \in Value, NEW promised, IsPrefix(promised, w)
  PROVE  Keeps(<<>>, d, w, promised)
<1>1. Settled(<<>>, d, 0) /\ Len(<<>>) = 0
  BY EmptyLog, SettledBounds
<1>2. SubSeq(UpdatesOf(<<>>), 1, 0) = <<>>
  BY SubSeqEmpty
<1>3. w \o <<>> = w
  BY ConcatEmptySeq DEF Value
<1>4. 0 \in 0 .. Len(<<>>)
  BY <1>1
<1> QED  BY <1>1, <1>2, <1>3, <1>4 DEF Keeps

\* The version that a restart chooses.
LEMMA CurrentFacts ==
  ASSUME Inv
  PROVE  /\ Current = 0 \/ (/\ Current \in Version /\ Usable(Current)
                            /\ snapshot[Current] \in Value)
         /\ Valid(newFile) => Current = newFile
         /\ ~Valid(newFile) /\ Valid(versionFile) => Current = versionFile
         /\ ~Valid(newFile) /\ ~Valid(versionFile) => Current = 0
         /\ versionFile \in Version => Valid(versionFile)
<1>1. \A f \in {versionFile, newFile} : Valid(f) => f \in Version /\ Usable(f)
  BY VersionFacts DEF Inv, FilesInv
<1>2. \A v \in Version : Usable(v) => snapshot[v] \in Value
  BY DEF Usable, HasContents, Inv, LogInv, StateOK
<1>3. versionFile \in Version => Valid(versionFile)
  BY Names
<1> QED  BY <1>1, <1>2, <1>3 DEF Current

LEMMA SafeIsFound == Inv /\ SafeInv => Durable
<1> SUFFICES ASSUME Inv, SafeInv PROVE Durable
  OBVIOUS
<1>1. CASE Current = 0
  <2>1. safe = <<>> /\ <<>> \in Value
    BY <1>1, NumberTypes DEF SafeInv
  <2> QED  BY <1>1, <2>1, PrefixSelf DEF Durable, Stored
<1>2. CASE Current # 0
  <2>1. /\ Current \in Version /\ HasContents(snapshot[Current])
        /\ snapshot[Current] \in Value
    BY <1>2, CurrentFacts DEF Usable
  <2>2. IsPrefix(safe, snapshot[Current] \o UpdatesOf(OnDisk(disk[Current])))
    BY <1>2, <2>1, KeptFound DEF SafeInv, Inv
  <2> QED  BY <1>2, <2>1, <2>2 DEF Durable, Stored
<1> QED  BY <1>1, <1>2
\* What a restart chooses, and what it keeps of it, is as it was.
LEMMA SafeAlone ==
  ASSUME SafeInv, Current' = Current, safe' = safe,
         \A v \in Version : v = Current =>
           /\ snapshot'[v] = snapshot[v] /\ cached'[v] = cached[v]
           /\ disk'[v] = disk[v],
         (OldOpen \/ (InSnapshot /\ caller # "boot"))' => IsPrefix(safe', value')
  PROVE  SafeInv'
<1>1. Current' = 0 => safe' = <<>>
  BY DEF SafeInv
<1>2. ASSUME NEW v \in Version, v = Current' PROVE Kept(v)'
  BY <1>2, KeptAlone DEF SafeInv
<1> QED  BY <1>1, <1>2 DEF SafeInv

\* Where no client is being served and no version made there is no more to it.
LEMMA Stopped ==
  ASSUME SafeInv', caller' \in {"boot", "create", "snapshot"},
         \/ pc' \in {"off", "getVersion", "getOldVersion", "create", "recover"}
         \/ pc' = "commit" /\ caller' = "boot"
  PROVE  DurableInv'
BY DEF DurableInv, VersionInv, OldOpen, NewOpen, NewLog, InCall, Opening,
       Uncommitted, Committing, Dropping

LEMMA DurableInit == Init => DurableInv
<1> SUFFICES ASSUME Init PROVE DurableInv
  OBVIOUS
<1>1. Current = 0
  BY Names DEF Init, Current
<1>2. \A v \in Version : v # 0
  BY Names
<1> QED  BY <1>1, <1>2 DEF Init, DurableInv, VersionInv, SafeInv, OldOpen, NewOpen,
     NewLog, InCall, InSnapshot, Opening, Uncommitted, Committing, Dropping

\* New and what it calls first leave the choice of a version as it is: they delete
\* files that are not valid only.
LEMMA BootChooses ==
  ASSUME Inv, New \/ GetVersion \/ GetOldVersion
  PROVE  Current' = Current
<1>1. CASE New
  BY <1>1 DEF New, files, Current
<1>2. CASE GetVersion
  BY <1>2, Names DEF GetVersion, Current
<1>3. CASE GetOldVersion
  <2>1. ~Valid(newFile)
    BY <1>3, Names DEF GetOldVersion, Inv, FilesInv
  <2> QED  BY <1>3, <2>1, Names DEF GetOldVersion, Current
<1> QED  BY <1>1, <1>2, <1>3

LEMMA DurableBoot ==
  ASSUME Inv, DurableInv, New \/ GetVersion \/ GetOldVersion
  PROVE  DurableInv'
<1>1. UNCHANGED <<snapshot, cached, disk, safe>>
  BY DEF New, GetVersion, GetOldVersion, files
<1>2. /\ caller' \in {"boot", "create", "snapshot"}
      /\ \/ pc' \in {"off", "getVersion", "getOldVersion", "create", "recover"}
         \/ pc' = "commit" /\ caller' = "boot"
  BY DEF New, GetVersion, GetOldVersion, DurableInv, VersionInv, Inv, FilesInv
<1>3. Current' = Current
  BY BootChooses
<1>4. ~(OldOpen \/ (InSnapshot /\ caller # "boot"))'
  BY <1>2 DEF OldOpen, InSnapshot, InCall, Opening
<1>5. SafeInv'
  BY <1>1, <1>3, <1>4, SafeAlone DEF DurableInv
<1> QED  BY <1>2, <1>5, Stopped

\* Snapshot begins with the client's value; a database that is new has none.
LEMMA DurableSnapshot ==
  ASSUME Inv, DurableInv, Snapshot
  PROVE  DurableInv'
<1> USE DEF InCall, Opening, Uncommitted
<1>1. UNCHANGED <<files, writer, counters, safe>> /\ pc' = "openSnapshot"
  BY DEF Snapshot
<1>2. Current' = Current
  BY <1>1 DEF files, Current
<1>3. CASE pc = "run"
  <2>1. value' = value /\ caller' = "snapshot" /\ OldOpen /\ OldOpen'
    BY <1>1, <1>3 DEF Snapshot, OldOpen
  <2>2. WriterInv'
    BY <1>1, <1>3, <2>1 DEF DurableInv, WriterInv, Incomplete, files, writer, counters
  <2>3. VersionInv'
    BY <1>1, <1>3, <2>1 DEF DurableInv, VersionInv, OldOpen, NewOpen, NewLog,
       Committing, Dropping, files, writer
  <2>4. IsPrefix(safe', value')
    BY <1>1, <2>1 DEF DurableInv, SafeInv
  <2>5. SafeInv'
    BY <1>1, <1>2, <2>4, SafeAlone DEF DurableInv, files
  <2> QED  BY <2>2, <2>3, <2>5 DEF DurableInv
<1>4. CASE pc = "create"
  <2>1. value' = <<>> /\ caller' = "create" /\ ~OldOpen'
    BY <1>1, <1>4 DEF Snapshot, OldOpen
  <2>2. ~Valid(newFile) /\ ~Valid(versionFile)
    BY <1>4, Names DEF Inv, FilesInv
  <2>3. VersionInv'
    BY <1>1, <2>1, <2>2 DEF VersionInv, NewOpen, NewLog,
       Committing, Dropping, files, writer
  <2>4. safe' = <<>>
    BY <1>1, <2>2, CurrentFacts DEF DurableInv, SafeInv
  <2>5. IsPrefix(safe', value')
    BY <2>1, <2>4, NumberTypes, PrefixSelf
  <2>6. SafeInv'
    BY <1>1, <1>2, <2>5, SafeAlone DEF DurableInv, files
  <2> QED  BY <2>1, <2>3, <2>6 DEF DurableInv
<1> QED  BY <1>3, <1>4 DEF Snapshot
\* The version that Snapshot is making is none that a restart would choose.
LEMMA Unchosen ==
  ASSUME Inv, pc \in Uncommitted
  PROVE  /\ version \in Version /\ Current # version
         /\ versionFile \in Version => versionFile # version
<1>1. /\ version \in Version
      /\ \A f \in {versionFile, newFile} : Valid(f) => f < version
  BY DEF Inv, FilesInv
<1>2. \A f \in {versionFile, newFile} : Valid(f) => f # version
  BY <1>1, VersionFacts DEF Inv, Version
<1>3. \A v \in Version : Valid(v) /\ v # 0
  BY Names
<1> QED  BY <1>1, <1>2, <1>3 DEF Current

LEMMA DurableMade ==
  ASSUME Inv, DurableInv, WriteSnapshot
  PROVE  DurableInv'
<1> USE DEF InCall, Opening, Uncommitted, Committing, Dropping, NewLog
<1>1. /\ pc \in {"openSnapshot", "writeSnapshot"} /\ pc' \in {"writeSnapshot", "openLog"}
      /\ UNCHANGED <<versionFile, newFile, logfile, cached, disk, caller, version,
                     old, writer, value, counters, safe>>
  BY DEF WriteSnapshot
<1>2. version \in Version /\ Current # version
      /\ (versionFile \in Version => versionFile # version)
  BY <1>1, Unchosen
<1>3. \A v \in Version : v # version => snapshot'[v] = snapshot[v]
  BY DEF WriteSnapshot, Inv, LogInv, StateOK
<1>4. pc' = "openLog" => snapshot'[version] = value
  BY <1>2 DEF WriteSnapshot, Inv, LogInv, StateOK
<1>5. Current' = Current
  BY <1>1 DEF Current
<1>6. SafeInv'
  <2>1. (OldOpen \/ (InSnapshot /\ caller # "boot"))' => IsPrefix(safe', value')
    BY <1>1 DEF DurableInv, SafeInv, OldOpen, InSnapshot
  <2> QED  BY <1>1, <1>2, <1>3, <1>5, <2>1, SafeAlone DEF DurableInv
<1>7. VersionInv'
  BY <1>1, <1>4 DEF DurableInv, VersionInv, OldOpen, NewOpen, writer
<1>8. ASSUME OldOpen' PROVE WriterInv'
  <2>1. OldOpen /\ WriterInv /\ out = versionFile
    BY <1>1, <1>8 DEF OldOpen, DurableInv, VersionInv
  <2>2. out \in Version /\ snapshot'[out] = snapshot[out]
    BY <1>2, <1>3, <2>1 DEF WriterInv
  <2> QED  BY <1>1, <2>1, <2>2 DEF WriterInv, Incomplete, writer, counters
<1> QED  BY <1>6, <1>7, <1>8 DEF DurableInv

LEMMA DurableOpen ==
  ASSUME Inv, DurableInv, OpenLog
  PROVE  DurableInv'
<1> USE DEF InCall, Opening, Uncommitted, Committing, Dropping, NewLog
<1>1. /\ pc = "openLog" /\ pc' = "newVersion" /\ out' = version /\ index' = 0
      /\ UNCHANGED <<versionFile, newFile, snapshot, caller, version, old, forced,
                     value, counters, safe>>
  BY DEF OpenLog
<1>2. version \in Version /\ Current # version
  BY <1>1, Unchosen
<1>3. /\ cached'[version] = <<>>
      /\ \A v \in Version : v # version => cached'[v] = cached[v] /\ disk'[v] = disk[v]
  BY <1>2 DEF OpenLog, Inv, LogInv, StateOK
<1>5. Current' = Current
  BY <1>1 DEF Current
<1>6. SafeInv'
  <2>1. (OldOpen \/ (InSnapshot /\ caller # "boot"))' => IsPrefix(safe', value')
    BY <1>1 DEF DurableInv, SafeInv, OldOpen, InSnapshot
  <2> QED  BY <1>1, <1>2, <1>3, <1>5, <2>1, SafeAlone DEF DurableInv
<1>7. VersionInv'
  BY <1>1, <1>3 DEF DurableInv, VersionInv, OldOpen, NewOpen
<1> QED  BY <1>1, <1>6, <1>7 DEF DurableInv, OldOpen

\* A version is committed with a snapshot of the client's value and an empty log.
LEMMA DurableCommit ==
  ASSUME Inv, DurableInv, NewVersion \/ CommitToNewVersion
  PROVE  DurableInv'
<1> USE DEF InCall, Opening, Uncommitted, Committing, Dropping, NewLog
<1>1. /\ pc \in {"newVersion", "writeNewVersion", "commit", "writeVersion",
                 "deleteNewVersion"}
      /\ pc' \in {"writeNewVersion", "commit", "writeVersion", "deleteNewVersion",
                  "dropSnapshot", "recover"}
      /\ UNCHANGED <<snapshot, logfile, cached, disk, caller, version, old, writer,
                     value, counters, safe>>
  BY DEF NewVersion, CommitToNewVersion
<1>2. Usable(version) /\ version \in Version /\ Valid(version)
  BY <1>1, Names DEF Inv, FilesInv, Usable
<1>3. pc' \in Uncommitted => pc = "newVersion" /\ ~Valid(newFile')
  BY Names DEF NewVersion, CommitToNewVersion
<1>4. VersionInv'
  BY <1>1, <1>3 DEF DurableInv, VersionInv, OldOpen, NewOpen, NewVersion,
                    CommitToNewVersion, writer
<1>5. ~OldOpen'
  BY <1>1 DEF OldOpen
<1>6. (InSnapshot /\ caller # "boot")' => IsPrefix(safe', value')
  <2>1. InSnapshot
    BY <1>1 DEF InSnapshot
  <2> QED  BY <1>1, <2>1 DEF DurableInv, SafeInv
<1>7. CASE pc # "writeNewVersion"
  <2>1. Current' = Current
    <3>1. CASE pc = "newVersion"
      <4>1. newFile' = Torn /\ ~Valid(Torn) /\ versionFile' = versionFile
        BY <3>1, Names DEF NewVersion, CommitToNewVersion
      <4>2. Valid(newFile) => newFile = versionFile
        BY <3>1 DEF DurableInv, VersionInv
      <4> QED  BY <4>1, <4>2 DEF Current
    <3>2. CASE pc \in {"commit", "writeVersion"}
      <4>1. newFile = version /\ newFile' = newFile
        BY <3>2 DEF CommitToNewVersion, NewVersion, Inv, FilesInv
      <4> QED  BY <1>2, <4>1 DEF Current
    <3>3. CASE pc = "deleteNewVersion"
      <4>1. newFile = version /\ versionFile = version /\ newFile' = Absent
            /\ versionFile' = versionFile
        BY <3>3 DEF CommitToNewVersion, NewVersion, Inv, FilesInv
      <4> QED  BY <1>2, <4>1, Names DEF Current
    <3> QED  BY <1>1, <1>7, <3>1, <3>2, <3>3
  <2>2. SafeInv'
    BY <1>1, <1>5, <1>6, <2>1, SafeAlone DEF DurableInv
  <2> QED  BY <1>4, <1>5, <2>2 DEF DurableInv
<1>8. CASE pc = "writeNewVersion"
  <2>1. newFile' = version /\ caller # "boot"
    BY <1>8 DEF NewVersion, CommitToNewVersion, DurableInv, VersionInv
  <2>2. Current' = version
    BY <1>2, <2>1 DEF Current
  <2>3. /\ cached[version] = <<>> /\ snapshot[version] = value
        /\ IsPrefix(safe, value)
    BY <1>8, <2>1 DEF DurableInv, VersionInv, SafeInv, NewOpen, InSnapshot
  <2>4. value \in Value
    BY DEF Inv, LogInv, StateOK
  <2>5. Kept(version)
    BY <2>3, <2>4, KeptSnapshot DEF Kept
  <2>6. \A v \in Version : v = version => Kept(v)'
    <3> TAKE v \in Version
    <3> HAVE v = version
    <3> QED  BY <1>1, <2>5, KeptAlone
  <2>7. SafeInv'
    BY <1>2, <1>5, <1>6, <2>2, <2>6, Names DEF SafeInv
  <2> QED  BY <1>4, <1>5, <2>7 DEF DurableInv
<1> QED  BY <1>7, <1>8
\* Updates go to a log that is empty, behind the snapshot of the client's value.
LEMMA FreshWriter ==
  ASSUME StateOK', pc' = "run", out' \in Version, index' = 0, cached'[out'] = <<>>,
         snapshot'[out'] = value'
  PROVE  WriterInv'
<1>1. Complete(<<>>) = 0 /\ Len(<<>>) = 0
  <2>1. Complete(<<>>) \in 0 .. Len(<<>>) /\ Len(<<>>) = 0
    BY EmptyLog, CompleteFacts
  <2> QED  BY <2>1
<1>2. SubSeq(UpdatesOf(<<>>), 1, 0) = <<>>
  BY SubSeqEmpty
<1>3. value' \o <<>> = value'
  BY ConcatEmptySeq DEF StateOK, Value
<1> QED  BY <1>1, <1>2, <1>3 DEF WriterInv, InCall, Incomplete, Position

LEMMA DurableDrop ==
  ASSUME Inv, Inv', DurableInv, DropSnapshot \/ DropLog
  PROVE  DurableInv'
<1> USE DEF InCall, Opening, Uncommitted, Committing, Dropping, NewLog
<1>1. /\ pc \in Dropping /\ pc' \in {"dropLog", "run", "recover"}
      /\ (pc' = "recover" => caller = "create") /\ (pc' = "dropLog" => pc = "dropSnapshot")
      /\ UNCHANGED <<versionFile, newFile, caller, version, old, writer, value,
                     counters>>
  BY DEF DropSnapshot, DropLog
<1>2. /\ version \in Version /\ versionFile = version /\ ~Valid(newFile)
      /\ old < version /\ caller # "boot" /\ Valid(version)
  BY <1>1, Names DEF Inv, FilesInv, Usable, InSnapshot
<1>3. version # old /\ version \in Nat
  BY <1>2 DEF Version
<1>4. NewOpen /\ InSnapshot
  BY <1>1, <1>2 DEF NewOpen, InSnapshot
<1>5. /\ out = version /\ index = 0 /\ cached[version] = <<>>
      /\ snapshot[version] = value /\ IsPrefix(safe, value) /\ value \in Value
  BY <1>2, <1>4 DEF DurableInv, VersionInv, SafeInv, Inv, LogInv, StateOK
<1>6. snapshot'[version] = value /\ cached'[version] = <<>> /\ disk'[version] = disk[version]
  BY <1>2, <1>3, <1>5 DEF DropSnapshot, DropLog, Inv, LogInv, StateOK
<1>7. safe' \in {safe, value}
  BY DEF DropSnapshot, DropLog
<1>8. IsPrefix(safe', value)
  BY <1>5, <1>7, PrefixSelf
<1>9. Current' = version
  BY <1>1, <1>2 DEF Current
<1>10. SafeInv'
  <2>1. Keeps(<<>>, disk'[version], value, safe')
    BY <1>5, <1>8, KeptSnapshot
  <2>2. \A v \in Version : v = version => Kept(v)'
    BY <1>6, <2>1 DEF Kept
  <2> QED  BY <1>1, <1>2, <1>8, <1>9, <2>2, Names DEF SafeInv
<1>11. VersionInv'
  BY <1>1, <1>2, <1>5, <1>6 DEF DurableInv, VersionInv, OldOpen, NewOpen, writer
<1>12. ASSUME OldOpen' PROVE WriterInv'
  <2>1. pc' = "run"
    BY <1>1, <1>12 DEF OldOpen
  <2>2. out' = version /\ index' = 0 /\ value' = value
    BY <1>1, <1>5 DEF writer
  <2> QED  BY <1>2, <1>6, <2>1, <2>2, FreshWriter DEF Inv, LogInv
<1> QED  BY <1>10, <1>11, <1>12 DEF DurableInv

LEMMA DurableRecover ==
  ASSUME Inv, Inv', DurableInv, TailInv, Recover
  PROVE  DurableInv'
<1> DEFINE s == cached[version]
           found == SubSeq(s, 1, Complete(s))
           pos == IF found = <<>> THEN 0 ELSE AlignRead(End(Last(found)))
           seek == IF found = <<>> \/ pos <= length[version] THEN pos
                   ELSE End(Last(found))
<1> USE DEF InCall
<1>1. /\ pc = "recover" /\ pc' = "run" /\ out' = version /\ index' = Place(pos, seek)
      /\ value' = snapshot[version] \o UpdatesOf(s)
      /\ cached' = [cached EXCEPT ![version] = found]
      /\ disk' = [disk EXCEPT ![version] = [p \in Page |-> {e \in @[p] : e.at < pos}]]
      /\ UNCHANGED <<versionFile, newFile, snapshot, logfile, caller, version,
                     old, forced, counters, safe>>
  BY DEF Recover
<1>2. /\ version \in Version /\ versionFile = version /\ ~Valid(newFile)
      /\ Valid(version)
  BY <1>1, Names DEF Inv, FilesInv, Usable
<1>3. Current = version /\ Current' = version
  BY <1>1, <1>2 DEF Current
<1>4. snapshot[version] \in Value
  BY <1>2, <1>3, CurrentFacts, Names
<1>5. s \in Seq(Records) /\ Ordered(s) /\ Complete(s) \in Nat /\ Complete(s) \in 0 .. Len(s)
  BY <1>2, LogOf, CompleteFacts DEF Inv
<1>6. /\ found \in Seq(Records) /\ Ordered(found) /\ Len(found) = Complete(s)
      /\ \A i \in 1 .. Complete(s) : found[i] = s[i]
      /\ pos = Position(found, Len(found))
      /\ seek = pos \/ Pad => Place(pos, seek) = pos
  <2>1. seek \in {pos, IF found = <<>> THEN pos ELSE End(Last(found))}
    OBVIOUS
  <2> HIDE DEF seek
  <2> QED  BY <1>5, <2>1, Recovered
<1>s. Pad \/ seek = pos
  <2>1. ASSUME ~Pad PROVE pos <= length[version]
    <3>1. Complete(s) = Len(s) /\ Position(s, Len(s)) <= length[version]
      BY <1>1, <1>2, <1>3, <2>1 DEF TailInv, Padded, OldOpen, Opening
    <3>2. found = s
      BY <1>5, <3>1, SubSeqFull
    <3> QED  BY <1>6, <3>1, <3>2
  <2> HIDE DEF pos, found
  <2> QED  BY <2>1
<1>i. index' = pos
  BY <1>1, <1>6, <1>s
<1>7. cached'[version] = found
      /\ \A p \in Page : disk'[version][p] = {e \in disk[version][p] : e.at < pos}
  BY <1>1, <1>2 DEF Inv, LogInv, StateOK
<1> HIDE DEF s, found, pos, seek
<1>8. /\ Complete(found) = Len(found)
      /\ SubSeq(UpdatesOf(found), 1, Len(found)) = UpdatesOf(s)
  <2>1. /\ Complete(s) <= Complete(s) /\ Complete(s) <= Len(found)
        /\ Complete(found) \in 0 .. Len(found)
    BY <1>5, <1>6, CompleteFacts
  <2>2. /\ Complete(s) <= Complete(found)
        /\ SubSeq(UpdatesOf(found), 1, Complete(s)) = SubSeq(UpdatesOf(s), 1, Complete(s))
    BY <1>5, <1>6, <2>1, ReadAlike
  <2>3. UpdatesOf(s) \in Value /\ Len(UpdatesOf(s)) = Complete(s)
    BY <1>5, UpdatesType
  <2>4. SubSeq(UpdatesOf(s), 1, Complete(s)) = UpdatesOf(s)
    BY <2>3, SubSeqFull DEF Value
  <2> QED  BY <1>5, <1>6, <2>1, <2>2, <2>4
<1>9. WriterInv'
  <2>1. value' = snapshot'[version] \o SubSeq(UpdatesOf(found), 1, Len(found))
    BY <1>1, <1>8
  <2> QED  BY <1>1, <1>2, <1>6, <1>7, <1>8, <1>i, <2>1 DEF WriterInv, Incomplete
<1>10. Kept(version)
  BY <1>2, <1>3 DEF DurableInv, SafeInv
<1>11. IsPrefix(safe', value')
  BY <1>1, <1>2, <1>4, <1>10, KeptFound DEF Inv, s
<1>12. Kept(version)'
  <2>1. ASSUME NEW k \in 0 .. Complete(s)
        PROVE  /\ k <= Len(found) /\ \A i \in 1 .. k : found[i] = s[i]
               /\ \A p \in Page :
                    PageKept(s, found, disk[version], disk'[version], k, p)
    <3>1. pos \in Nat /\ \A i \in 1 .. Len(found) : found[i].at < pos
      BY <1>6, StopsBehind
    <3>2. k <= Len(found) /\ \A i \in 1 .. k : found[i] = s[i]
      BY <1>5, <1>6
    <3>3. \A i \in 1 .. k : s[i].at < pos
      <4>1. \A i \in 1 .. k : i \in 1 .. Len(found) /\ i \in 1 .. Complete(s)
        BY <1>5, <1>6
      <4> QED  BY <1>6, <3>1, <4>1
    <3> QED  BY <1>7, <3>1, <3>2, <3>3 DEF PageKept
  <2>2. PICK v \in Version : v = version
    BY <1>2
  <2>3. Kept(v)'
    <3>1. \A k \in 0 .. Complete(cached[v]) :
           Settled(cached[v], disk[v], k) =>
             /\ k <= Len(cached'[v])
             /\ \A i \in 1 .. k : cached'[v][i] = cached[v][i]
             /\ \A p \in Page :
                  PageKept(cached[v], cached'[v], disk[v], disk'[v], k, p)
      BY <1>7, <2>1, <2>2 DEF s
    <3> QED  BY <1>1, <1>10, <2>2, <3>1, KeptStays DEF Inv
  <2> QED  BY <1>1, <2>2, <2>3
<1>13. SafeInv'
  BY <1>1, <1>2, <1>3, <1>11, <1>12, Names DEF SafeInv
<1>14. VersionInv'
  BY <1>1, <1>2 DEF DurableInv, VersionInv, NewOpen, NewLog, Uncommitted,
     Committing, Dropping
<1> QED  BY <1>9, <1>13, <1>14 DEF DurableInv
\* Updates go to the version that a restart chooses.
LEMMA OpenIsCurrent ==
  ASSUME Inv, DurableInv, OldOpen
  PROVE  /\ WriterInv /\ out \in Version /\ out = versionFile /\ Current = out
         /\ (Valid(newFile) => newFile = versionFile)
         /\ IsPrefix(safe, value) /\ Kept(out)
         /\ snapshot[out] \in Value
         /\ cached[out] \in Seq(Records) /\ Ordered(cached[out])
         /\ Len(cached[out]) \in Nat
<1>1. WriterInv /\ out = versionFile /\ (Valid(newFile) => newFile = versionFile)
      /\ IsPrefix(safe, value)
  BY DEF DurableInv, VersionInv, SafeInv
<1>2. out \in Version
  BY <1>1 DEF WriterInv
<1>3. Current = out
  BY <1>1, <1>2, Names DEF Current
<1>4. Kept(out)
  BY <1>2, <1>3 DEF DurableInv, SafeInv
<1>5. snapshot[out] \in Value
  BY <1>2, <1>3, CurrentFacts, Names
<1> QED  BY <1>1, <1>2, <1>3, <1>4, <1>5, LogOf DEF Inv

\* So they stay with it when the records are kept that were settled in its log.
LEMMA DurableRunning ==
  ASSUME Inv, Inv', DurableInv, OldOpen, OldOpen', WriterInv',
         UNCHANGED <<versionFile, newFile, snapshot, caller, out>>,
         pc' \notin Opening, IsPrefix(safe', value'), Kept(out)'
  PROVE  DurableInv'
<1>1. /\ out \in Version /\ out = versionFile /\ Current = out
      /\ (Valid(newFile) => newFile = versionFile)
  BY OpenIsCurrent
<1>2. Current' = out
  BY <1>1 DEF Current
<1>3. \A v \in Version : v = Current' => Kept(v)'
  BY <1>2
<1>4. Current' # 0
  BY <1>1, <1>2, Names
<1>5. SafeInv'
  BY <1>3, <1>4 DEF SafeInv
<1>6. pc' \notin Uncommitted /\ pc' \notin NewLog /\ pc' # "openLog"
  BY DEF OldOpen, Opening, InCall, Uncommitted, NewLog, Committing, Dropping
<1>7. VersionInv'
  BY <1>1, <1>6 DEF VersionInv, NewOpen, DurableInv
<1> QED  BY <1>5, <1>7 DEF DurableInv

LEMMA WriterRecords ==
  ASSUME Inv, Inv', DurableInv, NEW force \in BOOLEAN, NEW size \in Sizes,
         LogUpdate(force, size)
  PROVE  DurableInv'
<1> DEFINE s == cached[out]
           e == Record(size)
           t == Append(s, e)
<1> USE DEF InCall
<1>1. /\ pc = "run" /\ pc' \in {"syncContents", "writeLength"}
      /\ updates' = updates + 1 /\ index' = End(e)
      /\ cached' = [cached EXCEPT ![out] = t]
      /\ UNCHANGED <<versionFile, newFile, snapshot, disk, caller, out, value, safe>>
  BY DEF LogUpdate
<1>2. OldOpen /\ OldOpen' /\ pc' \notin Opening
  BY <1>1 DEF OldOpen, Opening
<1>3. /\ WriterInv /\ out \in Version /\ IsPrefix(safe, value) /\ Kept(out)
      /\ s \in Seq(Records) /\ Ordered(s) /\ Len(s) \in Nat
  BY <1>2, OpenIsCurrent
<1>4. /\ e.u = updates + 1 /\ e.whole /\ ~e.len /\ e.at = index /\ e \in Records
  <2>1. updates + 1 \in Update
    BY BoundAssumption DEF LogUpdate, Inv, LogInv, StateOK, Update
  <2> QED  BY <2>1 DEF Record, Records, Inv, LogInv, StateOK
<1>5. cached'[out] = t /\ t \in Seq(Records)
  BY <1>1, <1>3, <1>4, AppendProperties DEF Inv, LogInv, StateOK
<1>6. /\ Len(t) = Len(s) + 1 /\ t[Len(s) + 1] = e
      /\ \A i \in 1 .. Len(s) : t[i] = s[i]
  BY <1>3, <1>4, AppendProperties
<1>7. /\ Complete(s) = Len(s) /\ index = Position(s, Len(s))
      /\ value = snapshot[out] \o SubSeq(UpdatesOf(s), 1, Len(s))
  BY <1>1, <1>3 DEF WriterInv, Incomplete
<1> HIDE DEF s, t, e
<1>8. /\ Len(s) <= Complete(t)
      /\ SubSeq(UpdatesOf(t), 1, Len(s)) = SubSeq(UpdatesOf(s), 1, Len(s))
  <2>1. Len(s) <= Complete(s) /\ Len(s) <= Len(t)
    BY <1>3, <1>6, <1>7
  <2> QED  BY <1>3, <1>5, <1>6, <2>1, ReadAlike
<1>9. Complete(t) = Len(s)
  <2>1. Complete(t) \in 0 .. Len(t) /\ \A i \in 1 .. Complete(t) : Reads(t, i)
    BY <1>5, CompleteFacts
  <2>2. ~Reads(t, Len(s) + 1)
    BY <1>4, <1>6 DEF Reads
  <2>3. Complete(t) # Len(s) + 1
    BY <1>3, <2>1, <2>2
  <2> QED  BY <1>3, <1>6, <1>8, <2>1, <2>3
<1>10. Position(t, Len(s)) = Position(s, Len(s))
  <2>1. Len(s) # 0 => Len(s) \in 1 .. Len(s)
    BY <1>3
  <2> QED  BY <1>6, <2>1 DEF Position
<1>11. WriterInv'
  <2>1. Len(t) - 1 = Len(s) /\ Len(t) > 0
    BY <1>3, <1>6
  <2> QED  BY <1>1, <1>3, <1>4, <1>5, <1>6, <1>7, <1>8, <1>9, <1>10, <2>1
           DEF WriterInv, Incomplete
<1>12. Kept(out)'
  <2>1. PICK v \in Version : v = out
    BY <1>3
  <2>2. \A k \in 0 .. Complete(cached[v]) :
           Settled(cached[v], disk[v], k) =>
             /\ k <= Len(cached'[v])
             /\ \A i \in 1 .. k : cached'[v][i] = cached[v][i]
             /\ \A p \in Page :
                  PageKept(cached[v], cached'[v], disk[v], disk'[v], k, p)
    <3> TAKE k \in 0 .. Complete(cached[v])
    <3>1. k \in 0 .. Len(s)
      BY <1>7, <2>1 DEF s
    <3>2. k <= Len(t) /\ \A i \in 1 .. k : i \in 1 .. Len(s)
      BY <1>3, <1>6, <3>1
    <3>3. k <= Len(cached'[v]) /\ \A i \in 1 .. k : cached'[v][i] = cached[v][i]
      BY <1>5, <1>6, <2>1, <3>2 DEF s
    <3>4. \A p \in Page : PageKept(cached[v], cached'[v], disk[v], disk'[v], k, p)
      BY <1>1 DEF PageKept
    <3> QED  BY <3>3, <3>4
  <2>3. Kept(v)'
    BY <1>1, <1>3, <2>1, <2>2, KeptStays DEF Inv
  <2> QED  BY <1>1, <2>1, <2>3
<1> QED  BY <1>1, <1>2, <1>3, <1>11, <1>12, DurableRunning

LEMMA WriterSyncs ==
  ASSUME Inv, Inv', DurableInv, SyncContents
  PROVE  DurableInv'
<1> USE DEF InCall
<1>1. /\ pc = "syncContents" /\ pc' = "writeLength"
      /\ disk' = [disk EXCEPT ![out] = Written(cached[out])]
      /\ UNCHANGED <<versionFile, newFile, snapshot, logfile, cached, caller,
                     version, old, writer, value, counters, safe>>
  BY DEF SyncContents, Sync
<1>2. OldOpen /\ OldOpen' /\ pc' \notin Opening
  BY <1>1 DEF OldOpen, Opening
<1>3. /\ WriterInv /\ out \in Version /\ IsPrefix(safe, value) /\ Kept(out)
      /\ cached[out] \in Seq(Records) /\ Len(cached[out]) \in Nat
  BY <1>2, OpenIsCurrent
<1>4. WriterInv'
  BY <1>1, <1>3 DEF WriterInv, Incomplete, writer, counters
<1>5. \A p \in Page : disk'[out][p] = OnPage(cached[out], p)
  BY <1>1, <1>3 DEF Written, Inv, LogInv, StateOK
<1>6. Kept(out)'
  <2>1. PICK v \in Version : v = out
    BY <1>3
  <2>2. Complete(cached[v]) \in 0 .. Len(cached[v])
    BY <1>3, <2>1, CompleteFacts
  <2>3. \A k \in 0 .. Complete(cached[v]) :
           Settled(cached[v], disk[v], k) =>
             /\ k <= Len(cached'[v])
             /\ \A i \in 1 .. k : cached'[v][i] = cached[v][i]
             /\ \A p \in Page :
                  PageKept(cached[v], cached'[v], disk[v], disk'[v], k, p)
    BY <1>1, <1>3, <1>5, <2>1, <2>2 DEF PageKept
  <2>4. Kept(v)'
    BY <1>1, <1>3, <2>1, <2>3, KeptStays DEF Inv
  <2> QED  BY <1>1, <2>1, <2>4 DEF writer
<1> QED  BY <1>1, <1>2, <1>3, <1>4, <1>6, DurableRunning DEF writer
\* The length makes the last record complete: it is not zero.
LEMMA WriterCompletes ==
  ASSUME Inv, Inv', DurableInv, Promising, WriteLength
  PROVE  DurableInv'
<1> DEFINE s == cached[out]
           n == Len(s)
           t == [s EXCEPT ![n].len = TRUE]
<1> USE DEF InCall
<1>1. /\ pc = "writeLength" /\ pc' = "finish" /\ index' = Align(index)
      /\ cached' = [cached EXCEPT ![out] = t]
      /\ UNCHANGED <<versionFile, newFile, snapshot, disk, caller, out, value,
                     updates, safe>>
  BY DEF WriteLength, counters
<1>2. OldOpen /\ OldOpen' /\ pc' \notin Opening
  BY <1>1 DEF OldOpen, Opening
<1>3. /\ WriterInv /\ out \in Version /\ IsPrefix(safe, value) /\ Kept(out)
      /\ s \in Seq(Records) /\ Ordered(s) /\ n \in Nat
  BY <1>2, OpenIsCurrent
<1>4. /\ n > 0 /\ s[n].u = updates /\ s[n].whole
      /\ s[n].at = Position(s, n - 1) /\ Complete(s) = n - 1 /\ index = End(s[n])
      /\ value = snapshot[out] \o SubSeq(UpdatesOf(s), 1, n - 1)
  BY <1>1, <1>3 DEF WriterInv, Incomplete
<1>5. n \in 1 .. n /\ n - 1 \in Nat
  BY <1>3, <1>4
<1>6. /\ t \in Seq(Records) /\ Len(t) = n
      /\ \A i \in 1 .. n : i # n => t[i] = s[i]
      /\ t[n].at = s[n].at /\ t[n].u = s[n].u /\ t[n].size = s[n].size
      /\ t[n].whole = s[n].whole /\ t[n].len
  <2>1. /\ t \in Seq(Records) /\ Len(t) = n
        /\ \A i \in 1 .. n :
             /\ i # n => t[i] = s[i]
             /\ t[i].at = s[i].at /\ t[i].u = s[i].u /\ t[i].size = s[i].size
             /\ t[i].whole = s[i].whole /\ (i = n => t[i].len)
    <3> HIDE DEF s
    <3> QED  BY <1>3, <1>5, LengthWritten
  <2> HIDE DEF s, t, n
  <2> QED  BY <1>5, <2>1
<1>7. cached'[out] = t
  BY <1>1, <1>3 DEF Inv, LogInv, StateOK
<1>8. s[n] \in Records /\ End(s[n]) \in Nat /\ End(t[n]) = End(s[n])
  <2>1. s[n] \in Records
    BY <1>3, <1>5, ElementOfSeq
  <2> QED  BY <1>6, <2>1, EndFacts DEF End
<1> HIDE DEF s, t, n
<1>9. \A i \in 1 .. n - 1 : i \in 1 .. n /\ i # n /\ t[i] = s[i]
  BY <1>5, <1>6
<1>10. /\ n - 1 <= Complete(t)
       /\ SubSeq(UpdatesOf(t), 1, n - 1) = SubSeq(UpdatesOf(s), 1, n - 1)
  <2>1. n - 1 <= Complete(s) /\ n - 1 <= Len(t)
    BY <1>4, <1>5, <1>6
  <2> QED  BY <1>3, <1>5, <1>6, <1>9, <2>1, ReadAlike
<1>11. Position(t, n - 1) = Position(s, n - 1)
  <2>1. n - 1 # 0 => n - 1 \in 1 .. n - 1
    BY <1>5
  <2> QED  BY <1>9, <2>1 DEF Position
<1>12. Complete(t) = n
  <2>1. /\ Complete(t) \in 0 .. n /\ \A i \in 1 .. Complete(t) : Reads(t, i)
        /\ (\A i \in 1 .. n : Reads(t, i)) => n <= Complete(t)
    <3>1. n \in 0 .. Len(t)
      BY <1>3, <1>6
    <3> QED  BY <1>6, <3>1, CompleteFacts
  <2>2. Reads(t, n)
    <3>1. t[n].size > 0
      <4>1. t[n].size \in Sizes
        BY <1>6, <1>8 DEF Records
      <4>2. t[n].size \in Nat /\ t[n].size # 0
        BY <4>1, LayoutAssumption DEF Promising
      <4> QED  BY <4>2
    <3>2. t[n].at = IF n = 1 THEN 0 ELSE AlignRead(End(t[n - 1]))
      <4>1. t[n].at = Position(t, n - 1)
        BY <1>4, <1>6, <1>11
      <4> QED  BY <1>5, <4>1 DEF Position
    <3> QED  BY <1>6, <3>1, <3>2 DEF Reads
  <2>3. \A i \in 1 .. n : i \in 1 .. n - 1 \/ i = n
    BY <1>5
  <2>4. \A i \in 1 .. n - 1 : Reads(t, i)
    <3>1. \A i \in 1 .. n - 1 : i \in 1 .. Complete(t)
      BY <1>5, <1>10, <2>1
    <3> QED  BY <2>1, <3>1
  <2>5. n <= Complete(t)
    BY <2>1, <2>2, <2>3, <2>4
  <2> QED  BY <1>5, <2>1, <2>5
<1>13. WriterInv'
  <2>1. index' = Position(t, n)
    <3>1. Align(End(t[n])) = AlignRead(End(t[n]))
      BY <1>8, AlignsAgree
    <3> QED  BY <1>1, <1>4, <1>5, <1>8, <3>1 DEF Position
  <2>2. t[n].at = Position(t, n - 1)
    BY <1>4, <1>6, <1>11
  <2> QED  BY <1>1, <1>3, <1>4, <1>6, <1>7, <1>10, <1>12, <2>1, <2>2
           DEF WriterInv, Incomplete
<1>14. Kept(out)'
  <2>1. PICK v \in Version : v = out
    BY <1>3
  <2>2. \A k \in 0 .. Complete(cached[v]) :
           Settled(cached[v], disk[v], k) =>
             /\ k <= Len(cached'[v])
             /\ \A i \in 1 .. k : cached'[v][i] = cached[v][i]
             /\ \A p \in Page :
                  PageKept(cached[v], cached'[v], disk[v], disk'[v], k, p)
    <3> TAKE k \in 0 .. Complete(cached[v])
    <3>1. k \in 0 .. n - 1
      BY <1>4, <2>1 DEF s
    <3>2. k <= n /\ \A i \in 1 .. k : i \in 1 .. n - 1
      BY <1>5, <3>1
    <3>3. k <= Len(cached'[v]) /\ \A i \in 1 .. k : cached'[v][i] = cached[v][i]
      BY <1>6, <1>7, <1>9, <2>1, <3>2 DEF s
    <3>4. \A p \in Page : PageKept(cached[v], cached'[v], disk[v], disk'[v], k, p)
      BY <1>1 DEF PageKept
    <3> QED  BY <3>3, <3>4
  <2>3. Kept(v)'
    BY <1>1, <1>3, <2>1, <2>2, KeptStays DEF Inv
  <2> QED  BY <1>1, <2>1, <2>3
<1> QED  BY <1>1, <1>2, <1>3, <1>13, <1>14, DurableRunning

\* An update that has its length is found, before the client's data has it.
LEMMA FinishFinds ==
  ASSUME Inv, DurableInv, pc = "finish"
  PROVE  /\ updates \in Update /\ value \in Value
         /\ UpdatesOf(cached[out]) \in Value
         /\ Len(UpdatesOf(cached[out])) = Len(cached[out])
         /\ Append(value, updates) = value \o <<updates>>
         /\ Append(value, updates) = snapshot[out] \o UpdatesOf(cached[out])
<1> DEFINE s == cached[out]
           n == Len(s)
           U == UpdatesOf(s)
           w == snapshot[out]
           V == Update \cup {Garbage}
<1>1. /\ WriterInv /\ s \in Seq(Records) /\ Ordered(s) /\ n \in Nat /\ w \in Value
  BY OpenIsCurrent DEF OldOpen, InCall
<1>2. /\ n > 0 /\ s[n].u = updates /\ s[n].whole /\ Complete(s) = n
      /\ value = w \o SubSeq(U, 1, n - 1)
  BY <1>1 DEF WriterInv, Incomplete, InCall
<1>3. n \in 1 .. n /\ n - 1 \in 0 .. n
  BY <1>1, <1>2
<1>4. U \in Value /\ Len(U) = n /\ U[n] = updates
  <2>1. /\ U \in Value /\ Len(U) = Complete(s)
        /\ \A i \in 1 .. Complete(s) : U[i] = Contents(s[i])
    BY <1>1, UpdatesType
  <2> QED  BY <1>2, <1>3, <2>1 DEF Contents
<1>5. updates \in Update
  <2>1. s[n] \in Records
    BY <1>1, <1>3, ElementOfSeq
  <2> QED  BY <1>2, <2>1 DEF Records
<1> HIDE DEF s, n, U, w, V
<1>6. updates \in V /\ <<updates>> \in Value /\ Append(value, updates) = value \o <<updates>>
  <2>1. updates \in V /\ value \in Seq(V)
    BY <1>5 DEF Inv, LogInv, StateOK, V, Value
  <2>2. <<updates>> \in Seq(V) /\ Append(value, updates) = value \o <<updates>>
    BY <2>1, AppendIsConcat
  <2> QED  BY <2>1, <2>2 DEF Value, V
<1>7. Append(value, updates) = w \o U
  <2> DEFINE a == SubSeq(U, 1, n - 1)
             b == <<updates>>
  <2>1. n - 1 \in Nat /\ n - 1 + 1 = n
    BY <1>1, <1>3
  <2>2. a \in Value /\ a \o SubSeq(U, n, n) = U
    <3>1. /\ SubSeq(U, 1, n - 1) \in Value
          /\ SubSeq(U, 1, n - 1) \o SubSeq(U, n - 1 + 1, Len(U)) = U
      BY <1>3, <1>4, FirstUpdates
    <3> QED  BY <1>4, <2>1, <3>1
  <2>3. SubSeq(U, n, n) = b
    BY <1>1, <1>4, <1>6, OneElement
  <2>4. (w \o a) \o b = w \o (a \o b)
    <3>1. w \in Seq(V) /\ a \in Seq(V) /\ b \in Seq(V)
      BY <1>1, <1>6, <2>2 DEF Value, V
    <3> HIDE DEF a, b
    <3> QED  BY <3>1, ConcatAssociative
  <2> QED  BY <1>2, <1>6, <2>2, <2>3, <2>4
<1>8. value \in Value
  BY DEF Inv, LogInv, StateOK
<1> QED  BY <1>4, <1>5, <1>6, <1>7, <1>8 DEF s, n, U, w

\* The client has its update, and if it was forced it is kept.
LEMMA WriterFinishes ==
  ASSUME Inv, Inv', DurableInv, Finish
  PROVE  DurableInv'
<1> DEFINE s == cached[out]
           n == Len(s)
           U == UpdatesOf(s)
           w == snapshot[out]
           V == Update \cup {Garbage}
<1> USE DEF InCall
<1>1. /\ pc = "finish" /\ pc' = "run" /\ value' = Append(value, updates)
      /\ \/ Sync(index) /\ safe' = value'
         \/ UNCHANGED <<disk, safe>>
      /\ UNCHANGED <<versionFile, newFile, snapshot, cached, caller, out, index,
                     updates>>
  BY DEF Finish, counters, writer
<1>2. OldOpen /\ OldOpen' /\ pc' \notin Opening
  BY <1>1 DEF OldOpen, Opening
<1>3. /\ WriterInv /\ out \in Version /\ IsPrefix(safe, value) /\ Kept(out)
      /\ s \in Seq(Records) /\ Ordered(s) /\ n \in Nat /\ w \in Value
  BY <1>2, OpenIsCurrent
<1>4. n > 0 /\ Complete(s) = n /\ index = Position(s, n)
  BY <1>1, <1>3 DEF WriterInv, Incomplete
<1>5. /\ U \in Value /\ Len(U) = n
      /\ Append(value, updates) = value \o <<updates>>
      /\ Append(value, updates) = w \o U
  BY <1>1, FinishFinds
<1>6. updates \in V
  BY <1>1, FinishFinds
<1> HIDE DEF s, n, U, w
<1>7. value' = value \o <<updates>> /\ <<updates>> \in Value
  BY <1>1, <1>5, <1>6 DEF Value, V
<1>8. value' = w \o U
  BY <1>1, <1>5
<1>9. SubSeq(U, 1, n) = U
  BY <1>5, SubSeqFull DEF Value
<1>10. WriterInv'
  BY <1>1, <1>3, <1>4, <1>8, <1>9 DEF WriterInv, Incomplete, s, n, U, w
<1>11. IsPrefix(safe', value')
  <2>1. value' \in Value /\ value \in Value /\ safe \in Value
    BY DEF Inv, LogInv, StateOK
  <2>2. IsPrefix(value', value')
    BY <2>1, PrefixSelf
  <2>3. IsPrefix(safe, value')
    BY <1>3, <1>7, <2>1, PrefixGrows
  <2> QED  BY <1>1, <2>2, <2>3
<1>12. Kept(out)'
  <2>1. CASE UNCHANGED <<disk, safe>>
    BY <1>1, <1>3, <2>1 DEF Kept
  <2>2. CASE Sync(index) /\ safe' = value'
    <3>1. disk'[out] = Written(s)
      BY <1>3, <2>2 DEF Sync, s, Inv, LogInv, StateOK
    <3>2. Settled(s, Written(s), n) /\ n \in 0 .. Len(s)
      <4>1. Complete(s) = Len(s) /\ n = Len(s)
        BY <1>4 DEF n
      <4>2. Settled(s, Written(s), Len(s))
        BY <1>3, <4>1, SettledBounds
      <4> QED  BY <1>3, <4>1, <4>2
    <3>3. IsPrefix(safe', w \o SubSeq(U, 1, n))
      BY <1>8, <1>9, <1>11
    <3>4. Keeps(s, disk'[out], w, safe')
      BY <3>1, <3>2, <3>3 DEF Keeps, U
    <3> QED  BY <1>1, <3>4 DEF Kept, s, w
  <2> QED  BY <1>1, <2>1, <2>2
<1> QED  BY <1>1, <1>2, <1>10, <1>11, <1>12, DurableRunning

\* A step that fails changes no version file but one that names what the other
\* does.
LEMMA FailureChooses ==
  ASSUME Inv, DurableInv, Promising, Raise
  PROVE  Current' = Current
<1>1. versionFile' = versionFile /\ pc \in FailurePoints
      /\ pc \notin {"getVersion", "getOldVersion"}
  BY DEF Raise, Promising
<1>2. CASE UNCHANGED newFile
  BY <1>1, <1>2 DEF Current
<1>3. CASE InSnapshot /\ caller = "boot" /\ newFile' = Absent
  <2>1. pc = "deleteNewVersion"
    BY <1>1, <1>3 DEF Promising, InSnapshot, DurableInv, VersionInv, Uncommitted, Dropping,
                      Inv, FilesInv
  <2>2. newFile = version /\ versionFile = version /\ Valid(version)
    BY <2>1, Names DEF Inv, FilesInv, Usable, Committing
  <2> QED  BY <1>1, <1>3, <2>2, Names DEF Current
<1>4. UNCHANGED newFile \/ (InSnapshot /\ caller = "boot" /\ newFile' = Absent)
  BY <1>1 DEF Raise
<1> QED  BY <1>2, <1>3, <1>4

LEMMA DurableFails ==
  ASSUME Inv, Inv', DurableInv, Promising, Raise
  PROVE  DurableInv'
<1>1. UNCHANGED <<versionFile, snapshot, logfile, cached, disk, updates, crashes, safe>>
      /\ pc \in FailurePoints
  BY DEF Raise, Promising
<1>2. /\ pc \notin {"openLog", "getVersion", "getOldVersion"}
      /\ \/ pc = "recover" \/ pc \in {"openSnapshot", "writeSnapshot"}
         \/ pc \in {"deleteNewVersion"} \cup Dropping
  BY <1>1 DEF Promising, Dropping
<1>3. pc # "run" /\ ~InCall
  BY <1>2 DEF Dropping, InCall
<1>4. CASE InSnapshot /\ caller = "snapshot"
  <2>1. /\ pc' = "run" /\ OldOpen'
        /\ UNCHANGED <<newFile, caller, version, old, out, index, forced, value>>
    BY <1>2, <1>3, <1>4 DEF Raise, OldOpen, InSnapshot
  <2>2. pc' \notin Opening
    BY <2>1 DEF Opening
  <2>3. Current' = Current
    BY <1>1, <2>1 DEF Current
  <2>4. IsPrefix(safe', value')
    BY <1>1, <1>4, <2>1 DEF DurableInv, SafeInv
  <2>5. SafeInv'
    BY <1>1, <2>1, <2>3, <2>4, SafeAlone DEF DurableInv
  <2>6. CASE pc \in {"openSnapshot", "writeSnapshot"}
    <3>1. OldOpen
      BY <1>4, <2>6 DEF OldOpen, Opening
    <3>2. WriterInv'
      BY <1>1, <2>1, <2>6, <3>1 DEF DurableInv, WriterInv, Incomplete, InCall
    <3>3. VersionInv'
      BY <1>1, <2>1, <3>1 DEF DurableInv, VersionInv, NewOpen, NewLog, Uncommitted,
         Committing, Dropping
    <3> QED  BY <2>5, <3>2, <3>3 DEF DurableInv
  <2>7. CASE pc \in {"deleteNewVersion"} \cup Dropping
    <3>1. NewOpen
      BY <1>4, <2>7 DEF NewOpen, NewLog, Committing
    <3>2. out = version /\ index = 0 /\ cached[version] = <<>> /\ snapshot[version] = value
      BY <3>1 DEF DurableInv, VersionInv
    <3>3. /\ version \in Version /\ versionFile = version
          /\ (Valid(newFile) => newFile = versionFile)
      BY <2>7, Names DEF Inv, FilesInv, Usable, Committing, Dropping
    <3>4. WriterInv'
      BY <1>1, <2>1, <3>2, <3>3, FreshWriter DEF Inv, LogInv
    <3>5. VersionInv'
      BY <1>1, <2>1, <3>2, <3>3 DEF DurableInv, VersionInv, NewOpen, NewLog,
         Uncommitted, Committing, Dropping
    <3> QED  BY <2>5, <3>4, <3>5 DEF DurableInv
  <2> QED  BY <1>2, <1>4, <2>6, <2>7 DEF InSnapshot
<1>5. CASE ~(InSnapshot /\ caller = "snapshot")
  <2>1. caller \in {"boot", "create", "snapshot"}
    BY DEF DurableInv, VersionInv
  <2>2. /\ pc' \in {"off", "getOldVersion"} /\ caller' \in {"boot", "create", "snapshot"}
        /\ ~(OldOpen \/ (InSnapshot /\ caller # "boot"))'
    BY <1>2, <1>3, <1>5, <2>1 DEF Raise, Running, Ends, OldOpen, InSnapshot, InCall, Opening
  <2>3. Current' = Current
    BY FailureChooses
  <2>4. SafeInv'
    BY <1>1, <2>2, <2>3, SafeAlone DEF DurableInv
  <2> QED  BY <2>2, <2>4, Stopped
<1> QED  BY <1>4, <1>5

\* The program stops: what the files hold is kept, by the kernel or the disk.
LEMMA DurableStops ==
  ASSUME Inv, Inv', DurableInv, Close \/ Crash \/ MachineCrash
  PROVE  DurableInv'
<1>1. /\ pc' = "off" /\ caller' = "boot"
      /\ UNCHANGED <<versionFile, newFile, snapshot, disk, safe>>
      /\ \/ UNCHANGED cached
         \/ \A v \in Version : cached'[v] = OnDisk(disk[v])
  BY DEF Close, Crash, MachineCrash, Ends, files
<1>2. ~(OldOpen \/ (InSnapshot /\ caller # "boot"))'
  BY <1>1 DEF OldOpen, InSnapshot, InCall, Opening
<1>3. Current' = Current
  BY <1>1 DEF Current
<1>4. CASE UNCHANGED cached
  <2>1. SafeInv'
    BY <1>1, <1>2, <1>3, <1>4, SafeAlone DEF DurableInv
  <2> QED  BY <1>1, <2>1, Stopped
<1>5. CASE \A v \in Version : cached'[v] = OnDisk(disk[v])
  <2>1. ASSUME NEW v \in Version, v = Current PROVE Kept(v)'
    <3>1. Kept(v)
      BY <2>1 DEF DurableInv, SafeInv
    <3>2. \A k \in 0 .. Complete(cached[v]) :
           Settled(cached[v], disk[v], k) =>
             /\ k <= Len(cached'[v])
             /\ \A i \in 1 .. k : cached'[v][i] = cached[v][i]
             /\ \A p \in Page :
                  PageKept(cached[v], cached'[v], disk[v], disk'[v], k, p)
      <4> TAKE k \in 0 .. Complete(cached[v])
      <4> HAVE Settled(cached[v], disk[v], k)
      <4>1. k \in Nat
        OBVIOUS
      <4>2. /\ cached[v] \in Seq(Records) /\ Ordered(cached[v])
            /\ \A p \in Page : disk[v][p] \in SUBSET Records /\ PageOK(disk[v][p])
        BY LogOf DEF Inv
      <4>3. /\ k <= Len(OnDisk(disk[v]))
            /\ \A i \in 1 .. k : OnDisk(disk[v])[i] = cached[v][i]
        BY <4>1, <4>2, SettledFound
      <4>4. \A p \in Page :
              PageKept(cached[v], cached'[v], disk[v], disk'[v], k, p)
        BY <1>1 DEF PageKept
      <4> QED  BY <1>5, <4>3, <4>4
    <3> QED  BY <1>1, <3>1, <3>2, KeptStays DEF Inv
  <2>2. SafeInv'
    BY <1>1, <1>2, <1>3, <2>1 DEF DurableInv, SafeInv
  <2> QED  BY <1>1, <2>2, Stopped
<1> QED  BY <1>1, <1>4, <1>5

LEMMA DurableWriteback ==
  ASSUME Inv, Inv', DurableInv, NEW v \in Version, NEW p \in Page, Writeback(v, p)
  PROVE  DurableInv'
<1>1. /\ disk' = [disk EXCEPT ![v][p] = OnPage(cached[v], p)]
      /\ UNCHANGED <<versionFile, newFile, snapshot, logfile, cached, pc, caller,
                     version, old, writer, value, counters, safe>>
  BY DEF Writeback
<1>2. Current' = Current
  BY <1>1 DEF Current
<1>3. ASSUME NEW w \in Version, Kept(w) PROVE Kept(w)'
  <2>1. \A q \in Page : disk'[w][q] = disk[w][q] \/ disk'[w][q] = OnPage(cached[w], q)
    BY <1>1 DEF Inv, LogInv, StateOK
  <2>2. \A k \in 0 .. Complete(cached[w]) :
           Settled(cached[w], disk[w], k) =>
             /\ k <= Len(cached'[w])
             /\ \A i \in 1 .. k : cached'[w][i] = cached[w][i]
             /\ \A q \in Page :
                  PageKept(cached[w], cached'[w], disk[w], disk'[w], k, q)
    <3> TAKE k \in 0 .. Complete(cached[w])
    <3>1. k <= Len(cached[w])
      <4>1. Complete(cached[w]) \in 0 .. Len(cached[w]) /\ Len(cached[w]) \in Nat
        BY LogOf, CompleteFacts DEF Inv
      <4> QED  BY <4>1
    <3> QED  BY <1>1, <2>1, <3>1 DEF PageKept
  <2> QED  BY <1>1, <1>3, <2>2, KeptStays DEF Inv
<1>4. SafeInv'
  BY <1>1, <1>2, <1>3 DEF DurableInv, SafeInv, OldOpen, InSnapshot, InCall, Opening
<1>5. VersionInv'
  BY <1>1 DEF DurableInv, VersionInv, OldOpen, NewOpen, NewLog, InCall, Opening,
              Uncommitted, Committing, Dropping, writer
<1>6. OldOpen' => WriterInv'
  BY <1>1 DEF DurableInv, WriterInv, OldOpen, InCall, Incomplete, Opening, writer,
              counters
<1> QED  BY <1>4, <1>5, <1>6 DEF DurableInv

LEMMA DurableStutter ==
  ASSUME DurableInv, UNCHANGED AllButSizes
  PROVE  DurableInv'
BY DEF DurableInv, SafeInv, Kept, Current, VersionInv, WriterInv, OldOpen, NewOpen,
       NewLog, InCall, InSnapshot, Opening, Incomplete, Uncommitted, Committing,
       Dropping, AllButSizes, writer, counters

LEMMA DurableStep ==
  ASSUME Promising, Inv, Inv', DurableInv, TailInv, [Next]_vars
  PROVE  DurableInv'
<1>1. CASE Boot
  BY <1>1, DurableBoot, DurableRecover DEF Boot
<1>2. CASE SnapshotStep
  BY <1>2, DurableSnapshot, DurableMade, DurableOpen, DurableCommit, DurableDrop
  DEF SnapshotStep
<1>3. CASE UpdateStep
  BY <1>3, WriterRecords, WriterSyncs, WriterCompletes, WriterFinishes
  DEF UpdateStep
<1>4. CASE Raise \/ Close \/ Crash \/ MachineCrash
  BY <1>4, DurableFails, DurableStops
<1>5. CASE \E v \in Version, p \in Page : Writeback(v, p)
  BY <1>5, DurableWriteback
<1>6. CASE (\E v \in Version : WriteSize(v)) \/ UNCHANGED vars
  BY <1>6, SizesAlone, DurableStutter
<1> QED  BY <1>1, <1>2, <1>3, <1>4, <1>5, <1>6 DEF Next

-----------------------------------------------------------------------------
(* The padding.                                                            *)

LEMMA TailInit ==
  ASSUME Promising, Init
  PROVE  TailInv
<1>1. Current = 0 /\ \A v \in Version : v # 0
  BY Names DEF Init, Current
<1> QED  BY <1>1 DEF Init, TailInv, Opening

\* What a restart would choose, and its log, are as they were.
LEMMA TailAlone ==
  ASSUME TailInv, Current' = Current, crashes' = crashes,
         \A v \in Version : v = Current =>
           cached'[v] = cached[v] /\ length'[v] = length[v],
         OldOpen => OldOpen',
         pc' \in Opening /\ caller' # "snapshot" => Current = 0
  PROVE  TailInv'
BY DEF TailInv, Padded

\* An empty log needs no padding.
LEMMA EmptyPadded ==
  ASSUME Inv', NEW v \in Version, cached'[v] = <<>>
  PROVE  Padded(v)'
<1>1. Complete(<<>>) = 0 /\ Len(<<>>) = 0
  <2>1. Complete(<<>>) \in 0 .. Len(<<>>) /\ Len(<<>>) = 0
    BY EmptyLog, CompleteFacts
  <2> QED  BY <2>1
<1>2. length'[v] \in Nat
  BY DEF Inv, SizesOK
<1> QED  BY <1>1, <1>2 DEF Padded, Position

LEMMA TailOpens ==
  ASSUME Inv, Inv', DurableInv, TailInv, ~Pad, OpenLog
  PROVE  TailInv'
<1>1. /\ pc = "openLog" /\ pc' = "newVersion" /\ version' = version
      /\ UNCHANGED <<versionFile, newFile, caller, crashes>>
      /\ length' = [Flushed EXCEPT ![version] = 0]
      /\ cached' = [cached EXCEPT ![version] = <<>>]
  BY DEF OpenLog, counters
<1>2. version \in Version /\ Current # version /\ Current' = Current
  BY <1>1, Unchosen DEF Uncommitted, Current
<1>3. pc' \notin Opening
  BY <1>1 DEF Opening
<1>4. CASE caller = "snapshot"
  <2>1. OldOpen /\ ~InCall
    BY <1>1, <1>4 DEF OldOpen, Opening, InCall
  <2>2. out \in Version /\ out = Current
    BY <2>1, OpenIsCurrent
  <2>3. cached'[out] = cached[out] /\ length'[out] = index
    BY <1>1, <1>2, <2>2 DEF Flushed, Inv, LogInv, StateOK
  <2>4. \A v \in Version : v = Current' => Padded(v)'
    <3>1. PICK v \in Version : v = out
      BY <2>2
    <3>2. /\ Complete(cached[out]) = Len(cached[out])
          /\ index = Position(cached[out], Len(cached[out])) /\ index \in Nat
      BY <2>1, OpenIsCurrent DEF WriterInv, Incomplete, InCall, Inv, LogInv, StateOK
    <3> QED  BY <1>2, <2>2, <2>3, <3>2 DEF Padded
  <2> QED  BY <1>1, <1>3, <2>4 DEF TailInv
<1>5. CASE caller # "snapshot"
  <2>1. Current' = 0 /\ \A v \in Version : v # 0
    BY <1>1, <1>2, <1>5, Names DEF TailInv, Opening
  <2> QED  BY <1>1, <1>3, <2>1 DEF TailInv
<1> QED  BY <1>4, <1>5

\* A version is committed with a log that is empty.
LEMMA TailCommits ==
  ASSUME Inv, Inv', DurableInv, TailInv, ~Pad, NewVersion \/ CommitToNewVersion
  PROVE  TailInv'
<1> USE DEF Opening, Uncommitted, Committing, Dropping
<1>1. /\ pc \in {"newVersion", "writeNewVersion"} \cup Committing
      /\ UNCHANGED <<cached, length, caller, version, crashes>>
      /\ pc' \notin Opening
  BY DEF NewVersion, CommitToNewVersion, counters, sizes
<1>2. ~OldOpen
  BY <1>1 DEF OldOpen, InCall
<1>3. CASE Current' = Current
  BY <1>1, <1>2, <1>3, TailAlone
<1>4. CASE pc = "writeNewVersion" /\ NewVersion
  <2>1. Current' = version /\ version \in Version
    BY <1>4, Names DEF NewVersion, Inv, FilesInv, Usable, Current
  <2>2. cached'[version] = <<>>
    BY <1>1, <1>4 DEF DurableInv, VersionInv, NewOpen, NewLog
  <2> QED  BY <1>1, <2>1, <2>2, EmptyPadded DEF TailInv
<1>5. CASE pc = "newVersion" /\ NewVersion
  <2>1. newFile' = Torn /\ versionFile' = versionFile
        /\ (Valid(newFile) => newFile = versionFile)
    BY <1>5 DEF NewVersion, DurableInv, VersionInv
  <2> QED  BY <1>3, <2>1, Names DEF Current
<1>6. CASE CommitToNewVersion
  <2>1. newFile = version /\ Valid(version)
    BY <1>6, Names DEF CommitToNewVersion, Inv, FilesInv, Usable
  <2>2. pc = "deleteNewVersion" => versionFile = version
    BY DEF Inv, FilesInv
  <2> QED  BY <1>3, <1>6, <2>1, <2>2, Names DEF CommitToNewVersion, Current
<1> QED  BY <1>1, <1>4, <1>5, <1>6 DEF NewVersion

\* While there are no crashes, what a restart would recover from is padded.
LEMMA TailStep ==
  ASSUME Promising, Inv, Inv', DurableInv, TailInv, [Next]_vars
  PROVE  TailInv'
<1> SUFFICES ASSUME ~Pad PROVE TailInv'
  BY DEF TailInv
<1> USE DEF InCall, Opening
<1>c. crashes = 0 /\ MaxCrashes = 0
  BY DEF TailInv, Promising
<1>r. ASSUME OldOpen', crashes' = 0, pc' \in Opening => caller' = "snapshot"
      PROVE  TailInv'
  BY <1>r DEF TailInv
<1>1. CASE New \/ GetVersion \/ GetOldVersion
  <2>1. /\ UNCHANGED <<cached, length, crashes>> /\ ~OldOpen /\ pc' \notin Opening
    BY <1>1 DEF New, GetVersion, GetOldVersion, files, sizes, counters, OldOpen
  <2> QED  BY <1>1, <2>1, BootChooses, TailAlone
<1>2. CASE Recover \/ UpdateStep
  <2>1. OldOpen' /\ crashes' = crashes /\ pc' \notin Opening
    BY <1>2 DEF Recover, UpdateStep, LogUpdate, SyncContents, WriteLength, Finish,
       OldOpen, counters
  <2> QED  BY <1>c, <1>r, <2>1
<1>3. CASE Snapshot
  <2>1. UNCHANGED <<files, crashes>> /\ pc' = "openSnapshot"
    BY <1>3 DEF Snapshot, counters
  <2>2. CASE caller' = "snapshot"
    BY <1>c, <1>r, <2>1, <2>2 DEF OldOpen
  <2>3. CASE caller' # "snapshot"
    <3>1. pc = "create" /\ Current = 0
      BY <1>3, <2>3, Names DEF Snapshot, Inv, FilesInv, Current
    <3>2. ~OldOpen /\ Current' = Current
      BY <2>1, <3>1 DEF OldOpen, files, Current
    <3> QED  BY <2>1, <3>1, <3>2, TailAlone DEF files, sizes
  <2> QED  BY <2>2, <2>3
<1>4. CASE WriteSnapshot
  <2>1. /\ UNCHANGED <<versionFile, newFile, cached, length, caller, crashes>>
        /\ pc \in Opening /\ pc' \in Opening
    BY <1>4 DEF WriteSnapshot, sizes, counters
  <2>2. Current' = Current /\ (OldOpen => OldOpen')
    BY <2>1 DEF Current, OldOpen
  <2>3. caller # "snapshot" => Current = 0
    BY <2>1 DEF TailInv
  <2> QED  BY <2>1, <2>2, <2>3, TailAlone
<1>5. CASE OpenLog
  BY <1>5, TailOpens
<1>6. CASE NewVersion \/ CommitToNewVersion
  BY <1>6, TailCommits
<1>7. CASE DropSnapshot \/ DropLog
  <2>1. /\ UNCHANGED <<versionFile, newFile, crashes>> /\ pc \in Dropping
        /\ pc' \notin Opening
    BY <1>7 DEF DropSnapshot, DropLog, Dropping, counters
  <2>2. /\ version \in Version /\ old < version /\ Current = version
        /\ Current' = Current
    BY <2>1, Names DEF Inv, FilesInv, Usable, Current, Dropping, InSnapshot
  <2>3. old # version
    BY <2>2 DEF Version
  <2>4. /\ cached'[version] = cached[version] /\ length'[version] = length[version]
    BY <1>7, <2>2, <2>3 DEF DropSnapshot, DropLog, sizes
  <2>5. ~OldOpen
    BY <2>1 DEF OldOpen, Dropping
  <2> QED  BY <2>1, <2>2, <2>4, <2>5, TailAlone
<1>8. CASE Raise
  <2>1. /\ UNCHANGED <<cached, length, crashes>>
        /\ pc \in {"openSnapshot", "writeSnapshot", "deleteNewVersion", "recover"}
                  \cup Dropping
    BY <1>8 DEF Raise, Promising, Dropping
  <2>2. pc' \notin Opening
    BY <1>8 DEF Raise, Ends, Promising
  <2>3. OldOpen => OldOpen'
    BY <1>8, <2>1 DEF Raise, OldOpen, Running, Dropping, InSnapshot
  <2> QED  BY <1>8, <2>1, <2>2, <2>3, FailureChooses, TailAlone
<1>9. CASE Close
  <2>1. /\ pc = "run" /\ pc' = "off" /\ UNCHANGED <<versionFile, newFile, cached, crashes>>
        /\ length' = Flushed
    BY <1>9 DEF Close, Ends, counters
  <2>2. OldOpen /\ Current' = Current
    BY <2>1 DEF OldOpen, Current
  <2>3. out \in Version /\ out = Current
    BY <2>2, OpenIsCurrent
  <2>4. length'[out] = index
    BY <2>1, <2>3 DEF Flushed
  <2>5. /\ Complete(cached[out]) = Len(cached[out])
        /\ index = Position(cached[out], Len(cached[out])) /\ index \in Nat
    BY <2>1, <2>2, OpenIsCurrent DEF WriterInv, Incomplete, Inv, LogInv, StateOK
  <2>6. \A v \in Version : v = Current' => Padded(v)'
    BY <2>1, <2>2, <2>3, <2>4, <2>5 DEF Padded
  <2> QED  BY <1>c, <2>1, <2>6 DEF TailInv
<1>10. CASE Crash \/ MachineCrash
  BY <1>c, <1>10 DEF Crash, MachineCrash
<1>11. CASE \/ \E v \in Version, p \in Page : Writeback(v, p)
            \/ (\E v \in Version : WriteSize(v)) \/ UNCHANGED vars
  <2>1. UNCHANGED <<versionFile, newFile, cached, length, pc, caller, crashes>>
    BY <1>11 DEF Writeback, WriteSize, vars, files, sizes, counters
  <2>2. Current' = Current /\ (OldOpen => OldOpen')
    BY <2>1 DEF Current, OldOpen
  <2> QED  BY <2>1, <2>2, TailAlone DEF TailInv
<1> QED  BY <1>1, <1>2, <1>3, <1>4, <1>5, <1>6, <1>7, <1>8, <1>9, <1>10, <1>11
         DEF Next, Boot, SnapshotStep

\* SmallDB.i3: "no update is lost".  Wherever the program and the machine stop,
\* the next program finds every update that was forced to the disk, for any
\* sizes of pages and updates.  The log is padded, or the programs before closed
\* it and no machine stopped before; an update has a length; and the failures
\* are those after which a program neither goes on with an uncommitted version
\* nor takes a version file for one that is not there.
THEOREM DurableCorrect ==
  ASSUME Promising
  PROVE  Spec => []Durable
<1>1. Init => Inv /\ DurableInv /\ TailInv
  BY LogInit, FilesInit, DurableInit, TailInit DEF Inv
<1>2. Inv /\ DurableInv /\ TailInv /\ [Next]_vars => (Inv /\ DurableInv /\ TailInv)'
  <2> SUFFICES ASSUME Inv, DurableInv, TailInv, [Next]_vars
               PROVE  Inv' /\ DurableInv' /\ TailInv'
    OBVIOUS
  <2>1. Inv'
    BY InvStep
  <2>2. DurableInv' /\ TailInv'
    BY <2>1, DurableStep, TailStep
  <2> QED  BY <2>1, <2>2
<1>3. Inv /\ DurableInv => Durable
  BY SafeIsFound DEF DurableInv
<1> QED  BY <1>1, <1>2, <1>3, PTL DEF Spec

-----------------------------------------------------------------------------
(* SmallDB implements Database: what a program finds when it starts is     *)
(* what SmallDB.i3 promises.  The inductive invariants.                    *)

\* One is a record of the log, the other what a page of the disk has of it,
\* perhaps from before its length was written.
Alike(e, f) == e.at = f.at /\ e.u = f.u /\ e.size = f.size

HasPart(S, e) == \E f \in S : f.at = e.at /\ f.u = e.u

\* The pages that a record goes on to are on the disk.
Tailed(e, d) == \A q \in PagesOf(e) : q # PageOf(e.at) => HasPart(d[q], e)

\* Records do not overlap; one with its length is complete on the disk, apart
\* from its first page; and the disk has no record that the log has not.
Trusted(s, d) ==
  /\ \A i, j \in DOMAIN s : i < j => AlignRead(End(s[i])) <= s[j].at
  /\ \A i \in DOMAIN s : s[i].len => s[i].whole /\ Tailed(s[i], d)
  /\ \A e \in Starting(d) : \E i \in DOMAIN s :
       Alike(e, s[i]) /\ (e.len => s[i].len /\ e.whole)

\* So it is with every log.  The contents of an update are on the disk before
\* its length is written: this is what the two Syncs, or the one page, are for.
DiskInv ==
  /\ \A v \in Version : Trusted(cached[v], disk[v])
  /\ pc = "writeLength" => Tailed(cached[out][Len(cached[out])], disk[out])

\* What a program would find if the one that runs stopped.
Kernel == Stored(IF Current = 0 THEN <<>> ELSE cached[Current])

\* While Snapshot makes a new version, the old one is still what the client has.
ValueInv ==
  /\ InSnapshot /\ caller = "create" => value = <<>> /\ version = 1 /\ old = 0
  /\ pc \in {"newVersion", "writeNewVersion"} /\ caller = "snapshot"
       => Kernel = value

FoundInv == Inv /\ DurableInv /\ TailInv /\ DiskInv /\ ValueInv

-----------------------------------------------------------------------------
(* Reading what is on the disk.                                            *)

\* Induction up to n, for a set: its numbers from 0 on without a gap are as
\* many as the last of them says.
LEMMA UpTo ==
  ASSUME NEW n \in Nat, NEW S, 0 \in S, \A k \in 0 .. n - 1 : k \in S => k + 1 \in S
  PROVE  0 .. n \subseteq S
<1> DEFINE D == {k \in 0 .. n : 0 .. k \subseteq S}
           c == Cardinality(D)
<1>1. IsFiniteSet(D) /\ c \in Nat
  <2>1. IsFiniteSet(0 .. n) /\ D \in SUBSET (0 .. n)
    BY FS_Interval
  <2> QED  BY <2>1, FS_Subset, FS_CardinalityType
<1>2. 0 \in D
  OBVIOUS
<1> HIDE DEF c
<1>3. \A j \in D : j \in 0 .. n /\ j <= c - 1
  <2> TAKE j \in D
  <2>1. j \in 0 .. n /\ 0 .. j \in SUBSET D
    OBVIOUS
  <2>2. Cardinality(0 .. j) = j + 1
    BY <2>1, FS_Interval
  <2>3. Cardinality(0 .. j) <= Cardinality(D)
    BY <1>1, <2>1, FS_Subset
  <2> QED  BY <1>1, <2>1, <2>2, <2>3 DEF c
<1>4. c - 1 \in Nat
  BY <1>1, <1>2, <1>3
<1>5. D = 0 .. c - 1
  <2>1. IsFiniteSet(0 .. c - 1) /\ Cardinality(0 .. c - 1) = c
    BY <1>1, <1>4, FS_Interval
  <2>2. D \in SUBSET (0 .. c - 1)
    BY <1>1, <1>3
  <2> QED  BY <2>1, <2>2, FS_Subset DEF c
<1>6. c - 1 \in D
  BY <1>4, <1>5
<1>7. ~(c - 1 < n)
  <2> SUFFICES ASSUME c - 1 < n PROVE FALSE
    OBVIOUS
  <2>1. c - 1 \in S /\ c - 1 \in 0 .. n - 1
    BY <1>4, <1>6
  <2>2. c - 1 + 1 \in S
    BY <2>1
  <2>3. c \in S
    BY <1>1, <2>2
  <2>4. \A k \in 0 .. c : k \in 0 .. c - 1 \/ k = c
    BY <1>1
  <2>5. c \in D
    BY <1>1, <1>6, <2>1, <2>3, <2>4
  <2> QED  BY <1>1, <1>3, <2>5
<1>8. 0 .. c - 1 \subseteq S /\ n <= c - 1
  BY <1>4, <1>6, <1>7
<1> QED  BY <1>1, <1>8

\* What is alike is at the same pages.
LEMMA AlikeFacts ==
  ASSUME NEW e, NEW f, Alike(e, f), NEW d
  PROVE  /\ End(e) = End(f) /\ PagesOf(e) = PagesOf(f)
         /\ Tailed(e, d) => Tailed(f, d)
BY DEF Alike, End, PagesOf, Tailed, HasPart

LEMMA RecordsOf ==
  ASSUME NEW s \in Seq(Records), Ordered(s)
  PROVE  /\ Len(s) \in Nat /\ DOMAIN s = 1 .. Len(s)
         /\ \A i \in DOMAIN s : /\ s[i] \in Records /\ s[i].at \in Nat
                                /\ End(s[i]) \in Nat /\ s[i].at < End(s[i])
                                /\ End(s[i]) <= AlignRead(End(s[i]))
                                /\ AlignRead(End(s[i])) \in Nat
                                /\ PagesOf(s[i]) \subseteq Page
                                /\ PageOf(s[i].at) \in PagesOf(s[i])
<1>1. Len(s) \in Nat /\ DOMAIN s = 1 .. Len(s)
  BY LenProperties
<1>2. \A i \in DOMAIN s : s[i] \in Records /\ Fits(s[i])
  BY <1>1, ElementOfSeq DEF Ordered
<1> QED  BY <1>1, <1>2, EndFacts, FittingPages, AlignsAgree

\* What is found on the disk is what the pages have of records that start there.
LEMMA FoundRecords ==
  ASSUME NEW d, \A p \in Page : d[p] \in SUBSET Records /\ PageOK(d[p])
  PROVE  /\ OnDisk(d) \in Seq(Records) /\ Ordered(OnDisk(d))
         /\ Starting(d) \subseteq Records
         /\ \A j \in DOMAIN OnDisk(d) : \E e \in Starting(d) : OnDisk(d)[j] = Found(d, e)
         /\ \A e \in Starting(d) : \E j \in DOMAIN OnDisk(d) : OnDisk(d)[j] = Found(d, e)
<1> DEFINE T == {Found(d, e) : e \in Starting(d)}
<1>1. /\ T \subseteq Records /\ IsFiniteSet(T)
      /\ \A e, f \in T : e.at = f.at => e = f
      /\ OnDisk(d) = InOrder(T) /\ OnDisk(d) \in Seq(Records)
      /\ Ordered(OnDisk(d))
  BY OnDiskFacts
<1>2. Starting(d) \subseteq Records
  BY DEF Starting
<1>3. \A e \in T : \E x \in Starting(d) : e = Found(d, x)
  OBVIOUS
<1>4. \A e \in Starting(d) : Found(d, e) \in T
  OBVIOUS
<1> HIDE DEF T
<1> DEFINE n == Cardinality(T)
           q == InOrder(T)
<1>5. /\ q \in Seq(Records) /\ Len(q) = n
      /\ \A i \in 1 .. n : q[i] \in T /\ Cardinality(Below(T, q[i])) = i - 1
  BY <1>1, InOrderFacts
<1>6. /\ n \in Nat
      /\ \A e \in T : Cardinality(Below(T, e)) \in 0 .. n - 1
      /\ \A e, f \in T : e.at < f.at => Cardinality(Below(T, e)) < Cardinality(Below(T, f))
  BY <1>1, Ranks
<1>7. DOMAIN q = 1 .. n
  BY <1>5, LenProperties
<1>8. \A e \in T : \E i \in 1 .. n : q[i] = e
  <2> TAKE e \in T
  <2> DEFINE r == Cardinality(Below(T, e))
  <2>1. r \in Nat /\ r + 1 \in 1 .. n
    BY <1>6
  <2>2. q[r + 1] \in T /\ Cardinality(Below(T, q[r + 1])) = r
    BY <1>5, <2>1
  <2>3. e.at \in Nat /\ q[r + 1].at \in Nat
    BY <1>1, <2>2, EndFacts
  <2>4. ~(e.at < q[r + 1].at) /\ ~(q[r + 1].at < e.at)
    BY <1>6, <2>1, <2>2
  <2>5. e.at = q[r + 1].at
    BY <2>3, <2>4
  <2>6. q[r + 1] = e
    BY <1>1, <2>2, <2>5
  <2> QED  BY <2>1, <2>6
<1> QED  BY <1>1, <1>2, <1>3, <1>4, <1>5, <1>7, <1>8

\* Who reads records of a log, one after another, reads them all.
LEMMA ReadsAlike ==
  ASSUME NEW s \in Seq(Records), Ordered(s), NEW q \in Seq(Records), Ordered(q),
         \A i, j \in DOMAIN s : i < j => AlignRead(End(s[i])) <= s[j].at,
         \A j \in DOMAIN q : \E i \in DOMAIN s :
           Alike(q[j], s[i]) /\ (q[j].len => s[i].len)
  PROVE  /\ Complete(q) \in Nat /\ Complete(q) <= Complete(s)
         /\ \A k \in 1 .. Complete(q) : Alike(q[k], s[k]) /\ q[k].len /\ s[k].len
<1> DEFINE n == Complete(q)
           S == {k \in 0 .. n : k = 0 \/ (k <= Len(s) /\ Alike(q[k], s[k]) /\ Reads(s, k))}
<1>1. /\ n \in Nat /\ n <= Len(q) /\ \A k \in 1 .. n : Reads(q, k) /\ k \in DOMAIN q
  <2>1. Len(q) \in Nat /\ DOMAIN q = 1 .. Len(q)
    BY LenProperties
  <2> QED  BY <2>1, CompleteFacts
<1>2. /\ Len(s) \in Nat /\ DOMAIN s = 1 .. Len(s)
      /\ \A i \in DOMAIN s : /\ s[i].at \in Nat /\ End(s[i]) \in Nat /\ s[i].at < End(s[i])
                             /\ End(s[i]) <= AlignRead(End(s[i]))
                             /\ AlignRead(End(s[i])) \in Nat
  BY RecordsOf
<1>o. /\ \A i \in 1 .. Len(s) : /\ s[i].at \in Nat /\ s[i].at < AlignRead(End(s[i]))
                                /\ AlignRead(End(s[i])) \in Nat
      /\ \A i, j \in 1 .. Len(s) :
           i < j => AlignRead(End(s[i])) <= s[j].at /\ s[i].at < s[j].at
  <2>1. \A a, b, c \in Nat : a < b /\ b <= c => a < c
    OBVIOUS
  <2> QED  BY <1>2, <2>1 DEF Ordered
<1> HIDE DEF n
<1>3. ASSUME NEW k \in 0 .. n - 1, k \in S
      PROVE  k + 1 \in S
  <2> DEFINE m == k + 1
  <2>1. m \in 1 .. n /\ m - 1 = k /\ k \in Nat
    BY <1>1
  <2>2. Reads(q, m) /\ m \in DOMAIN q
    BY <1>1, <2>1
  <2>3. PICK j \in DOMAIN s : Alike(q[m], s[j]) /\ (q[m].len => s[j].len)
    BY <2>2
  <2>4. s[j].len /\ s[j].size > 0 /\ s[j].at = q[m].at
    BY <2>2, <2>3 DEF Reads, Alike
  <2>5. m <= Len(s) /\ j = m /\ s[m].at = IF m = 1 THEN 0 ELSE AlignRead(End(s[k]))
    <3>1. CASE k = 0
      <4>1. m = 1 /\ s[j].at = 0
        BY <2>1, <2>2, <2>4, <3>1 DEF Reads
      <4>2. ~(1 < j)
        <5>1. j \in 1 .. Len(s) /\ 1 \in 1 .. Len(s)
          BY <1>2, <2>3
        <5> QED  BY <1>o, <4>1, <5>1
      <4>3. j = 1 /\ 1 <= Len(s)
        BY <1>2, <2>3, <4>2
      <4> QED  BY <4>1, <4>3
    <3>2. CASE k # 0
      <4>1. k \in DOMAIN s /\ Alike(q[k], s[k]) /\ m # 1
        BY <1>2, <1>3, <2>1, <3>2
      <4>2. End(q[k]) = End(s[k])
        BY <4>1, AlikeFacts
      <4>3. s[j].at = AlignRead(End(s[k]))
        BY <2>1, <2>2, <2>4, <4>1, <4>2 DEF Reads
      <4>d. j \in 1 .. Len(s) /\ k \in 1 .. Len(s)
        BY <1>2, <2>3, <4>1
      <4>4. s[k].at < s[j].at
        BY <1>o, <4>3, <4>d
      <4>5. ~(j < k) /\ j # k
        <5>1. j < k => s[j].at < s[k].at
          BY <1>o, <4>d
        <5>2. s[j].at \in Nat /\ s[k].at \in Nat
          BY <1>o, <4>d
        <5> QED  BY <4>4, <5>1, <5>2
      <4>6. j \in 1 .. Len(s) /\ k < j
        BY <1>2, <4>5, <4>d
      <4>7. m \in 1 .. Len(s)
        BY <1>2, <2>1, <4>6
      <4>8. ~(m < j)
        <5>1. k < m
          BY <2>1
        <5>2. AlignRead(End(s[k])) <= s[m].at /\ s[m].at \in Nat
          BY <1>o, <4>7, <4>d, <5>1
        <5>3. m < j => s[m].at < s[j].at
          BY <1>o, <4>7, <4>d
        <5>4. s[j].at \in Nat
          BY <1>o, <4>d
        <5> QED  BY <4>3, <5>2, <5>3, <5>4
      <4>9. j = m /\ m <= Len(s)
        BY <2>1, <4>6, <4>8
      <4> QED  BY <4>1, <4>3, <4>9
    <3> QED  BY <3>1, <3>2
  <2>6. Reads(s, m)
    BY <2>1, <2>4, <2>5 DEF Reads
  <2>7. Alike(q[m], s[m]) /\ m \in 0 .. n
    BY <2>1, <2>3, <2>5
  <2> QED  BY <2>5, <2>6, <2>7
<1>4. 0 \in S
  BY <1>1
<1> HIDE DEF S
<1>5. 0 .. n \subseteq S
  BY <1>1, <1>3, <1>4, UpTo
<1>6. \A k \in 1 .. n : k <= Len(s) /\ Alike(q[k], s[k]) /\ Reads(s, k)
  <2> TAKE k \in 1 .. n
  <2>1. k \in 0 .. n /\ k # 0
    BY <1>1
  <2> QED  BY <1>5, <2>1 DEF S
<1>7. n \in 0 .. Len(s)
  <2>1. CASE n = 0
    BY <1>2, <2>1
  <2>2. CASE n # 0
    BY <1>1, <1>2, <1>6, <2>2
  <2> QED  BY <2>1, <2>2
<1>8. n <= Complete(s)
  BY <1>6, <1>7, CompleteFacts
<1> QED  BY <1>1, <1>6, <1>8 DEF n, Reads

\* What is found on the disk is the beginning of what the kernel has.
LEMMA FoundFirst ==
  ASSUME NEW s \in Seq(Records), Ordered(s), NEW d,
         \A p \in Page : d[p] \in SUBSET Records /\ PageOK(d[p]), Trusted(s, d)
  PROVE  LET t == UpdatesOf(OnDisk(d))
             k == Len(t)
         IN k \in 0 .. Len(UpdatesOf(s)) /\ t = SubSeq(UpdatesOf(s), 1, k)
<1> DEFINE q == OnDisk(d)
           n == Complete(q)
           U == UpdatesOf(s)
           t == UpdatesOf(q)
<1>1. /\ q \in Seq(Records) /\ Ordered(q) /\ Starting(d) \subseteq Records
      /\ \A j \in DOMAIN q : \E e \in Starting(d) : q[j] = Found(d, e)
  BY FoundRecords
<1>2. \A j \in DOMAIN q : \E i \in DOMAIN s :
        Alike(q[j], s[i]) /\ (q[j].len => s[i].len)
  <2> TAKE j \in DOMAIN q
  <2>1. PICK e \in Starting(d) : q[j] = Found(d, e)
    BY <1>1
  <2>2. PICK i \in DOMAIN s : Alike(e, s[i]) /\ (e.len => s[i].len /\ e.whole)
    BY DEF Trusted
  <2>3. Alike(q[j], s[i]) /\ (q[j].len => s[i].len)
    BY <1>1, <2>1, <2>2, FoundFacts DEF Alike
  <2> QED  BY <2>3
<1>3. /\ t \in Value /\ Len(t) = n /\ \A i \in 1 .. n : t[i] = Contents(q[i])
      /\ U \in Value /\ Len(U) = Complete(s)
      /\ \A i \in 1 .. Complete(s) : U[i] = Contents(s[i])
  BY <1>1, UpdatesType
<1>4. DOMAIN q = 1 .. Len(q) /\ n \in 0 .. Len(q) /\ Len(q) \in Nat
  BY <1>1, LenProperties, CompleteFacts
<1>5. \A k \in 1 .. n : k \in DOMAIN q
  BY <1>4
<1>6. ASSUME NEW j \in DOMAIN q, q[j].len
      PROVE  q[j].whole
  <2>1. PICK e \in Starting(d) : q[j] = Found(d, e)
    BY <1>1
  <2>2. PICK i \in DOMAIN s : Alike(e, s[i]) /\ (e.len => s[i].len /\ e.whole)
    BY DEF Trusted
  <2>3. e \in Records /\ e.len
    BY <1>1, <1>6, <2>1, FoundFacts
  <2>4. e.whole /\ Tailed(e, d)
    <3>1. Tailed(s[i], d) /\ Alike(s[i], e)
      BY <2>2, <2>3 DEF Trusted, Alike
    <3> QED  BY <2>2, <2>3, <3>1, AlikeFacts
  <2>5. PICK p \in Page : e \in d[p] /\ PageOf(e.at) = p
    BY DEF Starting
  <2>6. \A r \in PagesOf(e) : \E f \in d[r] : f.at = e.at /\ f.u = e.u
    BY <2>4, <2>5 DEF Tailed, HasPart
  <2>7. Found(d, e).whole
    BY <2>3, <2>4, <2>6 DEF Found, Records
  <2> QED  BY <2>1, <2>7
<1> HIDE DEF q
<1>7. /\ n \in Nat /\ n <= Complete(s)
      /\ \A k \in 1 .. n : Alike(q[k], s[k]) /\ q[k].len /\ s[k].len
  BY <1>1, <1>2, ReadsAlike DEF Trusted
<1>8. \A k \in 1 .. n : t[k] = U[k]
  <2> TAKE k \in 1 .. n
  <2>1. q[k].whole
    BY <1>5, <1>6, <1>7
  <2>2. k \in 1 .. Complete(s) /\ k \in DOMAIN s
    <3>1. Complete(s) \in 0 .. Len(s) /\ DOMAIN s = 1 .. Len(s) /\ Len(s) \in Nat
      BY CompleteFacts, LenProperties
    <3> QED  BY <1>7, <3>1
  <2>3. s[k].whole
    BY <1>7, <2>2 DEF Trusted
  <2>4. t[k] = q[k].u /\ U[k] = s[k].u
    BY <1>3, <2>1, <2>2, <2>3 DEF Contents
  <2> QED  BY <1>7, <2>4 DEF Alike
<1> HIDE DEF t, n, U
<1>9. n \in 0 .. Len(U)
  BY <1>3, <1>7
<1>10. /\ SubSeq(U, 1, n) \in Value /\ Len(SubSeq(U, 1, n)) = n
       /\ \A i \in 1 .. n : SubSeq(U, 1, n)[i] = U[i]
  BY <1>3, <1>9, FirstUpdates
<1>11. t = SubSeq(U, 1, n)
  BY <1>3, <1>8, <1>10, SeqEqual DEF Value
<1> QED  BY <1>3, <1>9, <1>11 DEF t, U, q

-----------------------------------------------------------------------------
(* Logs that can be trusted.                                               *)

\* An empty log.
LEMMA TrustedEmpty ==
  Trusted(<<>>, Written(<<>>))
<1>1. DOMAIN <<>> = {} /\ ToSet(<<>>) = {}
  BY EmptySeq DEF ToSet
<1>2. \A p \in Page : Written(<<>>)[p] = {}
  BY <1>1 DEF Written, OnPage
<1>3. Starting(Written(<<>>)) = {}
  BY <1>2 DEF Starting
<1> QED  BY <1>1, <1>3 DEF Trusted

\* A record without its length, behind those that are there.
LEMMA TrustedAppend ==
  ASSUME NEW s \in Seq(Records), NEW d, Trusted(s, d), NEW r \in Records, ~r.len,
         \A i \in DOMAIN s : AlignRead(End(s[i])) <= r.at
  PROVE  Trusted(Append(s, r), d)
<1> DEFINE t == Append(s, r)
           n == Len(s)
<1>1. /\ n \in Nat /\ DOMAIN s = 1 .. n /\ DOMAIN t = 1 .. n + 1
      /\ \A i \in 1 .. n : t[i] = s[i]
      /\ t[n + 1] = r
  BY LenProperties, AppendProperties
<1> HIDE DEF t
<1>2. \A i \in DOMAIN t : (i \in DOMAIN s /\ t[i] = s[i]) \/ (i = n + 1 /\ t[i] = r)
  BY <1>1
<1>3. \A i, j \in DOMAIN t : i < j => AlignRead(End(t[i])) <= t[j].at
  <2> TAKE i \in DOMAIN t, j \in DOMAIN t
  <2> HAVE i < j
  <2>1. i \in DOMAIN s /\ t[i] = s[i]
    BY <1>1, <1>2
  <2> QED  BY <1>2, <2>1 DEF Trusted
<1>4. \A i \in DOMAIN t : t[i].len => t[i].whole /\ Tailed(t[i], d)
  BY <1>2 DEF Trusted
<1>5. \A e \in Starting(d) : \E i \in DOMAIN t :
        Alike(e, t[i]) /\ (e.len => t[i].len /\ e.whole)
  <2>1. \A i \in DOMAIN s : i \in DOMAIN t /\ t[i] = s[i]
    BY <1>1
  <2> QED  BY <2>1 DEF Trusted
<1> QED  BY <1>3, <1>4, <1>5 DEF Trusted, t

\* The length of its last record is written.
LEMMA TrustedLength ==
  ASSUME NEW s \in Seq(Records), Ordered(s), NEW d, Trusted(s, d), Len(s) > 0,
         s[Len(s)].whole, Tailed(s[Len(s)], d)
  PROVE  Trusted([s EXCEPT ![Len(s)].len = TRUE], d)
<1> DEFINE n == Len(s)
           t == [s EXCEPT ![n].len = TRUE]
<1>1. n \in Nat /\ n \in 1 .. n /\ DOMAIN s = 1 .. n
  BY LenProperties
<1>2. /\ t \in Seq(Records) /\ Len(t) = n
      /\ \A i \in 1 .. n : /\ i # n => t[i] = s[i]
                           /\ Alike(t[i], s[i]) /\ Alike(s[i], t[i])
                           /\ t[i].whole = s[i].whole /\ (i = n => t[i].len)
  <2>1. /\ t \in Seq(Records) /\ Len(t) = n
        /\ \A i \in 1 .. n :
             LET e == t[i]
             IN /\ i # n => e = s[i]
                /\ e.at = s[i].at /\ e.u = s[i].u /\ e.size = s[i].size
                /\ e.whole = s[i].whole /\ (i = n => e.len)
    BY <1>1, LengthWritten
  <2> QED  BY <2>1 DEF Alike
<1>3. DOMAIN t = 1 .. n
  BY <1>2, LenProperties
<1> HIDE DEF t, n
<1>4. \A i, j \in DOMAIN t : i < j => AlignRead(End(t[i])) <= t[j].at
  <2> TAKE i \in DOMAIN t, j \in DOMAIN t
  <2>1. End(t[i]) = End(s[i]) /\ t[j].at = s[j].at
    BY <1>2, <1>3, AlikeFacts DEF Alike
  <2> QED  BY <1>1, <1>3, <2>1 DEF Trusted
<1>5. ASSUME NEW i \in DOMAIN t, t[i].len
      PROVE  t[i].whole /\ Tailed(t[i], d)
  <2>1. CASE i = n
    <3>1. s[i].whole /\ Tailed(s[i], d)
      BY <2>1 DEF n
    <3> QED  BY <1>2, <1>3, <3>1, AlikeFacts
  <2>2. CASE i # n
    <3>1. t[i] = s[i] /\ i \in DOMAIN s
      BY <1>1, <1>2, <1>3, <2>2
    <3> QED  BY <1>5, <3>1 DEF Trusted
  <2> QED  BY <2>1, <2>2
<1>6. ASSUME NEW e \in Starting(d)
      PROVE  \E i \in DOMAIN t : Alike(e, t[i]) /\ (e.len => t[i].len /\ e.whole)
  <2>1. PICK i \in DOMAIN s : Alike(e, s[i]) /\ (e.len => s[i].len /\ e.whole)
    BY DEF Trusted
  <2>2. Alike(e, t[i]) /\ (e.len => t[i].len /\ e.whole)
    BY <1>1, <1>2, <2>1 DEF Alike
  <2> QED  BY <1>1, <1>3, <2>1, <2>2
<1> QED  BY <1>4, <1>5, <1>6 DEF Trusted, t, n

\* Pages that the kernel writes to the disk.
LEMMA TrustedWritten ==
  ASSUME NEW s \in Seq(Records), Ordered(s), NEW d, NEW e, Trusted(s, d),
         \A p \in Page : e[p] = d[p] \/ e[p] = OnPage(s, p)
  PROVE  /\ Trusted(s, e)
         /\ \A i \in DOMAIN s : Tailed(s[i], d) => Tailed(s[i], e)
         /\ (\A p \in Page : e[p] = OnPage(s, p)) => \A i \in DOMAIN s : Tailed(s[i], e)
<1>1. \A i \in DOMAIN s : PagesOf(s[i]) \subseteq Page
  BY RecordsOf
<1>2. \A i \in DOMAIN s, p \in Page : p \in PagesOf(s[i]) => HasPart(OnPage(s, p), s[i])
  BY DEF HasPart, OnPage, ToSet
<1>3. \A i \in DOMAIN s : Tailed(s[i], d) => Tailed(s[i], e)
  BY <1>1, <1>2 DEF Tailed
<1>4. (\A p \in Page : e[p] = OnPage(s, p)) => \A i \in DOMAIN s : Tailed(s[i], e)
  BY <1>1, <1>2 DEF Tailed
<1>5. ASSUME NEW x \in Starting(e)
      PROVE  \E i \in DOMAIN s : Alike(x, s[i]) /\ (x.len => s[i].len /\ x.whole)
  <2>1. PICK p \in Page : x \in e[p] /\ PageOf(x.at) = p
    BY DEF Starting
  <2>2. CASE e[p] = d[p]
    BY <2>1, <2>2 DEF Trusted, Starting
  <2>3. CASE e[p] = OnPage(s, p)
    <3>1. PICK i \in DOMAIN s : x = s[i]
      BY <2>1, <2>3 DEF OnPage, ToSet
    <3>2. Alike(x, s[i]) /\ (x.len => s[i].len /\ x.whole)
      BY <3>1 DEF Alike, Trusted
    <3> QED  BY <3>2
  <2> QED  BY <2>2, <2>3
<1> QED  BY <1>3, <1>4, <1>5 DEF Trusted

\* A log that is cut behind its last complete record, like its pages.
LEMMA TrustedCut ==
  ASSUME NEW s \in Seq(Records), Ordered(s), NEW d,
         \A p \in Page : d[p] \in SUBSET Records, Trusted(s, d),
         NEW t, t = SubSeq(s, 1, Complete(s)), NEW e,
         \A p \in Page : \A r : r \in e[p] <=> r \in d[p] /\ r.at < Position(t, Len(t))
  PROVE  Trusted(t, e)
<1> DEFINE c == Complete(s)
           pos == Position(t, Len(t))
<1>1. /\ t \in Seq(Records) /\ Ordered(t) /\ Len(t) = c
      /\ \A i \in 1 .. c : t[i] = s[i]
  BY Recovered
<1>2. /\ Len(s) \in Nat /\ DOMAIN s = 1 .. Len(s) /\ DOMAIN t = 1 .. c
      /\ c \in Nat /\ c <= Len(s)
  BY <1>1, LenProperties, CompleteFacts
<1>3. \A i \in DOMAIN t : i \in DOMAIN s /\ t[i] = s[i] /\ PagesOf(t[i]) \subseteq Page
  <2> TAKE i \in DOMAIN t
  <2>1. i \in DOMAIN s /\ t[i] = s[i]
    BY <1>1, <1>2
  <2> QED  BY <2>1, RecordsOf
<1>4. pos \in Nat /\ \A i \in DOMAIN t : t[i].at < pos
  BY <1>1, <1>2, StopsBehind
<1>p. /\ c = 0 => pos = 0
      /\ c # 0 => pos = AlignRead(End(t[c]))
  BY <1>1 DEF Position
<1>e. \A p \in Page : \A r : r \in e[p] <=> r \in d[p] /\ r.at < pos
  OBVIOUS
<1> HIDE DEF pos
<1>5. \A i, j \in DOMAIN t : i < j => AlignRead(End(t[i])) <= t[j].at
  BY <1>3 DEF Trusted
<1>6. ASSUME NEW i \in DOMAIN t, t[i].len
      PROVE  t[i].whole /\ Tailed(t[i], e)
  <2>1. t[i].whole /\ Tailed(t[i], d)
    BY <1>3, <1>6 DEF Trusted
  <2>2. ASSUME NEW q \in PagesOf(t[i]), q # PageOf(t[i].at)
        PROVE  HasPart(e[q], t[i])
    <3>1. PICK f \in d[q] : f.at = t[i].at /\ f.u = t[i].u
      BY <2>1, <2>2 DEF Tailed, HasPart
    <3>2. f \in e[q]
      BY <1>3, <1>4, <1>e, <3>1
    <3> QED  BY <3>1, <3>2 DEF HasPart
  <2> QED  BY <2>1, <2>2 DEF Tailed
<1>7. ASSUME NEW x \in Starting(e)
      PROVE  \E i \in DOMAIN t : Alike(x, t[i]) /\ (x.len => t[i].len /\ x.whole)
  <2>1. PICK p \in Page : x \in e[p] /\ PageOf(x.at) = p
    BY DEF Starting
  <2>2. x \in d[p] /\ x.at < pos /\ x \in Starting(d) /\ x.at \in Nat
    <3>1. x \in {r \in d[p] : r.at < pos}
      BY <1>e, <2>1
    <3>2. x \in d[p] /\ x.at < pos /\ x \in Records
      BY <3>1
    <3> QED  BY <2>1, <3>2, EndFacts DEF Starting
  <2>3. PICK i \in DOMAIN s : Alike(x, s[i]) /\ (x.len => s[i].len /\ x.whole)
    BY <2>2 DEF Trusted
  <2>4. ~(c < i)
    <3>1. CASE c = 0
      BY <1>p, <2>2, <3>1
    <3>2. CASE c # 0
      <4>1. c \in DOMAIN s /\ t[c] = s[c]
        BY <1>1, <1>2, <3>2
      <4>2. pos = AlignRead(End(s[c]))
        BY <1>p, <3>2, <4>1
      <4>3. c < i => pos <= s[i].at
        BY <2>3, <4>1, <4>2 DEF Trusted
      <4>4. s[i].at = x.at
        BY <2>3 DEF Alike
      <4> QED  BY <1>4, <2>2, <4>3, <4>4
    <3> QED  BY <3>1, <3>2
  <2>5. i \in DOMAIN t
    BY <1>2, <2>4
  <2> QED  BY <1>3, <2>3, <2>5
<1> QED  BY <1>5, <1>6, <1>7 DEF Trusted

\* What a machine that starts anew finds.
LEMMA TrustedFound ==
  ASSUME NEW s \in Seq(Records), Ordered(s), NEW d,
         \A p \in Page : d[p] \in SUBSET Records /\ PageOK(d[p]), Trusted(s, d)
  PROVE  Trusted(OnDisk(d), d)
<1> DEFINE q == OnDisk(d)
<1>1. /\ q \in Seq(Records) /\ Ordered(q) /\ Starting(d) \subseteq Records
      /\ \A j \in DOMAIN q : \E e \in Starting(d) : q[j] = Found(d, e)
      /\ \A e \in Starting(d) : \E j \in DOMAIN q : q[j] = Found(d, e)
  BY FoundRecords
<1>2. \A e \in Starting(d) : /\ Alike(Found(d, e), e) /\ Alike(e, Found(d, e))
                             /\ Found(d, e).len = e.len
  BY <1>1, FoundFacts DEF Alike
<1>3. DOMAIN s = 1 .. Len(s) /\ DOMAIN q = 1 .. Len(q) /\ Len(s) \in Nat
  BY <1>1, LenProperties
<1>4. ASSUME NEW e \in Starting(d), e.len
      PROVE  Found(d, e).whole /\ Tailed(Found(d, e), d)
  <2>1. PICK i \in DOMAIN s : Alike(e, s[i]) /\ s[i].len /\ e.whole
    BY <1>4 DEF Trusted
  <2>2. Tailed(s[i], d) /\ Alike(s[i], e)
    BY <2>1 DEF Trusted, Alike
  <2>3. Tailed(e, d)
    BY <2>2, AlikeFacts
  <2>4. PICK p \in Page : e \in d[p] /\ PageOf(e.at) = p
    BY DEF Starting
  <2>5. \A r \in PagesOf(e) : \E f \in d[r] : f.at = e.at /\ f.u = e.u
    BY <2>3, <2>4 DEF Tailed, HasPart
  <2>6. e \in Records
    BY <1>1
  <2>7. Found(d, e).whole
    BY <2>1, <2>5, <2>6 DEF Found, Records
  <2> QED  BY <1>2, <2>3, <2>7, AlikeFacts
<1> HIDE DEF q
<1>5. ASSUME NEW i \in DOMAIN q, NEW j \in DOMAIN q, i < j
      PROVE  AlignRead(End(q[i])) <= q[j].at
  <2>1. PICK x \in Starting(d), y \in Starting(d) : q[i] = Found(d, x) /\ q[j] = Found(d, y)
    BY <1>1
  <2>2. PICK a \in DOMAIN s, b \in DOMAIN s : Alike(x, s[a]) /\ Alike(y, s[b])
    BY DEF Trusted
  <2>3. q[i].at = s[a].at /\ q[j].at = s[b].at /\ End(q[i]) = End(s[a])
    BY <1>2, <2>1, <2>2 DEF Alike, End
  <2>4. s[a].at < s[b].at /\ s[a].at \in Nat /\ s[b].at \in Nat
    BY <1>1, <1>5, <2>3, RecordsOf DEF Ordered
  <2>5. ~(b < a) /\ a # b
    <3>1. b < a => s[b].at < s[a].at
      BY DEF Ordered
    <3> QED  BY <2>4, <3>1
  <2>6. a < b
    BY <1>3, <2>5
  <2> QED  BY <2>3, <2>6 DEF Trusted
<1>6. ASSUME NEW j \in DOMAIN q, q[j].len
      PROVE  q[j].whole /\ Tailed(q[j], d)
  <2>1. PICK e \in Starting(d) : q[j] = Found(d, e)
    BY <1>1
  <2> QED  BY <1>2, <1>4, <1>6, <2>1
<1>7. ASSUME NEW e \in Starting(d)
      PROVE  \E j \in DOMAIN q : Alike(e, q[j]) /\ (e.len => q[j].len /\ e.whole)
  <2>1. PICK j \in DOMAIN q : q[j] = Found(d, e)
    BY <1>1
  <2>2. e.len => e.whole
    BY DEF Trusted
  <2> QED  BY <1>2, <2>1, <2>2
<1> QED  BY <1>5, <1>6, <1>7 DEF Trusted, q

-----------------------------------------------------------------------------
(* Every step keeps them so.                                               *)

\* A step that changes no log, and is not that before a length.
LEMMA DiskAlone ==
  ASSUME DiskInv, UNCHANGED <<cached, disk>>,
         pc' # "writeLength" \/ (pc = "writeLength" /\ out' = out)
  PROVE  DiskInv'
BY DEF DiskInv

LEMMA DiskInit == Init => DiskInv
BY TrustedEmpty DEF Init, DiskInv

\* All logs but one stay as they are.
LEMMA DiskOne ==
  ASSUME LogInv, DiskInv, NEW v \in Version,
         \A w \in Version : w # v => cached'[w] = cached[w] /\ disk'[w] = disk[w],
         Trusted(cached'[v], disk'[v]), pc' # "writeLength"
  PROVE  DiskInv'
BY DEF DiskInv

LEMMA DiskOpen ==
  ASSUME Inv, DiskInv, OpenLog \/ DropLog
  PROVE  DiskInv'
<1>1. pc' # "writeLength"
  BY DEF OpenLog, DropLog
<1>2. cached \in [Version -> Seq(Records)] /\ DOMAIN disk = Version /\ DOMAIN cached = Version
  BY DEF Inv, LogInv, StateOK
<1>3. \A v \in Version : \/ cached'[v] = cached[v] /\ disk'[v] = disk[v]
                         \/ cached'[v] = <<>> /\ disk'[v] = Written(<<>>)
  <2>1. CASE OpenLog
    BY <1>2, <2>1 DEF OpenLog
  <2>2. CASE DropLog
    BY <1>2, <2>2 DEF DropLog
  <2> QED  BY <2>1, <2>2
<1> QED  BY <1>1, <1>3, TrustedEmpty DEF DiskInv

LEMMA DiskRecover ==
  ASSUME Inv, DiskInv, Recover
  PROVE  DiskInv'
<1> DEFINE s == cached[version]
           t == SubSeq(s, 1, Complete(s))
           pos == IF t = <<>> THEN 0 ELSE AlignRead(End(Last(t)))
<1>1. /\ cached' = [cached EXCEPT ![version] = t]
      /\ disk' = [disk EXCEPT ![version] = [p \in Page |-> {e \in @[p] : e.at < pos}]]
      /\ pc' = "run" /\ version \in logfile
  BY DEF Recover
<1>2. version \in Version /\ cached \in [Version -> Seq(Records)] /\ DOMAIN disk = Version
  BY <1>1 DEF Inv, LogInv, StateOK
<1>3. /\ s \in Seq(Records) /\ Ordered(s)
      /\ \A p \in Page : disk[version][p] \in SUBSET Records
  BY <1>2, LogOf DEF Inv
<1>4. pos = Position(t, Len(t))
  BY <1>3, Recovered
<1> HIDE DEF pos
<1>5. \A p \in Page : disk'[version][p] = {e \in disk[version][p] : e.at < pos}
  BY <1>1, <1>2
<1>6. cached'[version] = t
  BY <1>1, <1>2
<1>7. Trusted(s, disk[version])
  BY <1>2 DEF DiskInv
<1> HIDE DEF s, t
<1>8. Trusted(cached'[version], disk'[version])
  <2>1. PICK e : e = disk'[version]
    OBVIOUS
  <2>2. t = SubSeq(s, 1, Complete(s))
    BY DEF t
  <2>3. \A p \in Page : e[p] = {r \in disk[version][p] : r.at < Position(t, Len(t))}
    BY <1>4, <1>5, <2>1
  <2>4. PICK d : d = disk[version]
    OBVIOUS
  <2>5. \A p \in Page : d[p] \in SUBSET Records
    BY <1>3, <2>4
  <2>6. \A p \in Page : \A r : r \in e[p] <=> r \in d[p] /\ r.at < Position(t, Len(t))
    BY <2>3, <2>4
  <2>7. Trusted(s, d)
    BY <1>7, <2>4
  <2>8. s \in Seq(Records) /\ Ordered(s)
    BY <1>3
  <2>9. Trusted(t, e)
    BY <2>2, <2>5, <2>6, <2>7, <2>8, TrustedCut
  <2> QED  BY <1>6, <2>1, <2>9
<1>9. \A w \in Version : w # version => cached'[w] = cached[w] /\ disk'[w] = disk[w]
  BY <1>1, <1>2
<1> QED  BY <1>1, <1>2, <1>8, <1>9, DiskOne DEF Inv

\* The next record of a log comes after those that are there.
LEMMA RecordsBefore ==
  ASSUME NEW s \in Seq(Records), Ordered(s),
         \A i, j \in DOMAIN s : i < j => AlignRead(End(s[i])) <= s[j].at
  PROVE  \A i \in DOMAIN s : AlignRead(End(s[i])) <= Position(s, Len(s))
<1>1. Len(s) \in Nat /\ DOMAIN s = 1 .. Len(s)
  BY RecordsOf
<1> TAKE i \in DOMAIN s
<1>2. Len(s) \in DOMAIN s /\ i \in Nat /\ i <= Len(s) /\ Len(s) # 0
  BY <1>1
<1>3. Position(s, Len(s)) = AlignRead(End(s[Len(s)]))
  BY <1>2 DEF Position
<1>4. CASE i = Len(s)
  BY <1>2, <1>3, <1>4, RecordsOf
<1>5. CASE i < Len(s)
  <2>1. AlignRead(End(s[i])) <= s[Len(s)].at
    BY <1>2, <1>5
  <2>2. /\ s[Len(s)].at \in Nat /\ End(s[Len(s)]) \in Nat
        /\ AlignRead(End(s[Len(s)])) \in Nat /\ AlignRead(End(s[i])) \in Nat
        /\ s[Len(s)].at < End(s[Len(s)])
        /\ End(s[Len(s)]) <= AlignRead(End(s[Len(s)]))
    BY <1>2, RecordsOf
  <2> QED  BY <1>3, <2>1, <2>2
<1> QED  BY <1>1, <1>2, <1>4, <1>5

\* A record on one page has no other.
LEMMA OnePage ==
  ASSUME NEW e \in Records, Cardinality(PagesOf(e)) = 1, NEW d
  PROVE  Tailed(e, d)
<1>1. PageOf(e.at) \in Int /\ PageOf(End(e) - 1) \in Int /\ PageOf(e.at) \in PagesOf(e)
  BY EndFacts
<1>2. IsFiniteSet(PagesOf(e))
  BY <1>1, FS_Interval DEF PagesOf
<1>3. PICK x : PagesOf(e) = {x}
  BY <1>2, FS_Singleton
<1> QED  BY <1>1, <1>3 DEF Tailed

LEMMA DiskRecord ==
  ASSUME Inv, DurableInv, DiskInv, ~WideUnforced,
         NEW force \in BOOLEAN, NEW size \in Sizes, LogUpdate(force, size)
  PROVE  DiskInv'
<1> DEFINE s == cached[out]
           e == Record(size)
<1>1. /\ pc = "run" /\ out' = out /\ disk' = disk
      /\ cached' = [cached EXCEPT ![out] = Append(s, e)]
      /\ pc' = "writeLength" => Cardinality(PagesOf(e)) = 1
  BY DEF LogUpdate
<1>2. /\ out \in Version /\ s \in Seq(Records) /\ Ordered(s) /\ Len(s) \in Nat
      /\ index = Position(s, Len(s))
  BY <1>1, OpenIsCurrent DEF OldOpen, WriterInv, Incomplete, InCall
<1>3. e \in Records /\ ~e.len /\ e.at = index
  <2>1. updates + 1 \in Update
    BY BoundAssumption DEF LogUpdate, Inv, LogInv, StateOK, Update
  <2> QED  BY <2>1 DEF Record, Records, Inv, LogInv, StateOK
<1>4. /\ cached'[out] = Append(s, e)
      /\ \A w \in Version : w # out => cached'[w] = cached[w]
  BY <1>1, <1>2 DEF Inv, LogInv, StateOK
<1>5. Trusted(s, disk[out])
  BY <1>2 DEF DiskInv
<1> HIDE DEF s, e
<1>6. Trusted(Append(s, e), disk[out])
  <2>1. \A i \in DOMAIN s : AlignRead(End(s[i])) <= e.at
    BY <1>2, <1>3, <1>5, RecordsBefore DEF Trusted
  <2> QED  BY <1>2, <1>3, <1>5, <2>1, TrustedAppend
<1>7. \A v \in Version : Trusted(cached'[v], disk'[v])
  BY <1>1, <1>4, <1>6 DEF DiskInv
<1>8. ASSUME pc' = "writeLength"
      PROVE  Tailed(cached'[out'][Len(cached'[out'])], disk'[out'])
  <2>1. Len(cached'[out]) = Len(s) + 1 /\ cached'[out][Len(s) + 1] = e
    BY <1>2, <1>3, <1>4, AppendProperties
  <2> QED  BY <1>1, <1>3, <1>8, <2>1, OnePage
<1> QED  BY <1>7, <1>8 DEF DiskInv

\* The disk gets pages of a log as the kernel has them.
LEMMA DiskWritten ==
  ASSUME Inv, DiskInv, UNCHANGED <<cached, out>>,
         \A v \in Version, p \in Page :
           disk'[v][p] = disk[v][p] \/ disk'[v][p] = OnPage(cached[v], p),
         \/ pc' # "writeLength"
         \/ pc = "writeLength" /\ pc' = pc
         \/ /\ pc = "syncContents"
            /\ \A p \in Page : disk'[out][p] = OnPage(cached[out], p)
  PROVE  DiskInv'
<1>1. ASSUME NEW v \in Version
      PROVE  /\ Trusted(cached[v], disk'[v])
             /\ \A i \in DOMAIN cached[v] :
                  Tailed(cached[v][i], disk[v]) => Tailed(cached[v][i], disk'[v])
             /\ (\A p \in Page : disk'[v][p] = OnPage(cached[v], p))
                  => \A i \in DOMAIN cached[v] : Tailed(cached[v][i], disk'[v])
  <2>1. cached[v] \in Seq(Records) /\ Ordered(cached[v]) /\ Trusted(cached[v], disk[v])
    BY LogOf DEF Inv, DiskInv
  <2>2. PICK s, d, e : s = cached[v] /\ d = disk[v] /\ e = disk'[v]
    OBVIOUS
  <2>3. \A p \in Page : e[p] = d[p] \/ e[p] = OnPage(s, p)
    BY <2>2
  <2>4. s \in Seq(Records) /\ Ordered(s) /\ Trusted(s, d)
    BY <2>1, <2>2
  <2>5. /\ Trusted(s, e)
        /\ \A i \in DOMAIN s : Tailed(s[i], d) => Tailed(s[i], e)
        /\ (\A p \in Page : e[p] = OnPage(s, p)) => \A i \in DOMAIN s : Tailed(s[i], e)
    BY <2>3, <2>4, TrustedWritten
  <2> QED  BY <2>2, <2>5
<1>2. ASSUME pc' = "writeLength"
      PROVE  Tailed(cached[out][Len(cached[out])], disk'[out])
  <2>1. InCall
    BY <1>2 DEF InCall
  <2>2. out \in Version /\ cached[out] # <<>>
    BY <2>1 DEF Inv, FilesInv
  <2>3. Len(cached[out]) \in DOMAIN cached[out]
    <3>1. cached[out] \in Seq(Records) /\ Len(cached[out]) \in Nat
      BY <2>2, LogOf DEF Inv
    <3> QED  BY <2>2, <3>1, EmptySeq, LenProperties
  <2> QED  BY <1>1, <1>2, <2>2, <2>3 DEF DiskInv
<1> QED  BY <1>1, <1>2 DEF DiskInv

\* A length is written when the rest of the record is on the disk.
LEMMA DiskLength ==
  ASSUME Inv, DurableInv, DiskInv, WriteLength
  PROVE  DiskInv'
<1> DEFINE s == cached[out]
           t == [s EXCEPT ![Len(s)].len = TRUE]
<1>1. /\ pc = "writeLength" /\ pc' = "finish" /\ disk' = disk
      /\ cached' = [cached EXCEPT ![out] = t]
  BY DEF WriteLength
<1>2. /\ out \in Version /\ s \in Seq(Records) /\ Ordered(s) /\ Len(s) > 0
      /\ s[Len(s)].whole
  BY <1>1, OpenIsCurrent DEF OldOpen, WriterInv, InCall
<1>3. Trusted(s, disk[out]) /\ Tailed(s[Len(s)], disk[out])
  BY <1>1, <1>2 DEF DiskInv
<1>4. /\ cached'[out] = t
      /\ \A w \in Version : w # out => cached'[w] = cached[w]
  BY <1>1, <1>2 DEF Inv, LogInv, StateOK
<1>5. Trusted(t, disk[out])
  <2> HIDE DEF s
  <2> QED  BY <1>2, <1>3, TrustedLength
<1> HIDE DEF t
<1> QED  BY <1>1, <1>2, <1>4, <1>5, DiskOne DEF Inv

\* The logs are what a machine that starts anew finds.
LEMMA DiskCrash ==
  ASSUME Inv, DiskInv, MachineCrash
  PROVE  DiskInv'
<1>1. pc' = "off" /\ disk' = disk /\ \A v \in Version : cached'[v] = OnDisk(disk[v])
  BY DEF MachineCrash, Ends
<1>2. ASSUME NEW v \in Version PROVE Trusted(OnDisk(disk[v]), disk[v])
  <2>1. /\ cached[v] \in Seq(Records) /\ Ordered(cached[v]) /\ Trusted(cached[v], disk[v])
        /\ \A p \in Page : disk[v][p] \in SUBSET Records /\ PageOK(disk[v][p])
    BY LogOf DEF Inv, DiskInv
  <2> QED  BY <2>1, TrustedFound
<1> QED  BY <1>1, <1>2 DEF DiskInv

LEMMA DiskStep ==
  ASSUME Inv, DurableInv, DiskInv, ~WideUnforced, [Next]_vars
  PROVE  DiskInv'
<1> USE DEF files, writer
<1>1. CASE Boot
  <2>1. CASE Recover
    BY <2>1, DiskRecover
  <2>2. CASE New \/ GetVersion \/ GetOldVersion
    BY <2>2, DiskAlone DEF New, GetVersion, GetOldVersion
  <2> QED  BY <1>1, <2>1, <2>2 DEF Boot
<1>2. CASE SnapshotStep
  <2>1. CASE OpenLog \/ DropLog
    BY <2>1, DiskOpen
  <2>2. CASE Snapshot \/ WriteSnapshot \/ NewVersion \/ CommitToNewVersion \/ DropSnapshot
    BY <2>2, DiskAlone
    DEF Snapshot, WriteSnapshot, NewVersion, CommitToNewVersion, DropSnapshot
  <2> QED  BY <1>2, <2>1, <2>2 DEF SnapshotStep
<1>3. CASE UpdateStep
  <2>1. CASE \E force \in BOOLEAN, size \in Sizes : LogUpdate(force, size)
    BY <2>1, DiskRecord
  <2>2. CASE WriteLength
    BY <2>2, DiskLength
  <2>3. CASE SyncContents \/ Finish
    <3>1. /\ UNCHANGED <<cached, out>>
          /\ \/ disk' = [disk EXCEPT ![out] = Written(cached[out])]
             \/ disk' = disk /\ pc' # "writeLength"
          /\ pc' = "writeLength" => pc = "syncContents"
          /\ InCall
      BY <2>3 DEF SyncContents, Finish, Sync, InCall
    <3>2. out \in Version
      BY <3>1 DEF Inv, FilesInv
    <3>3. CASE disk' = [disk EXCEPT ![out] = Written(cached[out])]
      <4>1. /\ \A p \in Page : disk'[out][p] = OnPage(cached[out], p)
            /\ \A v \in Version : v # out => disk'[v] = disk[v]
        BY <3>2, <3>3 DEF Written, Inv, LogInv, StateOK
      <4> QED  BY <3>1, <4>1, DiskWritten
    <3>4. CASE disk' = disk /\ pc' # "writeLength"
      BY <3>1, <3>4, DiskAlone
    <3> QED  BY <3>1, <3>3, <3>4
  <2> QED  BY <1>3, <2>1, <2>2, <2>3 DEF UpdateStep
<1>4. CASE Raise \/ Close \/ Crash
  <2>1. UNCHANGED <<cached, disk>> /\ pc' # "writeLength"
    BY <1>4 DEF Raise, Close, Crash, Ends
  <2> QED  BY <2>1, DiskAlone
<1>5. CASE MachineCrash
  BY <1>5, DiskCrash
<1>6. CASE \E v \in Version, p \in Page : Writeback(v, p)
  <2>1. PICK v \in Version, p \in Page : Writeback(v, p)
    BY <1>6
  <2>2. \A w \in Version, q \in Page :
           disk'[w][q] = disk[w][q] \/ disk'[w][q] = OnPage(cached[w], q)
    BY <2>1 DEF Writeback, Inv, LogInv, StateOK
  <2>3. UNCHANGED <<cached, out, pc>>
    BY <2>1 DEF Writeback
  <2> QED  BY <2>2, <2>3, DiskWritten
<1>7. CASE (\E v \in Version : WriteSize(v)) \/ UNCHANGED vars
  <2>1. UNCHANGED AllButSizes
    BY <1>7, SizesAlone
  <2> QED  BY <2>1, DiskAlone DEF AllButSizes
<1> QED  BY <1>1, <1>2, <1>3, <1>4, <1>5, <1>6, <1>7 DEF Next

-----------------------------------------------------------------------------
(* What the client has is what it would find.                              *)

\* The client's data is the program's, or that of the version it is making.
Open == OldOpen \/ (InSnapshot /\ caller # "boot")

\* A version that has a snapshot and no update.
LEMMA EmptyKernel ==
  ASSUME Inv, Current \in Version, cached[Current] = <<>>
  PROVE  Kernel = snapshot[Current]
<1>1. Current # 0 /\ HasContents(snapshot[Current]) /\ snapshot[Current] \in Value
  BY Names, CurrentFacts DEF Usable
<1>2. UpdatesOf(<<>>) = <<>>
  <2>1. Complete(<<>>) = 0
    <3>1. Complete(<<>>) \in 0 .. Len(<<>>) /\ Len(<<>>) = 0
      BY EmptyLog, CompleteFacts
    <3> QED  BY <3>1
  <2>2. UpdatesOf(<<>>) \in Value /\ Len(UpdatesOf(<<>>)) = 0
    BY <2>1, EmptyLog, UpdatesType
  <2> QED  BY <2>2, EmptySeq DEF Value
<1> QED  BY <1>1, <1>2, ConcatEmptySeq DEF Kernel, Stored, Value

\* The same files, the same data.
LEMMA KernelAlone ==
  ASSUME Current' = Current,
         \A v \in Version : v = Current =>
           snapshot'[v] = snapshot[v] /\ cached'[v] = cached[v],
         Inv
  PROVE  Kernel' = Kernel
<1>1. Current = 0 \/ Current \in Version
  BY CurrentFacts
<1> QED  BY <1>1 DEF Kernel, Stored

\* Of the log that is open everything is found that the client has, and no
\* more, but an update that has its length.
LEMMA OldKernel ==
  ASSUME Inv, DurableInv, OldOpen
  PROVE  Kernel = IF pc = "finish" THEN Append(value, updates) ELSE value
<1> DEFINE s == cached[out]
           U == UpdatesOf(s)
           w == snapshot[out]
<1>1. /\ WriterInv /\ out \in Version /\ Current = out /\ w \in Value
      /\ s \in Seq(Records) /\ Ordered(s) /\ Len(s) \in Nat
  BY OpenIsCurrent
<1>2. Kernel = w \o U
  BY <1>1, Names DEF Kernel, Stored
<1>3. CASE pc = "finish"
  BY <1>2, <1>3, FinishFinds
<1>4. CASE pc # "finish"
  <2>1. /\ Complete(s) = IF InCall THEN Len(s) - 1 ELSE Len(s)
        /\ value = w \o SubSeq(U, 1, Complete(s))
    BY <1>1, <1>4 DEF WriterInv, InCall, Incomplete
  <2>2. U \in Value /\ Len(U) = Complete(s)
    BY <1>1, UpdatesType
  <2>3. SubSeq(U, 1, Complete(s)) = U
    BY <2>2, SubSeqFull DEF Value
  <2> QED  BY <1>2, <1>4, <2>1, <2>3
<1> QED  BY <1>3, <1>4

\* Version 1 is made when there is none to choose.
LEMMA FirstVersion ==
  ASSUME Inv, ValueInv, pc \in Uncommitted, caller = "create"
  PROVE  Current = 0 /\ Kernel = <<>> /\ value = <<>>
<1>1. value = <<>> /\ version = 1
  BY DEF ValueInv, InSnapshot, Uncommitted
<1>2. ~Valid(newFile) /\ ~Valid(versionFile)
  <2>1. ASSUME NEW f \in {versionFile, newFile}, Valid(f) PROVE FALSE
    <3>1. f < version
      BY <2>1 DEF Inv, FilesInv
    <3>2. f \in 1 .. MaxVersions
      BY <2>1, VersionFacts DEF Inv, Version
    <3> QED  BY <1>1, <3>1, <3>2
  <2> QED  BY <2>1
<1> QED  BY <1>1, <1>2 DEF Current, Kernel, Stored

LEMMA OpenKernel ==
  ASSUME Inv, DurableInv, ValueInv, Open
  PROVE  Kernel = IF pc = "finish" THEN Append(value, updates) ELSE value
<1>1. CASE OldOpen
  BY <1>1, OldKernel
<1>2. CASE ~OldOpen /\ InSnapshot /\ caller # "boot"
  <2>1. caller \in {"create", "snapshot"} /\ pc # "finish"
    BY <1>2 DEF DurableInv, VersionInv, InSnapshot
  <2>2. CASE pc \in Uncommitted /\ caller = "create"
    BY <2>1, <2>2, FirstVersion
  <2>3. CASE pc \in {"newVersion", "writeNewVersion"} /\ caller = "snapshot"
    BY <2>1, <2>3 DEF ValueInv
  <2>4. CASE pc \in Committing \cup Dropping
    <3>1. Current = version /\ version \in Version
      BY <2>4, Names DEF Inv, FilesInv, Usable, Current, Committing, Dropping
    <3>2. cached[version] = <<>> /\ snapshot[version] = value
      BY <1>2, <2>4 DEF DurableInv, VersionInv, NewOpen, NewLog
    <3> QED  BY <2>1, <3>1, <3>2, EmptyKernel
  <2> QED  BY <1>2, <2>1, <2>2, <2>3, <2>4
           DEF OldOpen, Opening, InSnapshot, Uncommitted, Committing, Dropping
<1> QED  BY <1>1, <1>2 DEF Open

LEMMA ValueInit == Init => ValueInv
BY DEF Init, ValueInv, InSnapshot

\* A step that is none of Snapshot's leaves nothing to say.
LEMMA ValueGone ==
  ASSUME pc' \notin {"openSnapshot", "writeSnapshot", "openLog", "newVersion",
                     "writeNewVersion", "commit", "writeVersion", "deleteNewVersion",
                     "dropSnapshot", "dropLog"}
         \/ (pc' = "commit" /\ caller' = "boot")
  PROVE  ValueInv'
BY DEF ValueInv, InSnapshot

\* A step of Snapshot that leaves what a restart would find.
LEMMA ValueAlone ==
  ASSUME ValueInv, InSnapshot, UNCHANGED <<caller, value, version, old>>,
         pc' \in {"newVersion", "writeNewVersion"} /\ caller = "snapshot" =>
           Kernel = value /\ Kernel' = Kernel
  PROVE  ValueInv'
BY DEF ValueInv

LEMMA ValueOpen ==
  ASSUME Inv, DurableInv, ValueInv, OpenLog
  PROVE  ValueInv'
<1>1. /\ pc = "openLog" /\ InSnapshot
      /\ UNCHANGED <<versionFile, newFile, snapshot, caller, value, version, old>>
  BY DEF OpenLog, InSnapshot
<1>2. Current' = Current
  BY <1>1 DEF Current
<1>3. version \in Version /\ Current # version
  BY <1>1, Unchosen DEF Uncommitted
<1>4. \A v \in Version : v # version => cached'[v] = cached[v]
  BY DEF OpenLog, Inv, LogInv, StateOK
<1>5. Kernel' = Kernel
  BY <1>1, <1>2, <1>3, <1>4, KernelAlone
<1>6. caller = "snapshot" => Kernel = value
  BY <1>1, OldKernel DEF OldOpen, Opening
<1> QED  BY <1>1, <1>5, <1>6, ValueAlone

\* The new version is not chosen before its file is complete.
LEMMA ValueNew ==
  ASSUME Inv, DurableInv, ValueInv, NewVersion
  PROVE  ValueInv'
<1>1. /\ pc \in {"newVersion", "writeNewVersion"} /\ InSnapshot
      /\ UNCHANGED <<versionFile, snapshot, cached, caller, value, version, old>>
      /\ pc' \in {"newVersion", "writeNewVersion"} => newFile' = Torn
  BY DEF NewVersion, InSnapshot
<1>2. CASE pc' \in {"newVersion", "writeNewVersion"}
  <2>1. Valid(newFile) => newFile = versionFile
    BY <1>1 DEF DurableInv, VersionInv, Uncommitted
  <2>2. Current' = Current
    BY <1>1, <1>2, <2>1, Names DEF Current
  <2>3. Kernel' = Kernel
    BY <1>1, <2>2, KernelAlone
  <2> QED  BY <1>1, <2>3, ValueAlone DEF ValueInv
<1>3. CASE pc' \notin {"newVersion", "writeNewVersion"}
  BY <1>1, <1>3, ValueAlone
<1> QED  BY <1>2, <1>3

LEMMA ValueStep ==
  ASSUME Inv, DurableInv, ValueInv, [Next]_vars
  PROVE  ValueInv'
<1>1. CASE Boot
  <2>1. \/ pc' \in {"getVersion", "getOldVersion", "recover", "create", "run"}
        \/ pc' = "commit" /\ caller' = "boot"
    BY <1>1 DEF Boot, New, GetVersion, GetOldVersion, Recover, Inv, FilesInv
  <2> QED  BY <2>1, ValueGone
<1>2. CASE SnapshotStep
  <2>1. CASE Snapshot
    <3>1. pc' = "openSnapshot" /\ caller' \in {"snapshot", "create"}
      BY <2>1 DEF Snapshot
    <3>2. caller' = "create" => value' = <<>> /\ version' = 1 /\ old' = 0
      <4>1. caller' = "create" => pc = "create"
        BY <2>1 DEF Snapshot
      <4>2. pc = "create" => version = 0
        BY DEF Inv, FilesInv
      <4> QED  BY <2>1, <4>1, <4>2 DEF Snapshot
    <3> QED  BY <3>1, <3>2 DEF ValueInv
  <2>2. CASE OpenLog
    BY <2>2, ValueOpen
  <2>3. CASE NewVersion
    BY <2>3, ValueNew
  <2>4. CASE WriteSnapshot \/ CommitToNewVersion \/ DropSnapshot
    <3>1. InSnapshot /\ UNCHANGED <<caller, value, version, old>>
          /\ pc' \notin {"newVersion", "writeNewVersion"}
      BY <2>4 DEF WriteSnapshot, CommitToNewVersion, DropSnapshot, InSnapshot
    <3> QED  BY <3>1, ValueAlone
  <2>5. CASE DropLog
    BY <2>5, ValueGone DEF DropLog
  <2> QED  BY <1>2, <2>1, <2>2, <2>3, <2>4, <2>5 DEF SnapshotStep
<1>3. CASE UpdateStep
  BY <1>3, ValueGone DEF UpdateStep, LogUpdate, SyncContents, WriteLength, Finish
<1>4. CASE Raise \/ Close \/ Crash \/ MachineCrash
  BY <1>4, ValueGone DEF Raise, Close, Crash, MachineCrash, Ends
<1>5. CASE UNCHANGED <<versionFile, newFile, snapshot, cached, pc, caller, value,
                       version, old>>
  BY <1>5 DEF ValueInv, InSnapshot, Kernel, Stored, Current
<1>6. ASSUME \/ \E v \in Version, p \in Page : Writeback(v, p)
             \/ (\E v \in Version : WriteSize(v)) \/ UNCHANGED vars
      PROVE  UNCHANGED <<versionFile, newFile, snapshot, cached, pc, caller, value,
                         version, old>>
  BY <1>6, SizesAlone DEF Writeback, AllButSizes
<1> QED  BY <1>1, <1>2, <1>3, <1>4, <1>5, <1>6 DEF Next

-----------------------------------------------------------------------------
(* Every step is one of Database, or none.                                 *)

\* The value of Database.
Data == IF Running THEN value ELSE Kernel

Same == Running' = Running /\ Data' = Data /\ safe' = safe
Starts == ~Running /\ Running' /\ Data' = Data /\ safe' = safe
Updated ==
  /\ Running /\ Running' /\ \E u \in Update : Data' = Append(Data, u)
  /\ safe' = Data' \/ safe' = safe
Saved == Running /\ Running' /\ Data' = Data /\ safe' = Data
Stops ==
  /\ Running /\ ~Running' /\ safe' = safe /\ IsPrefix(safe, Data')
  /\ IsPrefix(Data', Data) \/ \E u \in Update : Data' = Append(Data, u)
Loses ==
  /\ ~Running /\ ~Running' /\ safe' = safe
  /\ IsPrefix(safe, Data') /\ IsPrefix(Data', Data)
Mapped == Same \/ Starts \/ Updated \/ Saved \/ Stops \/ Loses

LEMMA RunningIsOpen == Running => Open
BY DEF Running, Open, OldOpen, InSnapshot

LEMMA OpenData ==
  ASSUME FoundInv, Open
  PROVE  Data = value /\ IsPrefix(safe, value)
<1>1. Running \/ pc # "finish"
  BY DEF Running, InCall
<1>2. Kernel = IF pc = "finish" THEN Append(value, updates) ELSE value
  BY OpenKernel DEF FoundInv
<1> QED  BY <1>1, <1>2 DEF Data, Open, FoundInv, DurableInv, SafeInv

LEMMA OpenStays ==
  ASSUME FoundInv, FoundInv', Open, Open', Running' = Running,
         UNCHANGED <<value, safe>>
  PROVE  Same
<1>1. Data = value
  BY OpenData
<1>2. Data' = value'
  <2>1. (FoundInv /\ Open => Data = value)'
    BY OpenData, PTL
  <2> QED  BY <2>1
<1> QED  BY <1>1, <1>2 DEF Same

\* When no program has the database, it is what a program would find.
LEMMA KernelStays ==
  ASSUME Inv, ~Running, ~Running', Current' = Current,
         UNCHANGED <<snapshot, cached, safe>>
  PROVE  Same
<1>1. Kernel' = Kernel
  BY KernelAlone
<1> QED  BY <1>1 DEF Same, Data, Running, InCall, InSnapshot

\* New, and what it calls before Recover, leave what it will find.
LEMMA MapBoot ==
  ASSUME FoundInv, FoundInv', New \/ GetVersion \/ GetOldVersion
  PROVE  Same
<1>1. Inv /\ Current' = Current
  BY BootChooses DEF FoundInv
<1>2. ~Running /\ ~Running'
  BY DEF New, GetVersion, GetOldVersion, FoundInv, Inv, FilesInv, Running, InCall,
         InSnapshot
<1>3. UNCHANGED <<snapshot, cached, safe>>
  BY DEF New, GetVersion, GetOldVersion, files
<1> QED  BY <1>1, <1>2, <1>3, KernelStays

\* Recover finds what was there to find.
LEMMA MapRecover ==
  ASSUME FoundInv, Recover
  PROVE  Starts
<1>1. /\ pc = "recover" /\ pc' = "run" /\ safe' = safe
      /\ value' = snapshot[version] \o UpdatesOf(cached[version])
      /\ HasContents(snapshot[version])
  BY DEF Recover
<1>2. Current = version /\ version \in Version
  BY <1>1, Names DEF FoundInv, Inv, FilesInv, Usable, Current
<1>3. ~Running /\ Running'
  BY <1>1 DEF Running, InCall, InSnapshot
<1>4. Kernel = value'
  BY <1>1, <1>2, Names DEF Kernel, Stored
<1> QED  BY <1>1, <1>3, <1>4 DEF Starts, Data

LEMMA MapSnapshot ==
  ASSUME FoundInv, FoundInv', Snapshot
  PROVE  Same
<1>1. pc' = "openSnapshot" /\ UNCHANGED <<files, safe>> /\ caller' # "boot"
  BY DEF Snapshot
<1>2. Open'
  BY <1>1 DEF Open, InSnapshot
<1>3. CASE pc = "run"
  <2>1. Open /\ Running' = Running /\ value' = value
    BY <1>3 DEF Snapshot, Open, OldOpen, Running, InSnapshot
  <2> QED  BY <1>1, <1>2, <2>1, OpenStays
<1>4. CASE pc = "create"
  <2>1. ~Running /\ ~Running' /\ value' = <<>>
    BY <1>1, <1>4 DEF Snapshot, Running, InCall, InSnapshot
  <2>2. Current = 0
    BY <1>4, Names DEF FoundInv, Inv, FilesInv, Current
  <2>3. Kernel = <<>>
    BY <2>2 DEF Kernel, Stored
  <2>4. Kernel' = <<>>
    BY <1>1, <2>2 DEF Kernel, Stored, Current, files
  <2> QED  BY <1>1, <2>1, <2>3, <2>4 DEF Same, Data, Running, InCall, InSnapshot
<1> QED  BY <1>3, <1>4 DEF Snapshot

\* The new version holds what the client has, so that its commit changes nothing.
LEMMA MapCommit ==
  ASSUME FoundInv, FoundInv',
         WriteSnapshot \/ OpenLog \/ NewVersion \/ CommitToNewVersion
  PROVE  Same
<1>1. /\ InSnapshot
      /\ InSnapshot' \/ (pc' = "recover" /\ caller = "boot")
      /\ pc \in Uncommitted \cup Committing
      /\ UNCHANGED <<caller, value, safe>>
      /\ pc \in Committing => UNCHANGED <<snapshot, cached>>
  BY DEF WriteSnapshot, OpenLog, NewVersion, CommitToNewVersion, InSnapshot, Uncommitted,
         Committing
<1>2. CASE caller # "boot"
  <2>1. Open /\ Open' /\ Running' = Running
    BY <1>1, <1>2 DEF Open, Running, InSnapshot, Uncommitted, Committing, InCall
  <2> QED  BY <1>1, <2>1, OpenStays
<1>3. CASE caller = "boot"
  <2>1. pc \in Committing
    BY <1>1, <1>3 DEF FoundInv, DurableInv, VersionInv
  <2>2. ~Running /\ ~Running'
    BY <1>1, <1>3 DEF Running, InSnapshot, InCall, Uncommitted, Committing
  <2>3. CommitToNewVersion
    BY <2>1 DEF WriteSnapshot, OpenLog, NewVersion, Committing
  <2>4. newFile = version /\ Valid(version)
        /\ (pc = "deleteNewVersion" => versionFile = version)
    BY <2>1, Names DEF FoundInv, Inv, FilesInv, Usable, Committing
  <2>5. Current = version /\ Current' = version
    BY <2>3, <2>4, Names DEF CommitToNewVersion, Current
  <2> QED  BY <1>1, <2>1, <2>2, <2>5, KernelStays DEF FoundInv
<1> QED  BY <1>2, <1>3

\* Snapshot returns: what the client has cannot be lost.
LEMMA MapDrop ==
  ASSUME FoundInv, FoundInv', DropSnapshot \/ DropLog
  PROVE  Same \/ Saved
<1>1. /\ pc \in Dropping /\ InSnapshot /\ caller \in {"create", "snapshot"}
      /\ UNCHANGED <<caller, value, version, versionFile, newFile, old>>
      /\ Open
  BY DEF DropSnapshot, DropLog, Dropping, InSnapshot, FoundInv, Inv, FilesInv,
         DurableInv, VersionInv, Open
<1>2. CASE caller = "snapshot"
  <2>1. pc' \in {"dropLog", "run"} /\ safe' \in {value, safe}
    BY <1>2 DEF DropSnapshot, DropLog
  <2>2. Running /\ Running' /\ Open'
    BY <1>1, <1>2, <2>1 DEF Running, Open, OldOpen, InSnapshot
  <2>3. CASE safe' = safe
    BY <1>1, <2>2, <2>3, OpenStays DEF Running
  <2>4. CASE safe' = value
    BY <1>1, <2>2, <2>4, OpenData DEF Saved, Data
  <2> QED  BY <2>1, <2>3, <2>4
<1>3. CASE caller = "create"
  <2>1. value = <<>> /\ old = 0
    BY <1>1, <1>3 DEF FoundInv, ValueInv
  <2>2. Data = <<>> /\ IsPrefix(safe, <<>>)
    BY <1>1, <2>1, OpenData
  <2>3. safe = <<>>
    <3>1. safe \in Seq(Update \cup {Garbage})
      BY DEF FoundInv, Inv, LogInv, StateOK, Value
    <3>2. Len(safe) <= 0 /\ Len(safe) \in Nat
      BY <2>2, <3>1, EmptySeq, LenProperties DEF IsPrefix
    <3> QED  BY <3>1, <3>2, EmptySeq
  <2>4. safe' = safe
    BY <2>1, <2>3 DEF DropSnapshot, DropLog
  <2>5. pc' \in {"dropLog", "recover"}
    BY <1>3, <2>1 DEF DropSnapshot, DropLog
  <2>6. ~Running /\ ~Running'
    BY <1>1, <1>3, <2>5 DEF Running, InSnapshot, InCall
  <2>7. Current' = Current
    BY <1>1 DEF Current
  <2>8. UNCHANGED <<snapshot, cached>>
    <3>1. CASE DropSnapshot
      BY <2>1, <3>1 DEF DropSnapshot
    <3>2. CASE DropLog
      <4>1. cached' = [v \in Version |-> IF v = old THEN <<>> ELSE cached[v]]
        BY <3>2 DEF DropLog
      <4>2. \A v \in Version : v # old
        BY <2>1, Names
      <4>3. cached = [v \in Version |-> cached[v]]
        BY DEF FoundInv, Inv, LogInv, StateOK
      <4> QED  BY <3>2, <4>1, <4>2, <4>3 DEF DropLog
    <3> QED  BY <3>1, <3>2
  <2> QED  BY <2>4, <2>6, <2>7, <2>8, KernelStays DEF FoundInv
<1> QED  BY <1>1, <1>2, <1>3

\* An update is in the client's data when Update returns, and not before.
LEMMA MapUpdate ==
  ASSUME FoundInv, FoundInv', UpdateStep
  PROVE  Same \/ Updated
<1>1. /\ pc = "run" \/ InCall
      /\ (pc = "run" \/ InCall)'
  BY DEF UpdateStep, LogUpdate, SyncContents, WriteLength, Finish, InCall
<1>2. Open /\ Open' /\ Running /\ Running'
  BY <1>1 DEF Open, OldOpen, Running
<1>3. CASE UNCHANGED <<value, safe>>
  BY <1>2, <1>3, OpenStays
<1>4. CASE Finish
  <2>1. value' = Append(value, updates) /\ (safe' = value' \/ safe' = safe)
    BY <1>4 DEF Finish
  <2>2. updates \in Update
    BY <1>4, FinishFinds DEF Finish, FoundInv
  <2>3. Data = value /\ Data' = value'
    BY <1>2 DEF Data
  <2> QED  BY <1>2, <2>1, <2>2, <2>3 DEF Updated
<1> QED  BY <1>3, <1>4 DEF UpdateStep, LogUpdate, SyncContents, WriteLength

LEMMA MapRaise ==
  ASSUME Promising, FoundInv, FoundInv', Raise
  PROVE  Same
<1>1. /\ UNCHANGED <<snapshot, cached, safe>> /\ pc # "run" /\ ~InCall
      /\ pc \notin {"openLog", "getVersion", "getOldVersion"}
  BY DEF Raise, Promising, InCall
<1>2. CASE Running
  <2>1. pc' = "run" /\ value' = value
    BY <1>1, <1>2 DEF Raise, Running, InSnapshot
  <2>2. Open /\ Open' /\ Running'
    BY <1>2, <2>1, RunningIsOpen DEF Open, OldOpen, Running
  <2> QED  BY <1>1, <1>2, <2>1, <2>2, OpenStays
<1>3. CASE ~Running
  <2>1. pc' \in {"off", "getOldVersion"}
    BY <1>1, <1>3 DEF Raise, Ends
  <2>2. ~Running'
    BY <2>1 DEF Running, InCall, InSnapshot
  <2>3. Current' = Current
    BY FailureChooses DEF FoundInv
  <2> QED  BY <1>1, <1>3, <2>2, <2>3, KernelStays DEF FoundInv
<1> QED  BY <1>2, <1>3

\* The first elements of a value are a prefix of it, also behind another.
LEMMA FirstIsPrefix ==
  ASSUME NEW w \in Value, NEW t \in Value, NEW k \in 0 .. Len(t)
  PROVE  /\ w \o SubSeq(t, 1, k) \in Value
         /\ IsPrefix(w \o SubSeq(t, 1, k), w \o t)
<1> DEFINE V == Update \cup {Garbage}
           a == SubSeq(t, 1, k)
           b == SubSeq(t, k + 1, Len(t))
<1>1. a \in Value /\ b \in Value /\ a \o b = t
  BY FirstUpdates
<1> HIDE DEF a, b
<1>2. w \o a \in Value
  BY <1>1, ConcatProperties DEF Value
<1>3. IsPrefix(w \o a, (w \o a) \o b)
  BY <1>1, <1>2, PrefixSelf, PrefixGrows
<1>4. (w \o a) \o b = w \o t
  <2>1. w \in Seq(V) /\ a \in Seq(V) /\ b \in Seq(V)
    BY <1>1 DEF Value
  <2> HIDE DEF V
  <2>2. (w \o a) \o b = w \o (a \o b)
    BY <2>1, ConcatAssociative
  <2> QED  BY <1>1, <2>2
<1> QED  BY <1>2, <1>3, <1>4 DEF a

\* A prefix of one element more is all of it, or a prefix of what was there.
LEMMA PrefixOfAppend ==
  ASSUME NEW t \in Value, NEW u \in Value, Len(u) = 1,
         NEW s \in Value, IsPrefix(s, t \o u)
  PROVE  s = t \o u \/ IsPrefix(s, t)
<1>1. /\ t \o u \in Value /\ Len(t \o u) = Len(t) + 1
      /\ Len(t) \in Nat /\ Len(s) \in Nat
  <2> DEFINE V == Update \cup {Garbage}
  <2>1. t \in Seq(V) /\ u \in Seq(V) /\ s \in Seq(V)
    BY DEF Value
  <2> HIDE DEF V
  <2>2. t \o u \in Seq(V) /\ Len(t \o u) = Len(t) + Len(u) /\ Len(t) \in Nat /\ Len(s) \in Nat
    BY <2>1, ConcatProperties, LenProperties
  <2> QED  BY <2>2 DEF Value, V
<1>2. Len(s) <= Len(t \o u) /\ SubSeq(s, 1, Len(s)) = SubSeq(t \o u, 1, Len(s))
  BY DEF IsPrefix
<1>3. CASE Len(s) = Len(t \o u)
  <2>1. SubSeq(s, 1, Len(s)) = s /\ SubSeq(t \o u, 1, Len(t \o u)) = t \o u
    BY <1>1, SubSeqFull DEF Value
  <2> QED  BY <1>2, <1>3, <2>1
<1>4. CASE Len(s) = 0
  <2>1. s = <<>>
    BY <1>4, EmptySeq DEF Value
  <2> QED  BY <2>1, PrefixSelf
<1>5. CASE Len(s) # 0 /\ Len(s) # Len(t \o u)
  <2>1. Len(s) <= Len(t) /\ 1 \in 1 .. Len(t) /\ Len(s) \in 1 .. Len(t)
    BY <1>1, <1>2, <1>5
  <2>2. SubSeq(t \o u, 1, Len(s)) = SubSeq(t, 1, Len(s))
    BY <2>1, SubSeqOfConcat1 DEF Value
  <2> QED  BY <1>2, <2>1, <2>2 DEF IsPrefix
<1> QED  BY <1>3, <1>4, <1>5

\* The program stops: what it has done is found, and what is found again are
\* its first updates.
LEMMA MapStops ==
  ASSUME FoundInv, FoundInv', ~Running', safe' = safe, Kernel \in Value,
         Kernel' \in Value, IsPrefix(safe, Kernel'), IsPrefix(Kernel', Kernel)
  PROVE  Stops \/ Loses
<1>1. Data' = Kernel'
  BY DEF Data
<1>2. CASE ~Running
  BY <1>1, <1>2 DEF Loses, Data
<1>3. CASE Running
  <2>1. Open /\ Data = value
    BY <1>3, RunningIsOpen DEF Data
  <2>2. Kernel = IF pc = "finish" THEN Append(value, updates) ELSE value
    BY <2>1, OpenKernel DEF FoundInv
  <2>3. CASE pc # "finish"
    BY <1>1, <1>3, <2>1, <2>2, <2>3 DEF Stops
  <2>4. CASE pc = "finish"
    <3>1. updates \in Update /\ value \in Value
          /\ Append(value, updates) = value \o <<updates>>
      BY <2>4, FinishFinds DEF FoundInv
    <3>2. <<updates>> \in Value /\ Len(<<updates>>) = 1
      BY <3>1 DEF Value
    <3>3. Kernel' = Append(value, updates) \/ IsPrefix(Kernel', value)
      BY <2>2, <2>4, <3>1, <3>2, PrefixOfAppend
    <3> QED  BY <1>1, <1>3, <2>1, <3>1, <3>3 DEF Stops
  <2> QED  BY <2>3, <2>4
<1> QED  BY <1>2, <1>3

\* What the kernel has, and what the disk has, of the version to choose.
LEMMA KernelFound ==
  ASSUME FoundInv
  PROVE  /\ Kernel \in Value /\ IsPrefix(safe, Kernel)
         /\ LET d == Stored(IF Current = 0 THEN <<>> ELSE OnDisk(disk[Current]))
            IN d \in Value /\ IsPrefix(safe, d) /\ IsPrefix(d, Kernel)
<1>1. Inv /\ SafeInv /\ DiskInv
  BY DEF FoundInv, DurableInv
<1>2. CASE Current = 0
  <2>1. safe = <<>> /\ <<>> \in Value
    BY <1>1, <1>2, NumberTypes DEF SafeInv
  <2> QED  BY <1>2, <2>1, PrefixSelf DEF Kernel, Stored
<1>3. CASE Current # 0
  <2>0. Current \in Version /\ snapshot[Current] \in Value
    BY <1>1, <1>3, CurrentFacts
  <2>1. PICK s, d, w : /\ s = cached[Current] /\ d = disk[Current]
                      /\ w = snapshot[Current] /\ w \in Value
    BY <2>0
  <2>2. Kernel = w \o UpdatesOf(s)
    BY <1>3, <2>1, Names DEF Kernel, Stored
  <2>3. Stored(OnDisk(disk[Current])) = w \o UpdatesOf(OnDisk(d))
    BY <1>3, <2>1, Names DEF Stored
  <2>4. /\ IsPrefix(safe, w \o UpdatesOf(s))
        /\ IsPrefix(safe, w \o UpdatesOf(OnDisk(d)))
    BY <1>1, <2>0, <2>1, KeptFound DEF Inv, SafeInv
  <2>5. /\ s \in Seq(Records) /\ Ordered(s) /\ Trusted(s, d)
        /\ \A p \in Page : d[p] \in SUBSET Records /\ PageOK(d[p])
    BY <1>1, <2>0, <2>1, LogOf DEF Inv, DiskInv
  <2>6. UpdatesOf(s) \in Value
    BY <2>5, UpdatesType
  <2>7. PICK k \in 0 .. Len(UpdatesOf(s)) :
          UpdatesOf(OnDisk(d)) = SubSeq(UpdatesOf(s), 1, k)
    BY <2>5, FoundFirst
  <2>8. /\ w \o UpdatesOf(OnDisk(d)) \in Value
        /\ IsPrefix(w \o UpdatesOf(OnDisk(d)), w \o UpdatesOf(s))
    BY <2>1, <2>6, <2>7, FirstIsPrefix
  <2>9. w \o UpdatesOf(s) \in Value
    BY <2>1, <2>6, ConcatProperties DEF Value
  <2> QED  BY <1>3, <2>2, <2>3, <2>4, <2>8, <2>9
<1> QED  BY <1>2, <1>3

LEMMA MapEnds ==
  ASSUME FoundInv, FoundInv', Close \/ Crash \/ MachineCrash
  PROVE  Stops \/ Loses
<1>1. /\ pc' = "off" /\ UNCHANGED <<versionFile, newFile, snapshot, safe>>
      /\ UNCHANGED cached \/ \A v \in Version : cached'[v] = OnDisk(disk[v])
  BY DEF Close, Crash, MachineCrash, Ends, files
<1>2. ~Running' /\ Current' = Current
  BY <1>1 DEF Running, InCall, InSnapshot, Current
<1>3. Current = 0 \/ Current \in Version
  BY CurrentFacts DEF FoundInv
<1>4. \/ Kernel' = Kernel
      \/ Kernel' = Stored(IF Current = 0 THEN <<>> ELSE OnDisk(disk[Current]))
  BY <1>1, <1>2, <1>3 DEF Kernel, Stored
<1>5. Kernel' \in Value /\ IsPrefix(safe, Kernel') /\ IsPrefix(Kernel', Kernel)
  BY <1>4, KernelFound, PrefixSelf
<1> QED  BY <1>1, <1>2, <1>5, KernelFound, MapStops

LEMMA MapStep ==
  ASSUME Promising, FoundInv, FoundInv', [Next]_vars
  PROVE  Mapped
<1>1. CASE Boot
  BY <1>1, MapBoot, MapRecover DEF Boot, Mapped
<1>2. CASE SnapshotStep
  BY <1>2, MapSnapshot, MapCommit, MapDrop DEF SnapshotStep, Mapped
<1>3. CASE UpdateStep
  BY <1>3, MapUpdate DEF Mapped
<1>4. CASE Raise
  BY <1>4, MapRaise DEF Mapped
<1>5. CASE Close \/ Crash \/ MachineCrash
  BY <1>5, MapEnds DEF Mapped
<1>6. CASE UNCHANGED <<versionFile, newFile, snapshot, cached, pc, caller, value, safe>>
  BY <1>6 DEF Mapped, Same, Data, Running, InCall, InSnapshot, Kernel, Stored, Current
<1>7. ASSUME \/ \E v \in Version, p \in Page : Writeback(v, p)
             \/ (\E v \in Version : WriteSize(v)) \/ UNCHANGED vars
      PROVE  UNCHANGED <<versionFile, newFile, snapshot, cached, pc, caller, value,
                         safe>>
  BY <1>7, SizesAlone DEF Writeback, AllButSizes
<1> QED  BY <1>1, <1>2, <1>3, <1>4, <1>5, <1>6, <1>7 DEF Next

LEMMA MappedStep ==
  ASSUME Mapped
  PROVE  [Abstract!Next]_(Abstract!vars)
<1> USE DEF Data, Kernel
<1>1. CASE Same
  BY <1>1 DEF Same, Abstract!vars
<1>2. CASE Starts
  BY <1>2 DEF Starts, Abstract!Next, Abstract!Recover
<1>3. CASE Updated
  BY <1>3 DEF Updated, Abstract!Next, Abstract!Update
<1>4. CASE Saved
  BY <1>4 DEF Saved, Abstract!Next, Abstract!Snapshot
<1>5. CASE Stops
  BY <1>5 DEF Stops, Abstract!Next, Abstract!Crash, Abstract!IsPrefix, IsPrefix
<1>6. CASE Loses
  <2>1. Running' = Running
    BY <1>6 DEF Loses, Running, InCall, InSnapshot
  <2>2. Abstract!Lose
    BY <1>6, <2>1 DEF Loses, Abstract!Lose, Abstract!IsPrefix, IsPrefix
  <2> QED  BY <2>2 DEF Abstract!Next
<1> QED  BY <1>1, <1>2, <1>3, <1>4, <1>5, <1>6 DEF Mapped

-----------------------------------------------------------------------------
LEMMA FoundHolds ==
  ASSUME Promising, ~WideUnforced
  PROVE  Spec => []FoundInv
<1>1. Init => FoundInv
  BY LogInit, FilesInit, DurableInit, TailInit, DiskInit, ValueInit
     DEF Inv, FoundInv
<1>2. FoundInv /\ [Next]_vars => FoundInv'
  <2> SUFFICES ASSUME FoundInv, [Next]_vars PROVE FoundInv'
    OBVIOUS
  <2>1. Inv' /\ DurableInv' /\ TailInv'
    BY InvStep, DurableStep, TailStep DEF FoundInv
  <2>2. DiskInv' /\ ValueInv'
    BY DiskStep, ValueStep DEF FoundInv
  <2> QED  BY <2>1, <2>2 DEF FoundInv
<1> QED  BY <1>1, <1>2, PTL DEF Spec

\* The database behaves as SmallDB.i3 says: an update is found completely or not
\* at all, with all before it; what was forced to the disk, and what is in a
\* snapshot, is found again; and the steps in which the files are replaced are
\* not seen.  For any sizes of pages and updates, any number of versions,
\* updates, failures and, if the log is padded, crashes, when updates that cross
\* a page are forced; and with the limits of DurableCorrect.
THEOREM DatabaseImplemented ==
  ASSUME Promising, ~WideUnforced
  PROVE  Spec => ImplementsDatabase
<1>1. Init => Abstract!Init
  <2>1. Init => ~Running /\ Current = 0
    BY Names DEF Init, Running, InCall, InSnapshot, Current
  <2> QED  BY <2>1 DEF Init, Abstract!Init, Stored
<1>2. FoundInv /\ FoundInv' /\ [Next]_vars => [Abstract!Next]_(Abstract!vars)
  BY MapStep, MappedStep
<1>3. Spec => []FoundInv
  BY FoundHolds
<1> QED  BY <1>1, <1>2, <1>3, PTL DEF Spec, ImplementsDatabase, Abstract!Spec
=============================================================================
