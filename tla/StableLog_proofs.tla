-------------------------- MODULE StableLog_proofs --------------------------
(***************************************************************************)
(* Theorems about the format of a stable object's log, for any methods,    *)
(* any parameters, whatever they look like, and any number of crashes.     *)
(***************************************************************************)
EXTENDS StableLog, SequenceTheorems, TLAPS

-----------------------------------------------------------------------------
(* The invariant.                                                          *)

\* Calls as a reader takes them: with any INTEGERs for parameters.
Calls ==
  {c \in Seq(Int) :
     Len(c) >= 1 /\ c[1] \in Methods /\ Len(c) = 1 + Arity[c[1]]}

LogTypeOK ==
  /\ file \in Seq(Int) /\ buff \in Seq(Int)
  /\ call \in Calls \cup {<<>>} /\ calls \in Seq(Calls)
  /\ pc \in {"run", "replay"} /\ pos \in Nat /\ pos >= 1 /\ replayed \in Seq(Calls)
  /\ flushed \in Nat /\ torn \in BOOLEAN /\ nCalls \in Nat
  /\ pc = "run" => replayed = <<>>
  /\ pc = "replay" => buff = <<>> /\ call = <<>>

\* If w goes on to its p-th word, that word is x.
Word(w, p, x) == p <= Len(w) => w[p] = x

\* The record of c, from word i of w on, as far as w goes.
RecordAt(w, i, c) ==
  /\ Word(w, i, CallMark)
  /\ \A j \in 1 .. Len(c) : Word(w, i + j, c[j])
  /\ Word(w, i + Len(c) + 1, EndCallMark)

\* The records of the calls cs start at the words s[1], s[2], ...; the word
\* behind them is the last of s.
Starts(cs, s) ==
  /\ s \in [1 .. Len(cs) + 1 -> Nat]
  /\ s[1] = 1 /\ \A i \in 1 .. Len(cs) + 1 : s[i] >= 1
  /\ \A i \in 1 .. Len(cs) : s[i + 1] = s[i] + Len(cs[i]) + 2
  /\ \A i, j \in 1 .. Len(cs) + 1 : i < j => s[i] < s[j]

\* Behind the records of the calls there is at most a part of the record of
\* the call in progress.
TailOK(w, i) ==
  IF call = <<>> THEN Len(w) = i - 1
  ELSE Len(w) = i + Len(call) /\ RecordAt(w, i, call)

\* The reader is at the start of a record, and made the calls before it.
ReaderOK(s) ==
  \E k \in 1 .. Len(calls) + 1 :
    /\ pos = s[k]
    /\ Len(replayed) = k - 1
    /\ \A i \in 1 .. k - 1 : replayed[i] = calls[i]

RecordsOK(s) ==
  /\ Starts(calls, s)
  /\ \A i \in 1 .. Len(calls) : RecordAt(file \o buff, s[i], calls[i])
  /\ pc = "run" => TailOK(file \o buff, s[Len(calls) + 1])
  /\ pc = "replay" => ~GoodRecord(file, s[Len(calls) + 1]) /\ ReaderOK(s)
  /\ flushed <= Len(calls) /\ s[flushed + 1] <= Len(file) + 1

LogInv == LogTypeOK /\ (~torn => \E s : RecordsOK(s))

-----------------------------------------------------------------------------
(* Words and records.                                                      *)

\* An update method's words are a call.
LEMMA CallsLemma ==
  ASSUME NEW m \in Methods, NEW c \in CallsOf(m)
  PROVE  c \in Calls
<1>1. PICK args \in [1 .. Arity[m] -> Args] : c = <<m>> \o args
  BY DEF CallsOf
<1>2. m \in Nat /\ Arity[m] \in Nat
  BY ArityAssumption DEF Methods
<1>a. args \in [1 .. Arity[m] -> Int]
  BY <1>1, ArgsAssumption
<1>3. args \in Seq(Int) /\ Len(args) = Arity[m]
  BY <1>2, <1>a
<1>4. <<m>> \in Seq(Int) /\ Len(<<m>>) = 1 /\ <<m>>[1] = m
  BY <1>2
<1>5. c \in Seq(Int) /\ Len(c) = 1 + Arity[m] /\ c[1] = m
  BY <1>1, <1>2, <1>3, <1>4
<1> QED  BY <1>2, <1>5 DEF Calls

\* What a call is.
LEMMA CallFacts ==
  ASSUME NEW c \in Calls
  PROVE  /\ c \in Seq(Int) /\ Len(c) \in Nat /\ Len(c) >= 1
         /\ c[1] \in Methods
         /\ \E a \in Nat : /\ a = Arity[c[1]] /\ Arity[c[1]] \in Nat
                          /\ Len(c) = 1 + a /\ Len(c) \in Nat
<1>1. c \in Seq(Int) /\ Len(c) >= 1 /\ c[1] \in Methods /\ Len(c) = 1 + Arity[c[1]]
  BY DEF Calls
<1>2. Arity[c[1]] \in Nat
  BY <1>1, ArityAssumption DEF Methods
<1> QED  BY <1>1, <1>2, LenProperties

\* A record of which only a part is there.
LEMMA PrefixRecord ==
  ASSUME NEW w \in Seq(Int), NEW x \in Seq(Int), NEW i \in Nat, i >= 1,
         NEW c \in Seq(Int), RecordAt(w \o x, i, c)
  PROVE  RecordAt(w, i, c)
<1>1. /\ Len(w \o x) = Len(w) + Len(x) /\ Len(w) \in Nat /\ Len(x) \in Nat
      /\ \A p \in 1 .. Len(w) : (w \o x)[p] = w[p]
  BY ConcatProperties, LenProperties
<1>2. ASSUME NEW p \in Nat, p >= 1, NEW y, Word(w \o x, p, y) PROVE Word(w, p, y)
  BY <1>1, <1>2 DEF Word
<1>3. Len(c) \in Nat /\ \A j \in 1 .. Len(c) : i + j \in Nat /\ i + j >= 1
  BY LenProperties
<1> QED  BY <1>2, <1>3 DEF RecordAt

\* A whole record stays what it is when the words go on.
LEMMA WholeRecord ==
  ASSUME NEW w \in Seq(Int), NEW x \in Seq(Int), NEW i \in Nat, i >= 1,
         NEW c \in Seq(Int), RecordAt(w, i, c), i + Len(c) + 1 <= Len(w)
  PROVE  RecordAt(w \o x, i, c)
<1>1. /\ Len(w) \in Nat /\ Len(c) \in Nat
      /\ \A p \in 1 .. Len(w) : (w \o x)[p] = w[p]
  BY ConcatProperties, LenProperties
<1>2. ASSUME NEW p \in 1 .. Len(w), NEW y, Word(w, p, y) PROVE Word(w \o x, p, y)
  BY <1>1, <1>2 DEF Word
<1>3. i \in 1 .. Len(w) /\ i + Len(c) + 1 \in 1 .. Len(w)
  BY <1>1
<1>4. \A j \in 1 .. Len(c) : i + j \in 1 .. Len(w)
  BY <1>1
<1> QED  BY <1>2, <1>3, <1>4 DEF RecordAt

\* The reader takes a whole record for good, ...
LEMMA GoodWhole ==
  ASSUME NEW w \in Seq(Int), NEW i \in Nat, i >= 1, NEW c \in Calls,
         RecordAt(w, i, c), i + Len(c) + 1 <= Len(w)
  PROVE  GoodRecord(w, i)
<1>0. PICK a \in Nat : Arity[c[1]] = a /\ Len(c) = 1 + a
  BY CallFacts
<1>1. Len(c) = 1 + a /\ Len(c) \in Nat
  BY <1>0
<1>2. PICK n \in Nat : n = Len(w) /\ Len(w) \in Nat
  BY LenProperties
<1>3. i <= n /\ i + 1 <= n /\ i + a + 2 <= n
  BY <1>1, <1>2
<1>4. 1 \in 1 .. Len(c)
  BY <1>1
<1>5. w[i] = CallMark /\ w[i + 1] = c[1]
  BY <1>2, <1>3, <1>4 DEF RecordAt, Word
<1>6. Word(w, i + a + 2, EndCallMark)
  <2>1. i + Len(c) + 1 = i + a + 2
    BY <1>1
  <2> QED  BY <2>1 DEF RecordAt
<1>7. RecordEnd(w, i) = i + a + 2
  <2>1. Arity[w[i + 1]] = a
    BY <1>0, <1>5
  <2>2. RecordEnd(w, i) = i + 2 + Arity[w[i + 1]]
    BY DEF RecordEnd
  <2> QED  BY <2>1, <2>2
<1>8. c[1] \in Methods
  BY CallFacts
<1> QED  BY <1>2, <1>3, <1>5, <1>6, <1>7, <1>8 DEF GoodRecord, Word

\* ... and what it takes from a place where a record of c starts is c.
LEMMA GoodReads ==
  ASSUME NEW w \in Seq(Int), NEW i \in Nat, i >= 1, NEW c \in Calls,
         RecordAt(w, i, c), GoodRecord(w, i)
  PROVE  /\ RecordEnd(w, i) = i + Len(c) + 1 /\ RecordEnd(w, i) <= Len(w)
         /\ SubSeq(w, i + 1, RecordEnd(w, i) - 1) = c
<1>0. PICK a \in Nat : Arity[c[1]] = a /\ Len(c) = 1 + a
  BY CallFacts
<1>1. Len(c) = 1 + a /\ Len(c) \in Nat
  BY <1>0
<1>2. PICK n \in Nat : n = Len(w) /\ Len(w) \in Nat
  BY LenProperties
<1>3. i + 1 <= n /\ RecordEnd(w, i) <= n
  BY <1>2 DEF GoodRecord
<1>4. 1 \in 1 .. Len(c)
  BY <1>1
<1>5. w[i + 1] = c[1]
  BY <1>2, <1>3, <1>4 DEF RecordAt, Word
<1>6. RecordEnd(w, i) = i + a + 2 /\ RecordEnd(w, i) \in Nat
  <2>1. Arity[w[i + 1]] = a
    BY <1>0, <1>5
  <2>2. RecordEnd(w, i) = i + 2 + Arity[w[i + 1]]
    BY DEF RecordEnd
  <2> QED  BY <2>1, <2>2
<1> DEFINE q == SubSeq(w, i + 1, i + a + 1)
<1>7. \A p \in i + 1 .. i + a + 1 : w[p] \in Int
  BY <1>2, <1>3, <1>6, ElementOfSeq
<1>8. i + 1 \in Int /\ i + a + 1 \in Int
  OBVIOUS
<1>9. /\ q \in Seq(Int) /\ Len(q) = 1 + a /\ Len(q) \in Nat
      /\ \A j \in 1 .. a + 1 : q[j] = w[i + j]
  <2>1. /\ q \in Seq(Int)
        /\ Len(q) = IF i + 1 <= i + a + 1 THEN i + a + 1 - (i + 1) + 1 ELSE 0
        /\ \A j \in 1 .. i + a + 1 - (i + 1) + 1 : q[j] = w[i + 1 + j - 1]
    BY <1>7, <1>8, SubSeqProperties
  <2>2. Len(q) \in Nat
    BY <2>1, LenProperties
  <2> HIDE DEF q
  <2> QED  BY <2>1, <2>2
<1>10. \A j \in 1 .. a + 1 : w[i + j] = c[j]
  <2>1. \A j \in 1 .. a + 1 : i + j <= Len(w)
    BY <1>2, <1>3, <1>6
  <2>2. \A j \in 1 .. a + 1 : j \in 1 .. Len(c)
    BY <1>1
  <2> QED  BY <2>1, <2>2 DEF RecordAt, Word
<1>11. q = c
  <2>1. c \in Seq(Int) /\ q \in Seq(Int) /\ Len(q) = Len(c)
    BY <1>1, <1>9, CallFacts
  <2>2. \A j \in 1 .. Len(q) : q[j] = c[j]
    BY <1>9, <1>10
  <2> HIDE DEF q
  <2> QED  BY <2>1, <2>2, SeqEqual
<1>12. RecordEnd(w, i) - 1 = i + a + 1 /\ RecordEnd(w, i) = i + Len(c) + 1
  BY <1>1, <1>6
<1> QED  BY <1>2, <1>3, <1>11, <1>12

\* What it takes from any place is a call.
LEMMA GoodCall ==
  ASSUME NEW w \in Seq(Int), NEW i \in Nat, i >= 1, GoodRecord(w, i)
  PROVE  /\ SubSeq(w, i + 1, RecordEnd(w, i) - 1) \in Calls
         /\ RecordEnd(w, i) \in Nat /\ RecordEnd(w, i) >= 1
<1>1. w[i + 1] \in Methods /\ RecordEnd(w, i) <= Len(w) /\ Len(w) \in Nat
  BY LenProperties DEF GoodRecord
<1>2. PICK a \in Nat : a = Arity[w[i + 1]] /\ Arity[w[i + 1]] \in Nat
  BY <1>1, ArityAssumption DEF Methods
<1>3. RecordEnd(w, i) = i + a + 2 /\ RecordEnd(w, i) \in Nat
  <2>1. RecordEnd(w, i) = i + 2 + Arity[w[i + 1]]
    BY DEF RecordEnd
  <2>2. RecordEnd(w, i) = i + 2 + a
    BY <1>2, <2>1, Zenon
  <2> QED  BY <2>2
<1> DEFINE q == SubSeq(w, i + 1, i + a + 1)
<1>4. \A p \in i + 1 .. i + a + 1 : w[p] \in Int
  BY <1>1, <1>3, ElementOfSeq
<1>5. i + 1 \in Int /\ i + a + 1 \in Int
  OBVIOUS
<1>6. /\ q \in Seq(Int) /\ Len(q) = 1 + a /\ Len(q) \in Nat /\ q[1] = w[i + 1]
  <2>1. /\ q \in Seq(Int)
        /\ Len(q) = IF i + 1 <= i + a + 1 THEN i + a + 1 - (i + 1) + 1 ELSE 0
        /\ \A j \in 1 .. i + a + 1 - (i + 1) + 1 : q[j] = w[i + 1 + j - 1]
    BY <1>4, <1>5, SubSeqProperties
  <2>2. Len(q) \in Nat
    BY <2>1, LenProperties
  <2> HIDE DEF q
  <2> QED  BY <2>1, <2>2
<1>7. q \in Calls
  <2> HIDE DEF q
  <2>1. Len(q) >= 1 /\ q[1] \in Methods /\ Arity[q[1]] = a
    <3>1. Len(q) >= 1
      BY <1>6
    <3>2. q[1] = w[i + 1]
      BY <1>6
    <3> QED  BY <1>1, <1>2, <3>1, <3>2, Zenon
  <2>2. Len(q) = 1 + Arity[q[1]]
    BY <1>6, <2>1, Zenon
  <2> QED  BY <1>6, <2>1, <2>2, Zenon DEF Calls
<1>8. RecordEnd(w, i) - 1 = i + a + 1
  BY <1>3
<1> QED  BY <1>3, <1>7, <1>8


\* Three runs of words one behind the other.
LEMMA Concatenations ==
  \A s, t, u \in Seq(Int) : (s \o t) \o u = s \o (t \o u)
BY ConcatAssociative, SMTT(30)

\* A flush moves words from the buffer to the file and changes none.
LEMMA FlushLemma ==
  ASSUME NEW f \in Seq(Int), NEW b \in Seq(Int), NEW n \in 1 .. Len(b)
  PROVE  LET g == f \o SubSeq(b, 1, n)
             r == SubSeq(b, n + 1, Len(b))
         IN /\ g \in Seq(Int) /\ r \in Seq(Int) /\ g \o r = f \o b
            /\ Len(g) = Len(f) + n
            /\ n = Len(b) => r = <<>>
<1> DEFINE x == SubSeq(b, 1, n)
           r == SubSeq(b, n + 1, Len(b))
<1>1. PICK l \in Nat : l = Len(b)
  BY LenProperties
<1>2. \A p \in 1 .. l : b[p] \in Int
  BY <1>1, ElementOfSeq
<1>3. /\ x \in Seq(Int) /\ Len(x) = n
      /\ \A j \in 1 .. n : x[j] = b[j]
  <2>1. 1 \in Int /\ n \in Int /\ \A p \in 1 .. n : b[p] \in Int
    BY <1>1, <1>2
  <2>2. /\ x \in Seq(Int) /\ Len(x) = IF 1 <= n THEN n - 1 + 1 ELSE 0
        /\ \A j \in 1 .. n - 1 + 1 : x[j] = b[1 + j - 1]
    BY <2>1, SubSeqProperties
  <2> HIDE DEF x
  <2> QED  BY <1>1, <2>2
<1>4. /\ r \in Seq(Int) /\ Len(r) = l - n
      /\ \A j \in 1 .. l - n : r[j] = b[n + j]
  <2>1. n + 1 \in Int /\ Len(b) \in Int /\ \A p \in n + 1 .. Len(b) : b[p] \in Int
    BY <1>1, <1>2
  <2>2. /\ r \in Seq(Int)
        /\ Len(r) = IF n + 1 <= Len(b) THEN Len(b) - (n + 1) + 1 ELSE 0
        /\ \A j \in 1 .. Len(b) - (n + 1) + 1 : r[j] = b[n + 1 + j - 1]
    BY <2>1, SubSeqProperties
  <2> HIDE DEF r
  <2> QED  BY <1>1, <2>2
<1> HIDE DEF x, r
<1>5. x \o r = b
  <2>1. /\ x \o r \in Seq(Int) /\ Len(x \o r) = l
        /\ \A i \in 1 .. l : (x \o r)[i] = IF i <= n THEN x[i] ELSE r[i - n]
    <3>1. /\ x \o r \in Seq(Int) /\ Len(x \o r) = Len(x) + Len(r)
          /\ \A i \in 1 .. Len(x) + Len(r) :
               (x \o r)[i] = IF i <= Len(x) THEN x[i] ELSE r[i - Len(x)]
      BY <1>3, <1>4, ConcatProperties, Zenon
    <3>2. Len(x) = n /\ Len(r) = l - n
      BY <1>3, <1>4
    <3>3. n + (l - n) = l
      BY <1>1
    <3> QED  BY <3>1, <3>2, <3>3, Zenon
  <2>2. \A i \in 1 .. l : (x \o r)[i] = b[i]
    <3> TAKE i \in 1 .. l
    <3>1. CASE i <= n
      <4>1. i \in 1 .. n
        BY <1>1, <3>1
      <4> QED  BY <1>3, <2>1, <3>1, <4>1
    <3>2. CASE i > n
      <4>1. i - n \in 1 .. l - n /\ n + (i - n) = i
        BY <1>1, <3>2
      <4>2. (x \o r)[i] = r[i - n]
        <5>1. ~(i <= n)
          BY <1>1, <3>2
        <5> QED  BY <2>1, <5>1, Zenon
      <4>3. r[i - n] = b[n + (i - n)]
        BY <1>4, <4>1, Zenon
      <4> QED  BY <4>1, <4>2, <4>3, Zenon
    <3>3. i <= n \/ i > n
      BY <1>1
    <3> QED  BY <3>1, <3>2, <3>3, Zenon
  <2>3. Len(x \o r) = Len(b) /\ \A i \in 1 .. Len(x \o r) : (x \o r)[i] = b[i]
    BY <1>1, <2>1, <2>2
  <2> QED  BY <2>1, <2>3, SeqEqual
<1>6. f \o x \in Seq(Int) /\ (f \o x) \o r = f \o b /\ Len(f \o x) = Len(f) + n
  <2>1. f \in Seq(Int) /\ x \in Seq(Int) /\ r \in Seq(Int) /\ Len(x) = n
    BY <1>3, <1>4
  <2>2. (f \o x) \o r = f \o (x \o r)
    BY <2>1, Concatenations, Zenon
  <2>3. f \o x \in Seq(Int) /\ Len(f \o x) = Len(f) + Len(x)
    BY <2>1, ConcatProperties, Zenon
  <2> QED  BY <1>5, <2>1, <2>2, <2>3, Zenon
<1>7. n = Len(b) => r = <<>>
  BY <1>1, <1>4, EmptySeq
<1> QED  BY <1>4, <1>6, <1>7 DEF x, r

-----------------------------------------------------------------------------
(* Types.                                                                  *)

\* Every step leaves words words, and calls calls.
LEMMA TypeStep ==
  ASSUME LogTypeOK, [Next]_vars
  PROVE  LogTypeOK'
<1>0. /\ file \in Seq(Int) /\ buff \in Seq(Int) /\ calls \in Seq(Calls)
      /\ pos \in Nat /\ pos >= 1 /\ replayed \in Seq(Calls)
  BY DEF LogTypeOK
<1>1. ASSUME NEW m \in Methods, NEW c \in CallsOf(m), OutCall(c) PROVE LogTypeOK'
  <2>1. c \in Calls /\ c \in Seq(Int)
    BY CallsLemma, CallFacts
  <2>2. <<CallMark>> \in Seq(Int)
    BY DEF CallMark
  <2>3. buff \o <<CallMark>> \in Seq(Int)
    BY <1>0, <2>2, ConcatProperties, Zenon
  <2>4. (buff \o <<CallMark>>) \o c \in Seq(Int)
    BY <2>1, <2>3, ConcatProperties, Zenon
  <2>5. buff' \in Seq(Int) /\ call' \in Calls
    BY <1>1, <2>1, <2>4, Zenon DEF OutCall
  <2>6. /\ nCalls' = nCalls + 1 /\ pc = "run"
        /\ UNCHANGED <<file, calls, pc, pos, replayed, flushed, torn>>
    BY <1>1 DEF OutCall, reading, history
  <2>7. nCalls' \in Nat
    BY <2>6 DEF LogTypeOK
  <2> QED  BY <2>5, <2>6, <2>7 DEF LogTypeOK
<1>2. CASE OutCallEndMark
  <2>1. EndCallMark \in Int
    BY DEF EndCallMark
  <2>2. call \in Calls /\ pc = "run"
    BY <1>2 DEF OutCallEndMark, LogTypeOK
  <2>3. Append(buff, EndCallMark) \in Seq(Int) /\ Append(calls, call) \in Seq(Calls)
    BY <1>0, <2>1, <2>2, AppendProperties, Zenon
  <2>4. /\ buff' = Append(buff, EndCallMark) /\ calls' = Append(calls, call)
        /\ call' = <<>>
        /\ UNCHANGED <<file, pc, pos, replayed, flushed, torn, nCalls>>
    BY <1>2 DEF OutCallEndMark, reading, history
  <2>5. buff' \in Seq(Int) /\ calls' \in Seq(Calls) /\ call' \in Calls \cup {<<>>}
    BY <2>3, <2>4, Zenon
  <2> QED  BY <2>2, <2>4, <2>5 DEF LogTypeOK
<1>3. CASE EmptyBuffer
  <2>1. PICK n \in 1 .. Len(buff) :
          /\ file' = file \o SubSeq(buff, 1, n)
          /\ buff' = SubSeq(buff, n + 1, Len(buff))
          /\ flushed' = IF n = Len(buff) THEN Len(calls) ELSE flushed
    BY <1>3 DEF EmptyBuffer
  <2>2. file' \in Seq(Int) /\ buff' \in Seq(Int)
    BY <1>0, <2>1, FlushLemma, Zenon
  <2>3. buff # <<>>
    <3>1. Len(buff) >= 1
      BY <1>0, <2>1, LenProperties
    <3> QED  BY <3>1, EmptySeq
  <2>4. Len(calls) \in Nat
    BY <1>0, LenProperties, Zenon
  <2>5. flushed' \in Nat
    BY <2>1, <2>4 DEF LogTypeOK
  <2>6. UNCHANGED <<call, calls, pc, pos, replayed, torn, nCalls>>
    BY <1>3 DEF EmptyBuffer, reading
  <2> QED  BY <2>2, <2>3, <2>5, <2>6 DEF LogTypeOK
<1>4. CASE Restart
  <2>1. <<>> \in Seq(Int) /\ <<>> \in Seq(Calls)
    BY EmptySeq, Zenon
  <2>2. /\ buff' = <<>> /\ call' = <<>> /\ pc' = "replay" /\ pos' = 1
        /\ replayed' = <<>> /\ UNCHANGED <<file, calls, flushed, torn, nCalls>>
    BY <1>4 DEF Restart, history
  <2>3. buff' \in Seq(Int) /\ replayed' \in Seq(Calls) /\ call' \in Calls \cup {<<>>}
    BY <2>1, <2>2, Zenon
  <2>4. pos' \in Nat /\ pos' >= 1
    BY <2>2
  <2> QED  BY <2>2, <2>3, <2>4 DEF LogTypeOK
<1>5. CASE ReplayCall
  <2>1. GoodRecord(file, pos)
    BY <1>5 DEF ReplayCall
  <2>2. SubSeq(file, pos + 1, RecordEnd(file, pos) - 1) \in Calls
        /\ RecordEnd(file, pos) \in Nat
    BY <1>0, <2>1, GoodCall, Zenon
  <2>3. PICK e \in Nat : e = RecordEnd(file, pos)
    BY <2>2, Zenon
  <2>4. Append(replayed, SubSeq(file, pos + 1, RecordEnd(file, pos) - 1)) \in Seq(Calls)
    BY <1>0, <2>2, AppendProperties, Zenon
  <2>5. /\ pc = "replay" /\ pos' = e + 1 /\ replayed' \in Seq(Calls)
        /\ UNCHANGED <<file, buff, call, calls, pc, flushed, torn, nCalls>>
    BY <1>5, <2>3, <2>4, Zenon DEF ReplayCall, writing, history
  <2>6. pos' \in Nat /\ pos' >= 1
    BY <2>5
  <2> QED  BY <2>5, <2>6 DEF LogTypeOK
<1>6. CASE ReplayEnds
  <2>1. <<>> \in Seq(Int) /\ <<>> \in Seq(Calls) /\ Len(replayed) \in Nat
    BY <1>0, EmptySeq, LenProperties, Zenon
  <2>2. /\ pc = "replay" /\ pc' = "run" /\ pos' = 1 /\ replayed' = <<>>
        /\ UNCHANGED <<buff, call, nCalls>>
    BY <1>6 DEF ReplayEnds, writing
  <2>3. PICK emptyLog \in EmptyLogAnswers :
          IF emptyLog
          THEN /\ calls' = replayed
               /\ flushed' = Len(replayed)
               /\ torn' = (torn \/ pos # Len(file) + 1)
               /\ UNCHANGED file
          ELSE file' = <<>> /\ calls' = <<>> /\ flushed' = 0 /\ torn' = FALSE
    BY <1>6 DEF ReplayEnds
  <2>4. /\ file' \in Seq(Int) /\ calls' \in Seq(Calls)
        /\ flushed' \in Nat /\ torn' \in BOOLEAN
    <3>1. CASE emptyLog
      <4>1. torn' \in BOOLEAN
        BY <2>3, <3>1
      <4> QED  BY <1>0, <2>1, <2>3, <3>1, <4>1, Zenon
    <3>2. CASE ~emptyLog
      <4>1. flushed' = 0 /\ 0 \in Nat
        BY <2>3, <3>2
      <4> QED  BY <2>1, <2>3, <3>2, <4>1, Zenon
    <3> QED  BY <3>1, <3>2
  <2>5. pos' \in Nat /\ pos' >= 1 /\ replayed' \in Seq(Calls)
    BY <2>1, <2>2
  <2> QED  BY <2>2, <2>4, <2>5 DEF LogTypeOK
<1>7. CASE UNCHANGED vars
  BY <1>7 DEF vars, writing, reading, history, LogTypeOK
<1> QED  BY <1>1, <1>2, <1>3, <1>4, <1>5, <1>6, <1>7 DEF Next

\* The log is empty when the first checkpoint is made.
LEMMA InitTypes == Init => LogTypeOK
<1>1. <<>> \in Seq(Int) /\ <<>> \in Seq(Calls)
  BY EmptySeq, Zenon
<1>2. 0 \in Nat /\ 1 \in Nat /\ 1 >= 1 /\ FALSE \in BOOLEAN
  OBVIOUS
<1>3. "run" \in {"run", "replay"} /\ "run" # "replay" /\ <<>> \in Calls \cup {<<>>}
  OBVIOUS
<1> QED  BY <1>1, <1>2, <1>3, Zenon DEF Init, LogTypeOK

\* In every state the file and the buffer hold words, and what was called and
\* what is replayed are calls of an update method with all its parameters.
THEOREM LogTypeCorrect == Spec => []LogTypeOK
<1> QED  BY InitTypes, TypeStep, PTL DEF Spec

-----------------------------------------------------------------------------
(* Writing.                                                                *)

\* OutCall and the parameters make the start of a record.
LEMMA OutLemma ==
  ASSUME NEW f \in Seq(Int), NEW b \in Seq(Int), NEW c \in Seq(Int)
  PROVE  LET x == <<CallMark>> \o c
             w == f \o b
             v == f \o (b \o <<CallMark>> \o c)
         IN /\ x \in Seq(Int) /\ v = w \o x
            /\ Len(v) = Len(w) + 1 + Len(c)
            /\ RecordAt(v, Len(w) + 1, c)
<1> DEFINE x == <<CallMark>> \o c
           w == f \o b
           v == f \o (b \o <<CallMark>> \o c)
<1>1. <<CallMark>> \in Seq(Int) /\ Len(<<CallMark>>) = 1 /\ <<CallMark>>[1] = CallMark
  BY DEF CallMark
<1>2. x \in Seq(Int) /\ w \in Seq(Int)
  BY <1>1, ConcatProperties, Zenon
<1>3. v = w \o x
  <2>1. b \o <<CallMark>> \o c = b \o x
    BY <1>1, Concatenations, Zenon
  <2>2. f \o (b \o x) = w \o x
    BY <1>2, Concatenations, Zenon
  <2> QED  BY <2>1, <2>2, Zenon
<1>4. PICK k \in Nat : k = Len(w)
  BY <1>2, LenProperties, Zenon
<1>5. PICK m \in Nat : m = Len(c)
  BY LenProperties, Zenon
<1>6. /\ Len(x) = 1 + m /\ x[1] = CallMark
      /\ \A j \in 1 .. m : x[j + 1] = c[j]
  <2>1. /\ Len(x) = Len(<<CallMark>>) + Len(c)
        /\ \A j \in 1 .. Len(<<CallMark>>) + Len(c) :
             x[j] = IF j <= Len(<<CallMark>>) THEN <<CallMark>>[j]
                    ELSE c[j - Len(<<CallMark>>)]
    BY <1>1, ConcatProperties, Zenon
  <2>2. \A j \in 1 .. 1 + m : x[j] = IF j <= 1 THEN <<CallMark>>[j] ELSE c[j - 1]
    BY <1>1, <1>5, <2>1, Zenon
  <2> HIDE DEF x
  <2>3. x[1] = CallMark
    <3>1. 1 \in 1 .. 1 + m /\ 1 <= 1
      OBVIOUS
    <3> QED  BY <1>1, <2>2, <3>1, Zenon
  <2>4. ASSUME NEW j \in 1 .. m PROVE x[j + 1] = c[j]
    <3>1. j + 1 \in 1 .. 1 + m /\ ~(j + 1 <= 1) /\ (j + 1) - 1 = j
      OBVIOUS
    <3> QED  BY <2>2, <3>1, Zenon
  <2>5. Len(x) = 1 + m
    BY <1>1, <1>5, <2>1, Zenon
  <2> QED  BY <2>3, <2>4, <2>5
<1> HIDE DEF x, w, v
<1>7. /\ Len(v) = k + 1 + m
      /\ \A p \in 1 .. 1 + m : v[k + p] = x[p]
  <2>1. /\ Len(v) = Len(w) + Len(x)
        /\ \A p \in 1 .. Len(w) + Len(x) :
             v[p] = IF p <= Len(w) THEN w[p] ELSE x[p - Len(w)]
    BY <1>2, <1>3, ConcatProperties, Zenon
  <2>2. /\ Len(v) = k + (1 + m)
        /\ \A p \in 1 .. k + (1 + m) : v[p] = IF p <= k THEN w[p] ELSE x[p - k]
    BY <1>4, <1>6, <2>1, Zenon
  <2>3. ASSUME NEW p \in 1 .. 1 + m PROVE v[k + p] = x[p]
    <3>1. k + p \in 1 .. k + (1 + m) /\ ~(k + p <= k) /\ (k + p) - k = p
      OBVIOUS
    <3> QED  BY <2>2, <3>1, Zenon
  <2>4. k + (1 + m) = k + 1 + m
    OBVIOUS
  <2> QED  BY <2>2, <2>3, <2>4, Zenon
<1>8. v[k + 1] = CallMark
  <2>1. 1 \in 1 .. 1 + m
    OBVIOUS
  <2> QED  BY <1>6, <1>7, <2>1, Zenon
<1>9. ASSUME NEW j \in 1 .. m PROVE v[k + 1 + j] = c[j]
  <2>1. j + 1 \in 1 .. 1 + m /\ k + (j + 1) = k + 1 + j
    OBVIOUS
  <2> QED  BY <1>6, <1>7, <2>1, Zenon
<1>10. ~(k + 1 + m + 1 <= Len(v))
  BY <1>7
<1>11. RecordAt(v, k + 1, c)
  BY <1>5, <1>8, <1>9, <1>10, Zenon DEF RecordAt, Word
<1> QED  BY <1>2, <1>3, <1>4, <1>5, <1>7, <1>11, Zenon DEF x, w, v

\* OutCallEndMark completes it.
LEMMA EndLemma ==
  ASSUME NEW f \in Seq(Int), NEW b \in Seq(Int), NEW c \in Seq(Int),
         NEW i \in Nat, i >= 1, RecordAt(f \o b, i, c), Len(f \o b) = i + Len(c)
  PROVE  LET x == <<EndCallMark>>
             v == f \o Append(b, EndCallMark)
         IN /\ x \in Seq(Int) /\ v = f \o b \o x
            /\ Len(v) = i + Len(c) + 1
            /\ RecordAt(v, i, c)
<1> DEFINE x == <<EndCallMark>>
           w == f \o b
           v == f \o Append(b, EndCallMark)
<1>1. x \in Seq(Int) /\ Len(x) = 1 /\ x[1] = EndCallMark /\ EndCallMark \in Int
  BY DEF EndCallMark
<1>2. w \in Seq(Int)
  BY ConcatProperties, Zenon
<1>3. v = w \o x
  <2>1. Append(b, EndCallMark) = b \o x
    BY <1>1, AppendIsConcat, Zenon
  <2>2. f \o (b \o x) = w \o x
    BY <1>1, Concatenations, Zenon
  <2> QED  BY <2>1, <2>2, Zenon
<1>4. PICK k \in Nat : k = Len(w)
  BY <1>2, LenProperties, Zenon
<1>5. PICK m \in Nat : m = Len(c)
  BY LenProperties, Zenon
<1>6. k = i + m
  BY <1>4, <1>5, Zenon
<1> HIDE DEF x, w, v
<1>7. /\ Len(v) = k + 1 /\ v[k + 1] = EndCallMark
      /\ \A p \in 1 .. k : v[p] = w[p]
  <2>1. /\ Len(v) = Len(w) + Len(x)
        /\ \A p \in 1 .. Len(w) + Len(x) :
             v[p] = IF p <= Len(w) THEN w[p] ELSE x[p - Len(w)]
    BY <1>1, <1>2, <1>3, ConcatProperties, Zenon
  <2>2. Len(v) = k + 1 /\ \A p \in 1 .. k + 1 : v[p] = IF p <= k THEN w[p] ELSE x[p - k]
    BY <1>1, <1>4, <2>1, Zenon
  <2>3. k + 1 \in 1 .. k + 1 /\ ~(k + 1 <= k) /\ k + 1 - k = 1
    OBVIOUS
  <2>4. \A p \in 1 .. k : p \in 1 .. k + 1 /\ p <= k
    OBVIOUS
  <2>5. v[k + 1] = x[1]
    <3>1. \A p \in 1 .. k + 1 : ~(p <= k) => v[p] = x[p - k]
      BY <2>2, Zenon
    <3> QED  BY <2>3, <3>1
  <2>6. \A p \in 1 .. k : v[p] = w[p]
    BY <2>2, <2>4, Zenon
  <2> QED  BY <1>1, <2>2, <2>3, <2>5, <2>6, Zenon
<1>8. RecordAt(w, i, c)
  BY DEF w
<1>9. v[i] = CallMark
  <2>1. i <= Len(w) /\ i \in 1 .. k
    BY <1>4, <1>6
  <2> QED  BY <1>7, <1>8, <2>1, Zenon DEF RecordAt, Word
<1>10. ASSUME NEW j \in 1 .. m PROVE v[i + j] = c[j]
  <2>1. i + j <= Len(w) /\ i + j \in 1 .. k
    BY <1>4, <1>6
  <2> QED  BY <1>5, <1>7, <1>8, <2>1, Zenon DEF RecordAt, Word
<1>11. RecordAt(v, i, c)
  <2>1. i + m + 1 = k + 1
    BY <1>6
  <2> QED  BY <1>5, <1>7, <1>9, <1>10, <2>1, Zenon DEF RecordAt, Word
<1>12. Len(v) = i + m + 1
  BY <1>6, <1>7
<1> QED  BY <1>1, <1>3, <1>5, <1>11, <1>12, Zenon DEF x, w, v

-----------------------------------------------------------------------------
(* The invariant is inductive.                                             *)

\* A call's record lies before the words behind all the records.
LEMMA StartFacts ==
  ASSUME NEW cs \in Seq(Calls), NEW s, Starts(cs, s), NEW i \in 1 .. Len(cs)
  PROVE  /\ s[i] \in Nat /\ s[i] >= 1
         /\ cs[i] \in Calls /\ cs[i] \in Seq(Int) /\ Len(cs[i]) \in Nat
         /\ s[i + 1] = s[i] + Len(cs[i]) + 2
         /\ s[i + 1] \in Nat /\ s[Len(cs) + 1] \in Nat
         /\ s[i + 1] <= s[Len(cs) + 1]
<1>1. PICK n \in Nat : n = Len(cs)
  BY LenProperties, Zenon
<1>2. cs[i] \in Calls
  BY ElementOfSeq, Zenon
<1>3. cs[i] \in Seq(Int) /\ Len(cs[i]) \in Nat
  BY <1>2, CallFacts, Zenon
<1>4. i \in 1 .. n + 1 /\ i + 1 \in 1 .. n + 1 /\ n + 1 \in 1 .. n + 1
  BY <1>1
<1>5. /\ s \in [1 .. n + 1 -> Nat] /\ \A j \in 1 .. n + 1 : s[j] >= 1
      /\ s[i + 1] = s[i] + Len(cs[i]) + 2
      /\ \A j, k \in 1 .. n + 1 : j < k => s[j] < s[k]
  BY <1>1, Zenon DEF Starts
<1>6. s[i] \in Nat /\ s[i] >= 1 /\ s[i + 1] \in Nat /\ s[n + 1] \in Nat
  BY <1>4, <1>5, Zenon
<1>7. s[i + 1] <= s[n + 1]
  <2>1. CASE i + 1 = n + 1
    <3>1. \A y \in Nat : y <= y
      OBVIOUS
    <3> QED  BY <1>6, <2>1, <3>1, Zenon
  <2>2. CASE i + 1 < n + 1
    <3>1. s[i + 1] < s[n + 1]
      BY <1>4, <1>5, <2>2, Zenon
    <3>2. \A y, z \in Nat : y < z => y <= z
      OBVIOUS
    <3> QED  BY <1>6, <3>1, <3>2, Zenon
  <2>3. i + 1 = n + 1 \/ i + 1 < n + 1
    BY <1>1
  <2> QED  BY <2>1, <2>2, <2>3, Zenon
<1> QED  BY <1>1, <1>2, <1>3, <1>5, <1>6, <1>7, Zenon

\* While a program runs, the records of the completed calls are whole.
LEMMA WholeBefore ==
  ASSUME NEW cs \in Seq(Calls), NEW s, Starts(cs, s), NEW w \in Seq(Int),
         s[Len(cs) + 1] - 1 <= Len(w), NEW i \in 1 .. Len(cs)
  PROVE  s[i] + Len(cs[i]) + 1 <= Len(w)
<1>1. PICK a \in Nat : a = s[i]
  BY StartFacts, Zenon
<1>2. PICK l \in Nat : l = Len(cs[i])
  BY StartFacts, Zenon
<1>3. PICK e \in Nat : e = s[Len(cs) + 1]
  BY StartFacts, Zenon
<1>4. PICK n \in Nat : n = Len(w)
  BY LenProperties, Zenon
<1>5. a + l + 2 <= e
  BY <1>1, <1>2, <1>3, StartFacts, Zenon
<1>6. e - 1 <= n
  BY <1>3, <1>4, Zenon
<1>7. a + l + 1 <= n
  BY <1>5, <1>6
<1> QED  BY <1>1, <1>2, <1>4, <1>7, Zenon

\* So they stay whatever is written behind them.
LEMMA RecordsStay ==
  ASSUME NEW cs \in Seq(Calls), NEW s, Starts(cs, s), NEW w \in Seq(Int),
         s[Len(cs) + 1] - 1 <= Len(w), NEW x \in Seq(Int),
         \A i \in 1 .. Len(cs) : RecordAt(w, s[i], cs[i])
  PROVE  \A i \in 1 .. Len(cs) : RecordAt(w \o x, s[i], cs[i])
<1> TAKE i \in 1 .. Len(cs)
<1>1. s[i] \in Nat /\ s[i] >= 1 /\ cs[i] \in Seq(Int)
  BY StartFacts, Zenon
<1>2. s[i] + Len(cs[i]) + 1 <= Len(w)
  BY WholeBefore, Zenon
<1> QED  BY <1>1, <1>2, WholeRecord, Zenon

\* TailOK says how long the words are.
LEMMA TailFacts ==
  ASSUME LogTypeOK, NEW w \in Seq(Int), NEW i \in Nat, TailOK(w, i)
  PROVE  i - 1 <= Len(w)
<1>1. PICK n \in Nat : n = Len(w)
  BY LenProperties, Zenon
<1>2. CASE call = <<>>
  <2>1. n = i - 1
    BY <1>1, <1>2, Zenon DEF TailOK
  <2>2. i - 1 <= n
    BY <2>1
  <2> QED  BY <1>1, <2>2, Zenon
<1>3. CASE call # <<>>
  <2>1. call \in Calls
    BY <1>3, Zenon DEF LogTypeOK
  <2>2. PICK l \in Nat : l = Len(call)
    BY <2>1, CallFacts, Zenon
  <2>3. n = i + l
    BY <1>1, <1>3, <2>2, Zenon DEF TailOK
  <2>4. i - 1 <= n
    BY <2>3
  <2> QED  BY <1>1, <2>4, Zenon
<1> QED  BY <1>2, <1>3


\* Types that the steps below use.
LEMMA Typed ==
  ASSUME LogTypeOK
  PROVE  /\ file \in Seq(Int) /\ buff \in Seq(Int) /\ file \o buff \in Seq(Int)
         /\ calls \in Seq(Calls) /\ Len(calls) \in Nat
         /\ replayed \in Seq(Calls) /\ Len(replayed) \in Nat
         /\ Len(file) \in Nat /\ Len(file \o buff) \in Nat
         /\ pos \in Nat /\ pos >= 1 /\ flushed \in Nat
         /\ \A s : Starts(calls, s) => s[Len(calls) + 1] \in Nat
                                       /\ s[Len(calls) + 1] >= 1
<1>1. /\ file \in Seq(Int) /\ buff \in Seq(Int) /\ calls \in Seq(Calls)
      /\ replayed \in Seq(Calls) /\ pos \in Nat /\ pos >= 1 /\ flushed \in Nat
  BY DEF LogTypeOK
<1>2. file \o buff \in Seq(Int)
  BY <1>1, ConcatProperties, Zenon
<1>3. /\ Len(file) \in Nat /\ Len(file \o buff) \in Nat
      /\ Len(calls) \in Nat /\ Len(replayed) \in Nat
  BY <1>1, <1>2, LenProperties, Zenon
<1>4. PICK n \in Nat : n = Len(calls)
  BY <1>3
<1>5. n + 1 \in 1 .. n + 1
  OBVIOUS
<1>6. \A s : Starts(calls, s) => s[n + 1] \in Nat /\ s[n + 1] >= 1
  BY <1>4, <1>5, Zenon DEF Starts
<1> QED  BY <1>1, <1>2, <1>3, <1>4, <1>6, Zenon

\* The start of a record goes behind the records that are there.
LEMMA OutCallStep ==
  ASSUME LogTypeOK, NEW s, RecordsOK(s), NEW c \in Calls, OutCall(c)
  PROVE  RecordsOK(s)'
<1> DEFINE w == file \o buff
           x == <<CallMark>> \o c
           e == s[Len(calls) + 1]
<1>1. /\ pc = "run" /\ call = <<>> /\ call' = c
      /\ buff' = buff \o <<CallMark>> \o c
      /\ UNCHANGED <<file, calls, pc, pos, replayed, flushed>>
  BY DEF OutCall, reading, history
<1>2. /\ Starts(calls, s) /\ TailOK(w, e)
      /\ \A i \in 1 .. Len(calls) : RecordAt(w, s[i], calls[i])
      /\ flushed <= Len(calls) /\ s[flushed + 1] <= Len(file) + 1
  BY <1>1, Zenon DEF RecordsOK
<1>3. w \in Seq(Int) /\ e \in Nat /\ e >= 1 /\ calls \in Seq(Calls)
      /\ file \in Seq(Int) /\ buff \in Seq(Int) /\ Len(w) \in Nat
  BY <1>2, Typed, Zenon
<1>4. c \in Seq(Int) /\ Len(c) \in Nat /\ Len(c) >= 1
  BY CallFacts, Zenon
<1>5. /\ x \in Seq(Int) /\ file' \o buff' = w \o x
      /\ Len(file' \o buff') = Len(w) + 1 + Len(c)
      /\ RecordAt(file' \o buff', Len(w) + 1, c)
  <2> DEFINE v == file \o (buff \o <<CallMark>> \o c)
  <2>1. /\ x \in Seq(Int) /\ v = w \o x
        /\ Len(v) = Len(w) + 1 + Len(c)
        /\ RecordAt(v, Len(w) + 1, c)
    BY <1>3, <1>4, OutLemma
  <2>2. file' \o buff' = v
    BY <1>1, Zenon
  <2> HIDE DEF v, w, x
  <2> QED  BY <2>1, <2>2, Zenon
<1> HIDE DEF x, w, e
<1>6. Len(w) = e - 1 /\ Len(w) + 1 = e /\ e - 1 <= Len(w)
  <2>1. Len(w) = e - 1
    BY <1>1, <1>2, Zenon DEF TailOK
  <2> QED  BY <1>3, <2>1
<1>7. \A i \in 1 .. Len(calls) : RecordAt(file' \o buff', s[i], calls[i])
  BY <1>2, <1>3, <1>5, <1>6, RecordsStay, Zenon DEF e
<1>8. call' # <<>>
  <2>1. c # <<>>
    BY <1>4, EmptySeq
  <2> QED  BY <1>1, <2>1
<1>9. Len(file' \o buff') = e + Len(call') /\ RecordAt(file' \o buff', e, call')
  BY <1>1, <1>5, <1>6, Zenon
<1>10. e = s[Len(calls') + 1] /\ calls' = calls /\ pc' = "run"
  BY <1>1 DEF e
<1>11. TailOK(file \o buff, s[Len(calls) + 1])'
  BY <1>8, <1>9, <1>10, Zenon DEF TailOK
<1>12. \A i \in 1 .. Len(calls') : RecordAt(file' \o buff', s[i], calls'[i])
  BY <1>7, <1>10, Zenon
<1>13. /\ Starts(calls', s) /\ flushed' <= Len(calls')
       /\ s[flushed' + 1] <= Len(file') + 1
  BY <1>1, <1>2, Zenon
<1>14. pc' # "replay"
  BY <1>10
<1> QED  BY <1>11, <1>12, <1>13, <1>14, Zenon DEF RecordsOK

\* The records that start at s[1], ... and behind them one of the call c.
NextStarts(s, cs, c) ==
  [i \in 1 .. Len(cs) + 2 |->
     IF i <= Len(cs) + 1 THEN s[i] ELSE s[Len(cs) + 1] + Len(c) + 2]

\* It is the next record.
LEMMA NextStartsLemma ==
  ASSUME NEW cs \in Seq(Calls), NEW s, Starts(cs, s), NEW c \in Calls
  PROVE  LET q == NextStarts(s, cs, c)
             n == Len(cs)
         IN /\ Starts(Append(cs, c), q)
            /\ \A i \in 1 .. n + 1 : q[i] = s[i]
            /\ q[n + 2] = s[n + 1] + Len(c) + 2
<1>1. PICK n \in Nat : n = Len(cs)
  BY LenProperties, Zenon
<1>2. PICK l \in Nat : l = Len(c)
  BY CallFacts, Zenon
<1>3. /\ s \in [1 .. n + 1 -> Nat] /\ s[1] = 1 /\ \A j \in 1 .. n + 1 : s[j] >= 1
      /\ \A i \in 1 .. n : s[i + 1] = s[i] + Len(cs[i]) + 2
      /\ \A i, j \in 1 .. n + 1 : i < j => s[i] < s[j]
  BY <1>1, Zenon DEF Starts
<1>4. PICK e \in Nat : e = s[n + 1]
  <2>1. n + 1 \in 1 .. n + 1
    OBVIOUS
  <2> QED  BY <1>3, <2>1, Zenon
<1> DEFINE q == NextStarts(s, cs, c)
           d == Append(cs, c)
<1>5. q = [i \in 1 .. n + 2 |-> IF i <= n + 1 THEN s[i] ELSE e + l + 2]
  BY <1>1, <1>2, <1>4, Zenon DEF NextStarts
<1>6. /\ d \in Seq(Calls) /\ Len(d) = n + 1 /\ d[n + 1] = c
      /\ \A i \in 1 .. n : d[i] = cs[i]
  <2>1. /\ d \in Seq(Calls) /\ Len(d) = Len(cs) + 1
        /\ \A i \in 1 .. Len(cs) : d[i] = cs[i]
        /\ d[Len(cs) + 1] = c
    BY AppendProperties
  <2> QED  BY <1>1, <2>1, Zenon
<1> HIDE DEF q, d
<1>7. /\ \A i \in 1 .. n + 1 : q[i] = s[i]
      /\ q[n + 2] = e + l + 2
  <2>1. \A i \in 1 .. n + 1 : i \in 1 .. n + 2 /\ i <= n + 1
    OBVIOUS
  <2>2. n + 2 \in 1 .. n + 2 /\ ~(n + 2 <= n + 1)
    OBVIOUS
  <2>3. \A i \in 1 .. n + 1 : q[i] = s[i]
    BY <1>5, <2>1, Zenon
  <2>4. q[n + 2] = e + l + 2
    BY <1>5, <2>2, Zenon
  <2> QED  BY <2>3, <2>4
<1>8. \A i \in 1 .. n + 2 : i \in 1 .. n + 1 \/ i = n + 2
  OBVIOUS
<1>9. e + l + 2 \in Nat /\ e + l + 2 >= 1
  OBVIOUS
<1>10. /\ q \in [1 .. n + 2 -> Nat]
       /\ \A i \in 1 .. n + 2 : q[i] \in Nat /\ q[i] >= 1
  <2>1. \A i \in 1 .. n + 2 : q[i] \in Nat /\ q[i] >= 1
    BY <1>3, <1>7, <1>8, <1>9, Zenon
  <2>2. DOMAIN q = 1 .. n + 2 /\ q = [i \in DOMAIN q |-> q[i]]
    BY <1>5, Zenon
  <2> QED  BY <2>1, <2>2
<1>11. q[1] = 1
  <2>1. 1 \in 1 .. n + 1
    OBVIOUS
  <2> QED  BY <1>3, <1>7, <2>1, Zenon
<1>12. ASSUME NEW i \in 1 .. n + 1 PROVE q[i + 1] = q[i] + Len(d[i]) + 2
  <2>1. CASE i \in 1 .. n
    <3>1. i + 1 \in 1 .. n + 1
      BY <2>1
    <3> QED  BY <1>3, <1>6, <1>7, <2>1, <3>1, Zenon
  <2>2. CASE i = n + 1
    <3>1. i + 1 = n + 2
      BY <2>2
    <3> QED  BY <1>2, <1>4, <1>6, <1>7, <2>2, <3>1, Zenon
  <2>3. i \in 1 .. n \/ i = n + 1
    OBVIOUS
  <2> QED  BY <2>1, <2>2, <2>3, Zenon
<1>13. ASSUME NEW i \in 1 .. n + 1 PROVE q[i] < q[n + 2]
  <2>1. s[i] <= e
    <3>1. i = n + 1 \/ i < n + 1
      OBVIOUS
    <3>2. n + 1 \in 1 .. n + 1
      OBVIOUS
    <3>3. s[i] = e \/ s[i] < e
      BY <1>3, <1>4, <3>1, <3>2, Zenon
    <3>4. s[i] \in Nat
      BY <1>3
    <3> QED  BY <3>3, <3>4
  <2>2. PICK y \in Nat : y = s[i]
    BY <1>3
  <2>3. y < e + l + 2
    BY <2>1, <2>2
  <2> QED  BY <1>7, <2>2, <2>3, Zenon
<1>14. \A i, j \in 1 .. n + 2 : i < j => q[i] < q[j]
  <2> SUFFICES ASSUME NEW i \in 1 .. n + 2, NEW j \in 1 .. n + 2, i < j
               PROVE  q[i] < q[j]
    OBVIOUS
  <2>1. i \in 1 .. n + 1 /\ (j \in 1 .. n + 1 \/ j = n + 2)
    OBVIOUS
  <2> QED  BY <1>3, <1>7, <1>13, <2>1, Zenon
<1>15. Starts(d, q)
  <2>1. Len(d) + 1 = n + 2
    BY <1>6
  <2> QED  BY <1>6, <1>10, <1>11, <1>12, <1>14, <2>1, Zenon DEF Starts
<1> QED  BY <1>1, <1>2, <1>4, <1>7, <1>15, Zenon DEF q, d


\* The end mark makes it the record of a completed call.
LEMMA OutCallEndMarkStep ==
  ASSUME LogTypeOK, NEW s, RecordsOK(s), OutCallEndMark
  PROVE  \E q : RecordsOK(q)'
<1> DEFINE w == file \o buff
           v == file' \o buff'
           x == <<EndCallMark>>
           e == s[Len(calls) + 1]
<1>0. PICK q : q = NextStarts(s, calls, call)
  OBVIOUS
<1>1. /\ call \in Calls /\ call # <<>> /\ call' = <<>> /\ pc = "run"
      /\ buff' = Append(buff, EndCallMark) /\ calls' = Append(calls, call)
      /\ UNCHANGED <<file, pc, pos, replayed, flushed>>
  BY DEF OutCallEndMark, LogTypeOK, reading, history
<1>2. /\ Starts(calls, s) /\ TailOK(w, e)
      /\ \A i \in 1 .. Len(calls) : RecordAt(w, s[i], calls[i])
      /\ flushed <= Len(calls) /\ s[flushed + 1] <= Len(file) + 1
  BY <1>1, Zenon DEF RecordsOK
<1>3. w \in Seq(Int) /\ e \in Nat /\ e >= 1 /\ calls \in Seq(Calls)
      /\ file \in Seq(Int) /\ buff \in Seq(Int) /\ flushed \in Nat
  BY <1>2, Typed, Zenon
<1>4. PICK n \in Nat : n = Len(calls)
  BY Typed, Zenon
<1>5. call \in Seq(Int) /\ Len(call) \in Nat
  BY <1>1, CallFacts, Zenon
<1>6. Len(w) = e + Len(call) /\ RecordAt(w, e, call) /\ e - 1 <= Len(w)
  <2>1. Len(w) = e + Len(call) /\ RecordAt(w, e, call)
    BY <1>1, <1>2, Zenon DEF TailOK
  <2>2. e - 1 <= Len(w)
    BY <1>2, <1>3, TailFacts, Zenon
  <2> QED  BY <2>1, <2>2
<1>7. /\ x \in Seq(Int) /\ v = w \o x
      /\ Len(v) = e + Len(call) + 1 /\ RecordAt(v, e, call)
  <2> DEFINE u == file \o Append(buff, EndCallMark)
  <2>1. /\ x \in Seq(Int) /\ u = w \o x
        /\ Len(u) = e + Len(call) + 1 /\ RecordAt(u, e, call)
    BY <1>3, <1>5, <1>6, EndLemma
  <2>2. v = u
    BY <1>1, Zenon
  <2> HIDE DEF u, v, w, x
  <2> QED  BY <2>1, <2>2, Zenon
<1>8. /\ Starts(calls', q) /\ \A i \in 1 .. n + 1 : q[i] = s[i]
      /\ q[n + 2] = e + Len(call) + 2
  BY <1>0, <1>1, <1>2, <1>3, <1>4, NextStartsLemma, Zenon
<1>9. /\ Len(calls') = n + 1 /\ calls'[n + 1] = call
      /\ \A i \in 1 .. n : calls'[i] = calls[i]
  <2> DEFINE d == Append(calls, call)
  <2>1. /\ Len(d) = Len(calls) + 1 /\ d[Len(calls) + 1] = call
        /\ \A i \in 1 .. Len(calls) : d[i] = calls[i]
    BY <1>1, <1>3, AppendProperties
  <2> HIDE DEF d
  <2>2. d = calls'
    BY <1>1, Zenon DEF d
  <2> QED  BY <1>4, <2>1, <2>2, Zenon
<1> HIDE DEF w, v, x
<1>10. \A i \in 1 .. n : RecordAt(v, s[i], calls[i])
  BY <1>2, <1>3, <1>4, <1>6, <1>7, RecordsStay, Zenon
<1>11. \A i \in 1 .. n + 1 : RecordAt(v, q[i], calls'[i])
  <2> TAKE i \in 1 .. n + 1
  <2>1. i \in 1 .. n \/ i = n + 1
    OBVIOUS
  <2>2. CASE i \in 1 .. n
    BY <1>8, <1>9, <1>10, <2>2, Zenon
  <2>3. CASE i = n + 1
    <3>1. q[i] = e
      BY <1>4, <1>8, <2>3, Zenon
    <3> QED  BY <1>7, <1>9, <2>3, <3>1, Zenon
  <2> QED  BY <2>1, <2>2, <2>3
<1>12. Len(v) = q[n + 2] - 1
  <2>1. PICK l \in Nat : l = Len(call)
    BY <1>5
  <2>2. Len(v) = e + l + 1 /\ q[n + 2] = e + l + 2
    BY <1>7, <1>8, <2>1, Zenon
  <2>3. e + l + 1 = (e + l + 2) - 1
    <3>1. \A y, z \in Nat : y + z + 1 = (y + z + 2) - 1
      OBVIOUS
    <3> QED  BY <1>3, <3>1, Zenon
  <2> QED  BY <2>2, <2>3, Zenon
<1>13. Len(calls') + 1 = n + 2
  BY <1>9
<1>14. TailOK(file \o buff, q[Len(calls) + 1])'
  BY <1>1, <1>12, <1>13, Zenon DEF TailOK, v
<1>15. flushed' <= Len(calls') /\ q[flushed' + 1] <= Len(file') + 1
  <2>1. PICK g \in Nat : g = flushed
    BY <1>3
  <2>2. g <= n
    BY <1>2, <1>4, <2>1, Zenon
  <2>3. g + 1 \in 1 .. n + 1 /\ g <= n + 1
    BY <2>2
  <2>4. q[g + 1] = s[g + 1]
    BY <1>8, <2>3, Zenon
  <2> QED  BY <1>1, <1>2, <1>9, <2>1, <2>3, <2>4, Zenon
<1>16. pc' # "replay"
  BY <1>1
<1>17. \A i \in 1 .. Len(calls') : RecordAt(file' \o buff', q[i], calls'[i])
  BY <1>9, <1>11, Zenon DEF v
<1>18. RecordsOK(q)'
  BY <1>8, <1>14, <1>15, <1>16, <1>17, Zenon DEF RecordsOK
<1> QED  BY <1>18

\* A flush is safe from a crash once it has emptied the buffer.
LEMMA EmptyBufferStep ==
  ASSUME LogTypeOK, NEW s, RecordsOK(s), EmptyBuffer
  PROVE  RecordsOK(s)'
<1> DEFINE w == file \o buff
           e == s[Len(calls) + 1]
<1>1. PICK n \in 1 .. Len(buff) :
        /\ file' = file \o SubSeq(buff, 1, n)
        /\ buff' = SubSeq(buff, n + 1, Len(buff))
        /\ flushed' = IF n = Len(buff) THEN Len(calls) ELSE flushed
  BY DEF EmptyBuffer
<1>2. UNCHANGED <<call, calls, pc, pos, replayed>>
  BY DEF EmptyBuffer, reading
<1>3. file \in Seq(Int) /\ buff \in Seq(Int) /\ w \in Seq(Int)
      /\ Len(file) \in Nat /\ Len(calls) \in Nat /\ Len(w) \in Nat
  BY Typed, Zenon
<1>4. /\ file' \in Seq(Int) /\ buff' \in Seq(Int) /\ file' \o buff' = w
      /\ Len(file') = Len(file) + n /\ (n = Len(buff) => buff' = <<>>)
  BY <1>1, <1>3, FlushLemma, Zenon
<1>5. n \in Nat /\ Len(file) <= Len(file')
  <2>1. PICK l \in Nat : l = Len(buff)
    BY <1>3, LenProperties, Zenon
  <2>2. n \in Nat
    BY <2>1
  <2> QED  BY <1>3, <1>4, <2>2
<1>6. pc = "run"
  <2>1. buff # <<>>
    <3>1. Len(buff) \in Nat
      BY <1>3, LenProperties, Zenon
    <3>2. Len(buff) >= 1
      BY <1>1, <3>1
    <3> QED  BY <3>2, EmptySeq
  <2> QED  BY <2>1 DEF LogTypeOK
<1>7. /\ Starts(calls, s) /\ TailOK(w, e)
      /\ \A i \in 1 .. Len(calls) : RecordAt(w, s[i], calls[i])
      /\ flushed <= Len(calls) /\ s[flushed + 1] <= Len(file) + 1
  BY <1>6, Zenon DEF RecordsOK
<1>8. flushed \in Nat /\ e \in Nat
  BY <1>7, Typed, Zenon
<1>9. flushed' <= Len(calls') /\ s[flushed' + 1] <= Len(file') + 1
  <2>1. CASE n = Len(buff)
    <3>1. flushed' = Len(calls)
      BY <1>1, <2>1
    <3>2. file' = w
      <4>1. buff' = <<>>
        BY <1>4, <2>1
      <4>2. file' \o <<>> = file'
        BY <1>4, ConcatEmptySeq, Zenon
      <4> QED  BY <1>4, <4>1, <4>2, Zenon
    <3>3. e - 1 <= Len(w)
      BY <1>3, <1>7, <1>8, TailFacts, Zenon
    <3> HIDE DEF e, w
    <3>4. e <= Len(w) + 1
      BY <1>3, <1>8, <3>3
    <3>5. Len(calls) <= Len(calls)
      BY <1>3
    <3> QED  BY <1>2, <3>1, <3>2, <3>4, <3>5, Zenon DEF e
  <2>2. CASE n # Len(buff)
    <3>1. flushed' = flushed
      BY <1>1, <2>2
    <3>2. PICK g : g = s[flushed + 1]
      OBVIOUS
    <3>3. flushed + 1 \in 1 .. Len(calls) + 1
      BY <1>3, <1>7, <1>8
    <3>4. g \in Nat
      BY <1>7, <3>2, <3>3, Zenon DEF Starts
    <3>5. g <= Len(file) + 1
      BY <1>7, <3>2, Zenon
    <3>6. PICK a \in Nat, b \in Nat : a = Len(file) /\ b = Len(file')
      BY <1>3, <1>4, LenProperties
    <3>7. g <= b + 1
      <4>1. g <= a + 1 /\ a <= b
        BY <1>5, <3>5, <3>6, Zenon
      <4> QED  BY <3>4, <4>1
    <3> QED  BY <1>2, <1>7, <3>1, <3>2, <3>6, <3>7, Zenon
  <2> QED  BY <2>1, <2>2
<1> HIDE DEF w, e
<1>10. /\ file' \o buff' = w /\ calls' = calls /\ call' = call /\ pc' = "run"
       /\ e = s[Len(calls') + 1]
  BY <1>2, <1>4, <1>6, Zenon DEF e
<1>11. TailOK(file \o buff, s[Len(calls) + 1])'
  BY <1>7, <1>10, Zenon DEF TailOK
<1>12. pc' # "replay"
  BY <1>10
<1>13. /\ Starts(calls', s)
       /\ \A i \in 1 .. Len(calls') : RecordAt(file' \o buff', s[i], calls'[i])
  BY <1>7, <1>10, Zenon
<1> QED  BY <1>9, <1>11, <1>12, <1>13, Zenon DEF RecordsOK


\* Nothing is good behind the completed records: at most there is the start
\* of one.
LEMMA NothingBehind ==
  ASSUME LogTypeOK, NEW s, RecordsOK(s), pc = "run"
  PROVE  ~GoodRecord(file, s[Len(calls) + 1])
<1> SUFFICES ASSUME GoodRecord(file, s[Len(calls) + 1]) PROVE FALSE
  OBVIOUS
<1> DEFINE w == file \o buff
<1>1. Starts(calls, s) /\ TailOK(w, s[Len(calls) + 1])
  BY Zenon DEF RecordsOK
<1>2. file \in Seq(Int) /\ buff \in Seq(Int) /\ w \in Seq(Int)
  BY Typed, Zenon
<1>3. PICK e \in Nat : e = s[Len(calls) + 1] /\ e >= 1
  BY <1>1, Typed, Zenon
<1>4. PICK a \in Nat : a = Len(file)
  BY Typed, Zenon
<1>5. PICK b \in Nat : b = Len(w)
  BY Typed, Zenon
<1>6. a <= b
  <2>1. PICK d \in Nat : d = Len(buff)
    BY <1>2, LenProperties, Zenon
  <2>2. b = a + d
    BY <1>2, <1>4, <1>5, <2>1, ConcatProperties, Zenon
  <2> QED  BY <2>2
<1>7. GoodRecord(file, e) /\ TailOK(w, e)
  BY <1>1, <1>3, Zenon
<1>8. e + 1 <= a
  BY <1>4, <1>7, Zenon DEF GoodRecord
<1> HIDE DEF w
<1>9. CASE call = <<>>
  <2>1. b = e - 1
    BY <1>5, <1>7, <1>9, Zenon DEF TailOK
  <2> QED  BY <1>6, <1>8, <2>1
<1>10. CASE call # <<>>
  <2>1. call \in Calls /\ call \in Seq(Int)
    BY <1>10, CallFacts, Zenon DEF LogTypeOK
  <2>2. PICK l \in Nat : l = Len(call)
    BY <2>1, LenProperties, Zenon
  <2>3. b = e + l /\ RecordAt(w, e, call)
    BY <1>5, <1>7, <1>10, <2>2, Zenon DEF TailOK
  <2>4. RecordAt(file, e, call)
    BY <1>2, <1>3, <2>1, <2>3, PrefixRecord, Zenon DEF w
  <2>5. RecordEnd(file, e) = e + Len(call) + 1 /\ RecordEnd(file, e) <= Len(file)
    BY <1>2, <1>3, <1>7, <2>1, <2>4, GoodReads, Zenon
  <2>6. e + l + 1 <= a
    BY <1>4, <2>2, <2>5, Zenon
  <2> QED  BY <1>6, <2>3, <2>6
<1> QED  BY <1>9, <1>10

\* The file is the start of what was written.
LEMMA FileRecords ==
  ASSUME LogTypeOK, NEW s, RecordsOK(s)
  PROVE  \A i \in 1 .. Len(calls) : RecordAt(file, s[i], calls[i])
<1> TAKE i \in 1 .. Len(calls)
<1>1. Starts(calls, s) /\ RecordAt(file \o buff, s[i], calls[i])
  BY Zenon DEF RecordsOK
<1>2. file \in Seq(Int) /\ buff \in Seq(Int) /\ calls \in Seq(Calls)
  BY Typed, Zenon
<1>3. s[i] \in Nat /\ s[i] >= 1 /\ calls[i] \in Seq(Int)
  BY <1>1, <1>2, StartFacts, Zenon
<1> QED  BY <1>1, <1>2, <1>3, PrefixRecord, Zenon

\* A crash, of a program or of a recovery, leaves the records in the file.
LEMMA RestartStep ==
  ASSUME LogTypeOK, NEW s, RecordsOK(s), Restart
  PROVE  RecordsOK(s)'
<1>1. /\ buff' = <<>> /\ call' = <<>>
      /\ pc' = "replay" /\ pos' = 1 /\ replayed' = <<>>
      /\ UNCHANGED <<file, calls, flushed>>
  BY DEF Restart, history
<1>2. Starts(calls, s) /\ flushed <= Len(calls) /\ s[flushed + 1] <= Len(file) + 1
  BY Zenon DEF RecordsOK
<1>3. file' \o buff' = file
  <2>1. file \in Seq(Int) /\ file \o <<>> = file
    BY Typed, ConcatEmptySeq, Zenon
  <2> QED  BY <1>1, <2>1, Zenon
<1>4. ~GoodRecord(file, s[Len(calls) + 1])
  <2>1. CASE pc = "run"
    BY <2>1, NothingBehind, Zenon
  <2>2. CASE pc = "replay"
    BY <2>2, Zenon DEF RecordsOK
  <2>3. pc = "run" \/ pc = "replay"
    BY DEF LogTypeOK
  <2> QED  BY <2>1, <2>2, <2>3
<1>5. ReaderOK(s)'
  <2>1. PICK n \in Nat : n = Len(calls)
    BY Typed, Zenon
  <2>2. 1 \in 1 .. n + 1 /\ 1 - 1 = 0
    OBVIOUS
  <2>3. Len(replayed') = 1 - 1
    BY <1>1
  <2>4. \A i \in 1 .. 1 - 1 : replayed'[i] = calls'[i]
    OBVIOUS
  <2>5. pos' = s[1] /\ 1 \in 1 .. Len(calls') + 1
    BY <1>1, <1>2, <2>1, <2>2, Zenon DEF Starts
  <2> QED  BY <2>3, <2>4, <2>5, Zenon DEF ReaderOK
<1>6. /\ Starts(calls', s) /\ flushed' <= Len(calls')
      /\ s[flushed' + 1] <= Len(file') + 1
      /\ ~GoodRecord(file', s[Len(calls') + 1])
  BY <1>1, <1>2, <1>4, Zenon
<1>7. \A i \in 1 .. Len(calls') : RecordAt(file' \o buff', s[i], calls'[i])
  BY <1>1, <1>3, FileRecords, Zenon
<1>8. pc' # "run"
  BY <1>1
<1> QED  BY <1>5, <1>6, <1>7, <1>8, Zenon DEF RecordsOK

\* A record the reader takes is that of the next call.
LEMMA ReplayCallStep ==
  ASSUME LogTypeOK, NEW s, RecordsOK(s), ReplayCall
  PROVE  RecordsOK(s)'
<1>1. /\ pc = "replay" /\ GoodRecord(file, pos)
      /\ replayed' = Append(replayed, SubSeq(file, pos + 1, RecordEnd(file, pos) - 1))
      /\ pos' = RecordEnd(file, pos) + 1
      /\ UNCHANGED <<file, buff, call, calls, pc, flushed>>
  BY DEF ReplayCall, writing, history
<1>2. /\ Starts(calls, s) /\ ~GoodRecord(file, s[Len(calls) + 1]) /\ ReaderOK(s)
      /\ \A i \in 1 .. Len(calls) : RecordAt(file \o buff, s[i], calls[i])
      /\ flushed <= Len(calls) /\ s[flushed + 1] <= Len(file) + 1
  BY <1>1, Zenon DEF RecordsOK
<1>3. PICK k \in 1 .. Len(calls) + 1 :
        /\ pos = s[k] /\ Len(replayed) = k - 1
        /\ \A i \in 1 .. k - 1 : replayed[i] = calls[i]
  BY <1>2, Zenon DEF ReaderOK
<1>4. PICK n \in Nat : n = Len(calls)
  BY Typed, Zenon
<1>5. k \in 1 .. n /\ k \in Nat /\ k + 1 \in 1 .. n + 1
  <2>1. k # n + 1
    BY <1>1, <1>2, <1>3, <1>4, Zenon
  <2>2. k \in 1 .. n + 1
    BY <1>4
  <2> QED  BY <2>1, <2>2
<1>6. /\ s[k] \in Nat /\ s[k] >= 1 /\ calls[k] \in Calls
      /\ s[k + 1] = s[k] + Len(calls[k]) + 2 /\ Len(calls[k]) \in Nat
  BY <1>2, <1>4, <1>5, StartFacts, Typed, Zenon
<1>7. RecordAt(file, s[k], calls[k]) /\ file \in Seq(Int) /\ replayed \in Seq(Calls)
  BY <1>4, <1>5, FileRecords, Typed, Zenon
<1>8. /\ RecordEnd(file, pos) = pos + Len(calls[k]) + 1
      /\ SubSeq(file, pos + 1, RecordEnd(file, pos) - 1) = calls[k]
  BY <1>1, <1>3, <1>6, <1>7, GoodReads, Zenon
<1>9. pos' = s[k + 1]
  <2>1. PICK a \in Nat, l \in Nat : a = s[k] /\ l = Len(calls[k])
    BY <1>6
  <2>2. pos' = a + l + 1 + 1 /\ s[k + 1] = a + l + 2
    BY <1>1, <1>3, <1>6, <1>8, <2>1, Zenon
  <2>3. a + l + 1 + 1 = a + l + 2
    OBVIOUS
  <2> QED  BY <2>2, <2>3, Zenon
<1>10. /\ Len(replayed') = k /\ replayed'[k] = calls[k]
       /\ \A i \in 1 .. k - 1 : replayed'[i] = calls[i]
  <2> DEFINE d == Append(replayed, calls[k])
  <2>1. /\ Len(d) = Len(replayed) + 1 /\ d[Len(replayed) + 1] = calls[k]
        /\ \A i \in 1 .. Len(replayed) : d[i] = replayed[i]
    BY <1>6, <1>7, AppendProperties
  <2> HIDE DEF d
  <2>2. replayed' = d
    BY <1>1, <1>8, Zenon DEF d
  <2>3. (k - 1) + 1 = k
    BY <1>5
  <2> QED  BY <1>3, <2>1, <2>2, <2>3, Zenon
<1>11. \A i \in 1 .. (k + 1) - 1 : replayed'[i] = calls'[i]
  <2>1. \A i \in 1 .. (k + 1) - 1 : i \in 1 .. k - 1 \/ i = k
    BY <1>5
  <2> QED  BY <1>1, <1>10, <2>1, Zenon
<1>12. Len(replayed') = (k + 1) - 1
  BY <1>5, <1>10
<1>13. k + 1 \in 1 .. Len(calls') + 1
  BY <1>1, <1>4, <1>5, Zenon
<1>14. ReaderOK(s)'
  BY <1>9, <1>11, <1>12, <1>13, Zenon DEF ReaderOK
<1>15. pc' # "run"
  BY <1>1
<1>16. /\ Starts(calls', s) /\ ~GoodRecord(file', s[Len(calls') + 1])
       /\ \A i \in 1 .. Len(calls') : RecordAt(file' \o buff', s[i], calls'[i])
       /\ flushed' <= Len(calls') /\ s[flushed' + 1] <= Len(file') + 1
  BY <1>1, <1>2, Zenon
<1> QED  BY <1>14, <1>15, <1>16, Zenon DEF RecordsOK


\* An empty log holds the records of no call.
LEMMA EmptyRecords ==
  file = <<>> /\ buff = <<>> /\ call = <<>> /\ calls = <<>> /\ flushed = 0
  /\ pc = "run" => \E s : RecordsOK(s)
<1> SUFFICES ASSUME file = <<>>, buff = <<>>, call = <<>>, calls = <<>>,
                    flushed = 0, pc = "run"
             PROVE  \E s : RecordsOK(s)
  OBVIOUS
<1>1. PICK s : s = [i \in 1 .. 1 |-> 1]
  OBVIOUS
<1>2. <<>> \in Seq(Int) /\ Len(<<>>) = 0
  BY EmptySeq, Zenon
<1>3. file \o buff = <<>>
  BY <1>2, ConcatEmptySeq, Zenon
<1>4. 1 \in 1 .. 1 /\ s[1] = 1
  BY <1>1
<1>5. Starts(calls, s)
  <2>1. 0 + 1 = 1 /\ s \in [1 .. 1 -> Nat] /\ \A i \in 1 .. 1 : s[i] >= 1
    BY <1>1
  <2>2. (\A i \in 1 .. 0 : FALSE) /\ \A i, j \in 1 .. 1 : ~(i < j)
    OBVIOUS
  <2> QED  BY <1>2, <1>4, <2>1, <2>2, Zenon DEF Starts
<1>6. TailOK(file \o buff, s[Len(calls) + 1])
  <2>1. 0 = 1 - 1 /\ 0 + 1 = 1
    OBVIOUS
  <2> QED  BY <1>2, <1>3, <1>4, <2>1, Zenon DEF TailOK
<1>7. \A i \in 1 .. Len(calls) : FALSE
  BY <1>2
<1>8. flushed <= Len(calls) /\ s[flushed + 1] <= Len(file) + 1
  BY <1>2, <1>4
<1>9. pc # "replay"
  OBVIOUS
<1>10. RecordsOK(s)
  BY <1>5, <1>6, <1>7, <1>8, <1>9, Zenon DEF RecordsOK
<1> QED  BY <1>10

\* A program that goes on with a log it has read to its end finds it as if
\* it had written it.
LEMMA ReplayEndsStep ==
  ASSUME LogTypeOK, ~torn => \E s : RecordsOK(s), ReplayEnds, ~torn'
  PROVE  (\E s : RecordsOK(s))'
<1>1. /\ pc = "replay" /\ pc' = "run" /\ UNCHANGED <<buff, call>>
      /\ buff = <<>> /\ call = <<>>
  BY DEF ReplayEnds, writing, LogTypeOK
<1>2. PICK emptyLog \in EmptyLogAnswers :
        IF emptyLog
        THEN /\ calls' = replayed
             /\ flushed' = Len(replayed)
             /\ torn' = (torn \/ pos # Len(file) + 1)
             /\ UNCHANGED file
        ELSE file' = <<>> /\ calls' = <<>> /\ flushed' = 0 /\ torn' = FALSE
  BY DEF ReplayEnds
<1>3. CASE ~emptyLog
  <2>1. /\ file' = <<>> /\ buff' = <<>> /\ call' = <<>> /\ calls' = <<>>
        /\ flushed' = 0 /\ pc' = "run"
    BY <1>1, <1>2, <1>3
  <2>2. (file = <<>> /\ buff = <<>> /\ call = <<>> /\ calls = <<>> /\ flushed = 0
         /\ pc = "run" => \E s : RecordsOK(s))'
    BY EmptyRecords, PTL
  <2> QED  BY <2>1, <2>2
<1>4. CASE emptyLog
  <2>1. /\ calls' = replayed /\ flushed' = Len(replayed) /\ UNCHANGED file
        /\ ~torn /\ pos = Len(file) + 1
    BY <1>2, <1>4
  <2>2. PICK s : RecordsOK(s)
    BY <2>1
  <2>3. /\ Starts(calls, s) /\ ReaderOK(s)
        /\ \A i \in 1 .. Len(calls) : RecordAt(file \o buff, s[i], calls[i])
    BY <1>1, <2>2, Zenon DEF RecordsOK
  <2>4. PICK k \in 1 .. Len(calls) + 1 :
          /\ pos = s[k] /\ Len(replayed) = k - 1
          /\ \A i \in 1 .. k - 1 : replayed[i] = calls[i]
    BY <2>3, Zenon DEF ReaderOK
  <2>5. PICK n \in Nat : n = Len(calls)
    BY Typed, Zenon
  <2>6. PICK m \in Nat : m = k - 1 /\ k = m + 1 /\ m <= n
    <3>1. k - 1 \in Nat /\ k = (k - 1) + 1 /\ k - 1 <= n
      BY <2>5
    <3> QED  BY <3>1
  <2>7. PICK q : q = [i \in 1 .. m + 1 |-> s[i]]
    OBVIOUS
  <2>8. /\ s \in [1 .. n + 1 -> Nat] /\ s[1] = 1 /\ \A i \in 1 .. n + 1 : s[i] >= 1
        /\ \A i \in 1 .. n : s[i + 1] = s[i] + Len(calls[i]) + 2
        /\ \A i, j \in 1 .. n + 1 : i < j => s[i] < s[j]
    BY <2>3, <2>5, Zenon DEF Starts
  <2>9. /\ \A i \in 1 .. m + 1 : i \in 1 .. n + 1 /\ q[i] = s[i]
        /\ \A i \in 1 .. m : i \in 1 .. n /\ i \in 1 .. m + 1 /\ i + 1 \in 1 .. m + 1
        /\ 1 \in 1 .. m + 1 /\ m + 1 \in 1 .. m + 1
    BY <2>6, <2>7
  <2>10. Len(calls') = m /\ \A i \in 1 .. m : calls'[i] = calls[i]
    BY <2>1, <2>4, <2>6, Zenon
  <2>11. Starts(calls', q)
    <3>1. q \in [1 .. m + 1 -> Nat]
      <4>1. \A i \in 1 .. m + 1 : s[i] \in Nat
        BY <2>8, <2>9, Zenon
      <4> QED  BY <2>7, <4>1
    <3>2. q[1] = 1 /\ \A i \in 1 .. m + 1 : q[i] >= 1
      BY <2>8, <2>9, Zenon
    <3>3. \A i \in 1 .. m : q[i + 1] = q[i] + Len(calls'[i]) + 2
      BY <2>8, <2>9, <2>10, Zenon
    <3>4. \A i, j \in 1 .. m + 1 : i < j => q[i] < q[j]
      BY <2>8, <2>9, Zenon
    <3> QED  BY <2>10, <3>1, <3>2, <3>3, <3>4, Zenon DEF Starts
  <2>12. file' \o buff' = file /\ file' = file
    <3>1. file \in Seq(Int) /\ file \o <<>> = file
      BY Typed, ConcatEmptySeq, Zenon
    <3> QED  BY <1>1, <2>1, <3>1, Zenon
  <2>13. \A i \in 1 .. m : RecordAt(file, s[i], calls[i])
    BY <2>2, <2>5, <2>9, FileRecords, Zenon
  <2>14. \A i \in 1 .. Len(calls') : RecordAt(file' \o buff', q[i], calls'[i])
    BY <2>9, <2>10, <2>12, <2>13, Zenon
  <2>15. PICK a \in Nat : a = Len(file)
    BY Typed, Zenon
  <2>16. q[m + 1] = a + 1
    BY <2>1, <2>4, <2>6, <2>9, <2>15, Zenon
  <2>17. TailOK(file \o buff, q[Len(calls) + 1])'
    <3>1. a = (a + 1) - 1
      OBVIOUS
    <3>2. Len(file' \o buff') = q[Len(calls') + 1] - 1 /\ call' = <<>>
      BY <1>1, <2>10, <2>12, <2>15, <2>16, <3>1, Zenon
    <3> QED  BY <3>2, Zenon DEF TailOK
  <2>18. flushed' <= Len(calls') /\ q[flushed' + 1] <= Len(file') + 1
    <3>1. flushed' = m
      BY <2>1, <2>10, Zenon
    <3>2. m <= m /\ a + 1 <= a + 1
      OBVIOUS
    <3> QED  BY <2>10, <2>12, <2>15, <2>16, <3>1, <3>2, Zenon
  <2>19. pc' # "replay"
    BY <1>1
  <2>20. RecordsOK(q)'
    BY <2>11, <2>14, <2>17, <2>18, <2>19, Zenon DEF RecordsOK
  <2> QED  BY <2>20
<1> QED  BY <1>3, <1>4

\* The invariant holds of the log that the first checkpoint makes ...
LEMMA LogInit == Init => LogInv
<1> SUFFICES ASSUME Init PROVE LogInv
  OBVIOUS
<1>1. LogTypeOK
  BY InitTypes
<1>2. \E s : RecordsOK(s)
  BY EmptyRecords, Zenon DEF Init
<1> QED  BY <1>1, <1>2 DEF LogInv

\* ... and is kept by every step ...
LEMMA LogStep ==
  ASSUME LogInv, [Next]_vars
  PROVE  LogInv'
<1>1. LogTypeOK /\ LogTypeOK' /\ (~torn => \E s : RecordsOK(s))
  BY TypeStep DEF LogInv
<1>2. ASSUME ~torn' PROVE (\E s : RecordsOK(s))'
  <2>1. CASE ReplayEnds
    BY <1>1, <1>2, <2>1, ReplayEndsStep
  <2>2. CASE ~ReplayEnds
    <3>1. torn' = torn
      <4>1. ASSUME NEW m \in Methods, NEW c \in CallsOf(m), OutCall(c) PROVE torn' = torn
        BY <4>1 DEF OutCall, history
      <4> QED  BY <2>2, <4>1 DEF Next, OutCallEndMark, EmptyBuffer, Restart,
                                 ReplayCall, history, vars
    <3>2. PICK s : RecordsOK(s)
      BY <1>1, <1>2, <3>1
    <3>3. ASSUME NEW m \in Methods, NEW c \in CallsOf(m), OutCall(c)
          PROVE  (\E q : RecordsOK(q))'
      <4>1. RecordsOK(s)'
        BY <1>1, <3>2, <3>3, CallsLemma, OutCallStep
      <4> QED  BY <4>1
    <3>4. CASE OutCallEndMark
      BY <1>1, <3>2, <3>4, OutCallEndMarkStep
    <3>5. CASE EmptyBuffer
      <4>1. RecordsOK(s)'
        BY <1>1, <3>2, <3>5, EmptyBufferStep
      <4> QED  BY <4>1
    <3>6. CASE Restart
      <4>1. RecordsOK(s)'
        BY <1>1, <3>2, <3>6, RestartStep
      <4> QED  BY <4>1
    <3>7. CASE ReplayCall
      <4>1. RecordsOK(s)'
        BY <1>1, <3>2, <3>7, ReplayCallStep
      <4> QED  BY <4>1
    <3>8. CASE UNCHANGED vars
      <4>1. UNCHANGED <<file, buff, call, calls, pc, pos, replayed, flushed>>
        BY <3>8 DEF vars, writing, reading, history
      <4>2. RecordsOK(s)'
        BY <3>2, <4>1 DEF RecordsOK, TailOK, ReaderOK
      <4> QED  BY <4>2
    <3> QED  BY <2>2, <3>3, <3>4, <3>5, <3>6, <3>7, <3>8 DEF Next
  <2> QED  BY <2>1, <2>2
<1> QED  BY <1>1, <1>2 DEF LogInv

\* ... and so holds always.
LEMMA LogAlways == Spec => []LogInv
BY LogInit, LogStep, PTL DEF Spec

-----------------------------------------------------------------------------
(* What the log promises.                                                  *)

\* Whatever the parameters look like, wherever the file breaks off and however
\* often the program crashes, a replay makes the calls that ran to their end,
\* in their order, and none besides, as long as no program appended to a log
\* that it had not read to its end.
THEOREM ReplaysOnlyCalls == Spec => []ReplayFaithful
<1>1. LogInv => ReplayFaithful
  <2> SUFFICES ASSUME LogInv, ~torn PROVE IsPrefix(replayed, calls)
    BY DEF ReplayFaithful
  <2>1. LogTypeOK
    BY DEF LogInv
  <2>2. /\ calls \in Seq(Calls) /\ replayed \in Seq(Calls)
        /\ Len(calls) \in Nat /\ Len(replayed) \in Nat
    BY <2>1, Typed, Zenon
  <2>3. Len(replayed) <= Len(calls)
        /\ \A i \in 1 .. Len(replayed) : replayed[i] = calls[i]
    <3>1. CASE pc = "run"
      <4>1. replayed = <<>>
        BY <2>1, <3>1 DEF LogTypeOK
      <4>2. Len(replayed) = 0
        BY <4>1, EmptySeq, Zenon
      <4> QED  BY <2>2, <4>2
    <3>2. CASE pc = "replay"
      <4>1. PICK k \in 1 .. Len(calls) + 1 :
              /\ Len(replayed) = k - 1
              /\ \A i \in 1 .. k - 1 : replayed[i] = calls[i]
        BY <3>2 DEF LogInv, RecordsOK, ReaderOK
      <4>2. k - 1 <= Len(calls)
        BY <2>2
      <4> QED  BY <4>1, <4>2, Zenon
    <3> QED  BY <2>1, <3>1, <3>2 DEF LogTypeOK
  <2> QED  BY <2>2, <2>3 DEF IsPrefix
<1> QED  BY <1>1, LogAlways, PTL

\* And it ends only when it has made every call that was flushed.
THEOREM ReplaysAllFlushed == Spec => []ReplayComplete
<1>1. LogInv => ReplayComplete
  <2> SUFFICES ASSUME LogInv, ~torn, pc = "replay", ~GoodRecord(file, pos),
                      ~(Len(replayed) >= flushed)
               PROVE  FALSE
    BY DEF ReplayComplete
  <2>1. LogTypeOK
    BY DEF LogInv
  <2>2. PICK s : RecordsOK(s)
    BY DEF LogInv
  <2>3. /\ Starts(calls, s) /\ ReaderOK(s)
        /\ flushed <= Len(calls) /\ s[flushed + 1] <= Len(file) + 1
    BY <2>2, Zenon DEF RecordsOK
  <2>4. PICK k \in 1 .. Len(calls) + 1 : pos = s[k] /\ Len(replayed) = k - 1
    BY <2>3, Zenon DEF ReaderOK
  <2>5. PICK n \in Nat, g \in Nat, a \in Nat :
          n = Len(calls) /\ g = flushed /\ a = Len(file)
    BY <2>1, Typed
  <2>6. /\ k \in 1 .. n /\ k + 1 \in 1 .. n + 1 /\ g + 1 \in 1 .. n + 1
        /\ (k + 1 = g + 1 \/ k + 1 < g + 1)
    <3>1. g <= n
      BY <2>3, <2>5, Zenon
    <3>2. ~(k - 1 >= g) /\ k \in 1 .. n + 1
      BY <2>4, <2>5, Zenon
    <3> QED  BY <3>1, <3>2
  <2>7. /\ s[k] \in Nat /\ s[k] >= 1 /\ calls[k] \in Calls
        /\ Len(calls[k]) \in Nat /\ s[k + 1] = s[k] + Len(calls[k]) + 2
    BY <2>1, <2>3, <2>5, <2>6, StartFacts, Typed, Zenon
  <2>8. /\ s \in [1 .. n + 1 -> Nat]
        /\ \A i, j \in 1 .. n + 1 : i < j => s[i] < s[j]
    BY <2>3, <2>5, Zenon DEF Starts
  <2>9. PICK x \in Nat, y \in Nat : x = s[k + 1] /\ y = s[g + 1]
    BY <2>6, <2>8
  <2>10. x <= y
    <3>1. x = y \/ x < y
      BY <2>6, <2>8, <2>9, Zenon
    <3> QED  BY <3>1
  <2>11. y <= a + 1
    BY <2>3, <2>5, <2>9, Zenon
  <2>12. s[k] + Len(calls[k]) + 1 <= Len(file)
    <3>1. PICK b \in Nat, l \in Nat : b = s[k] /\ l = Len(calls[k])
      BY <2>7
    <3>2. x = b + l + 2
      BY <2>7, <2>9, <3>1, Zenon
    <3>3. b + l + 1 <= a
      BY <2>10, <2>11, <3>2
    <3> QED  BY <2>5, <3>1, <3>3, Zenon
  <2>13. RecordAt(file, s[k], calls[k]) /\ file \in Seq(Int)
    BY <2>1, <2>2, <2>5, <2>6, FileRecords, Typed, Zenon
  <2>14. GoodRecord(file, s[k])
    BY <2>7, <2>12, <2>13, GoodWhole, Zenon
  <2> QED  BY <2>4, <2>14, Zenon
<1> QED  BY <1>1, LogAlways, PTL

\* If emptyLog never calls a log empty, as Init of StableRep.mg expects of one
\* that is not, then every recovery ends in a checkpoint and no log is torn:
\* the two theorems above hold without their condition.
THEOREM CheckpointsMend ==
  ASSUME TRUE \notin EmptyLogAnswers
  PROVE  Spec => [](~torn)
<1> Init => ~torn
  BY DEF Init
<1>1. ASSUME ~torn, [Next]_vars PROVE ~torn'
  <2>1. ASSUME NEW m \in Methods, NEW c \in CallsOf(m), OutCall(c) PROVE ~torn'
    BY <1>1, <2>1 DEF OutCall, history
  <2>2. CASE ReplayEnds
    <3>1. PICK emptyLog \in EmptyLogAnswers : ~emptyLog => torn' = FALSE
      BY <2>2 DEF ReplayEnds
    <3>2. emptyLog \in BOOLEAN /\ emptyLog # TRUE
      BY <3>1, AnswersAssumption
    <3> QED  BY <3>1, <3>2
  <2> QED  BY <1>1, <2>1, <2>2 DEF Next, OutCallEndMark, EmptyBuffer, Restart,
                                  ReplayCall, history, vars
<1> QED  BY <1>1, PTL DEF Spec
=============================================================================
