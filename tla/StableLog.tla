----------------------------- MODULE StableLog ------------------------------
(***************************************************************************)
(* The format of a stable object's log, word by word: what OutCall, the    *)
(* parameters and OutCallEndMark of stable/src/StableLog.m3 write, and how *)
(* the generated ReplayLog reads it.  Nothing delimits a record but its    *)
(* marks: the reader takes as many parameters as the method has.           *)
(*                                                                         *)
(* Parameters are INTEGERs; every other type is written as words, too.     *)
(***************************************************************************)
EXTENDS Integers, SequencesExt

CONSTANTS
  Arity,           \* the number of parameters of each update method 0, 1, ...
  Args,            \* the values clients pass
  EmptyLogAnswers, \* what emptyLog may say of the log that a recovery reads
  MaxCalls         \* bound

ASSUME ArityAssumption == \A m \in DOMAIN Arity : m \in Nat /\ Arity[m] \in Nat
ASSUME ArgsAssumption == Args \subseteq Int
ASSUME AnswersAssumption == EmptyLogAnswers \subseteq BOOLEAN
ASSUME BoundAssumption == MaxCalls \in Nat

VARIABLES
  file,     \* the words of the log
  buff,     \* the words in the writer's buffer
  call,     \* the call in progress: method and parameters, or none
  calls,    \* the calls completed since the checkpoint, as far as they count
  pc,       \* "run", or "replay" while ReplayLog is in its LOOP
  pos,      \* the next word ReplayLog reads
  replayed, \* the calls it has made
  flushed,  \* history: how many of calls were complete at the last flush
  torn,     \* history: a program has appended to words no reader gets past
  nCalls

writing == <<buff, call>>
reading == <<pc, pos, replayed>>
history == <<flushed, torn>>
vars == <<file, writing, calls, reading, history, nCalls>>

CallMark == 27353
EndCallMark == 30965

Methods == DOMAIN Arity
CallsOf(m) == {<<m>> \o args : args \in [1 .. Arity[m] -> Args]}

-----------------------------------------------------------------------------
(* Reading.                                                                *)

\* Where the record that starts at word i of w ends.
RecordEnd(w, i) == i + 2 + Arity[w[i + 1]]

\* Fault: CheckCallEndMark is not called.
GoodRecordUnchecked(w, i) ==
  /\ i + 1 <= Len(w) /\ w[i] = CallMark /\ w[i + 1] \in Methods
  /\ RecordEnd(w, i) <= Len(w) + 1

\* A whole record starts at word i of w.
GoodRecord(w, i) ==
  /\ i + 1 <= Len(w) /\ w[i] = CallMark /\ w[i + 1] \in Methods
  /\ RecordEnd(w, i) <= Len(w) /\ w[RecordEnd(w, i)] = EndCallMark

-----------------------------------------------------------------------------

Init ==
  /\ file = <<>> /\ buff = <<>> /\ call = <<>> /\ calls = <<>>
  /\ pc = "run" /\ pos = 1 /\ replayed = <<>>
  /\ flushed = 0 /\ torn = FALSE
  /\ nCalls = 0

\* An update method writes its number and its parameters, ...
OutCall(c) ==
  /\ pc = "run"
  /\ call = <<>>
  /\ nCalls < MaxCalls
  /\ nCalls' = nCalls + 1
  /\ call' = c
  /\ buff' = buff \o <<CallMark>> \o c
  /\ UNCHANGED <<file, calls, reading, history>>

\* Fault: the mark is left out.
OutCallUnmarked ==
  /\ call # <<>>
  /\ calls' = Append(calls, call)
  /\ call' = <<>>
  /\ UNCHANGED <<file, buff, reading, history, nCalls>>

\* ... and the end mark when the method is done.
OutCallEndMark ==
  /\ call # <<>>
  /\ buff' = Append(buff, EndCallMark)
  /\ calls' = Append(calls, call)
  /\ call' = <<>>
  /\ UNCHANGED <<file, reading, history, nCalls>>

\* The buffer is full, or is flushed: its first n words reach the file.
EmptyBuffer ==
  /\ \E n \in 1 .. Len(buff) :
       /\ file' = file \o SubSeq(buff, 1, n)
       /\ buff' = SubSeq(buff, n + 1, Len(buff))
       /\ flushed' = IF n = Len(buff) THEN Len(calls) ELSE flushed
  /\ UNCHANGED <<call, calls, reading, torn, nCalls>>

\* The program crashes, and another one starts to replay the log.
Restart ==
  /\ buff' = <<>> /\ call' = <<>>
  /\ pc' = "replay" /\ pos' = 1 /\ replayed' = <<>>
  /\ UNCHANGED <<file, calls, history, nCalls>>

\* A turn of ReplayLog's LOOP: it reads a record and makes its call.
ReplayCall ==
  /\ pc = "replay"
  /\ GoodRecord(file, pos)
  /\ replayed' = Append(replayed, SubSeq(file, pos + 1, RecordEnd(file, pos) - 1))
  /\ pos' = RecordEnd(file, pos) + 1
  /\ UNCHANGED <<file, writing, calls, pc, history, nCalls>>

\* The LOOP ends with an Error or the end of the file.  Unless emptyLog said
\* that there is nothing in the log, Init makes a checkpoint; if it did say so,
\* the next call is written behind what is in the log.
ReplayEnds ==
  /\ pc = "replay"
  /\ ~GoodRecord(file, pos)
  /\ pc' = "run" /\ pos' = 1 /\ replayed' = <<>>
  /\ \E emptyLog \in EmptyLogAnswers :
       IF emptyLog
       THEN /\ calls' = replayed
            /\ flushed' = Len(replayed)
            /\ torn' = (torn \/ pos # Len(file) + 1)
            /\ UNCHANGED file
       ELSE /\ file' = <<>> /\ calls' = <<>> /\ flushed' = 0 /\ torn' = FALSE
  /\ UNCHANGED <<writing, nCalls>>

Next ==
  \/ \E m \in Methods : \E c \in CallsOf(m) : OutCall(c)
  \/ OutCallEndMark \/ EmptyBuffer
  \/ Restart \/ ReplayCall \/ ReplayEnds

Spec == Init /\ [][Next]_vars
-----------------------------------------------------------------------------

\* A replay makes calls that ran to their end, with the parameters they had,
\* in their order, and no others: the call during which the program crashed
\* is not repeated.  That is so until a program appends to a torn log.
ReplayFaithful == ~torn => IsPrefix(replayed, calls)

\* When it cannot go on it has made all the calls that were flushed.
ReplayComplete ==
  ~torn /\ pc = "replay" /\ ~GoodRecord(file, pos) => Len(replayed) >= flushed
=============================================================================
