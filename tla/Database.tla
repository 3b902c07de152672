------------------------------ MODULE Database ------------------------------
(***************************************************************************)
(* What SmallDB.i3 promises of a database: a value in memory, changed by   *)
(* updates, of which a restart finds what was recorded.  What was forced   *)
(* to the disk, or put in a snapshot, is found again; of what came later   *)
(* every update is found with all before it, and completely, or not.       *)
(***************************************************************************)
EXTENDS SequencesExt

CONSTANT Updates

VARIABLES
  running,  \* a program has the database
  value,    \* its updates; those a restart would find when no program has it
  safe      \* the updates that cannot be lost any more

vars == <<running, value, safe>>

Init == ~running /\ value = <<>> /\ safe = <<>>

Recover == ~running /\ running' /\ UNCHANGED <<value, safe>>

Update ==
  /\ running /\ UNCHANGED running
  /\ \E u \in Updates : value' = Append(value, u)
  /\ safe' = value' \/ UNCHANGED safe   \* forced, or not

Snapshot == running /\ UNCHANGED <<running, value>> /\ safe' = value

\* An update that is under way may be found, or not.
Crash ==
  /\ running /\ running' = FALSE
  /\ IsPrefix(safe, value')
  /\ \/ IsPrefix(value', value)
     \/ \E u \in Updates : value' = Append(value, u)
  /\ UNCHANGED safe

\* The machine crashes when no program runs.
Lose ==
  /\ ~running /\ UNCHANGED <<running, safe>>
  /\ IsPrefix(safe, value') /\ IsPrefix(value', value)

Next ==
  \/ Recover \/ Update \/ Snapshot \/ Crash \/ Lose

Spec == Init /\ [][Next]_vars
=============================================================================
