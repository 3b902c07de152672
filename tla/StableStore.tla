---------------------------- MODULE StableStore -----------------------------
(***************************************************************************)
(* What Stable.ig promises of a stable object: an object in memory, and a  *)
(* stable state that a later program finds.  An update changes the object; *)
(* a flush of the log or a checkpoint makes its state stable; a crash      *)
(* loses the object, and init brings it back as the stable state has it.   *)
(***************************************************************************)
EXTENDS Naturals, SequencesExt

VARIABLES
  running,  \* a program has the object
  value,    \* the updates applied to the object
  exists,   \* there is a stable state
  stable,   \* the updates the stable state includes
  safe      \* the updates the client was promised

vars == <<running, value, exists, stable, safe>>

Init ==
  /\ ~running /\ ~exists
  /\ value = <<>> /\ stable = <<>> /\ safe = <<>>

\* The object is not stable yet, or is again not stable.
Start ==
  /\ ~running /\ ~exists
  /\ running' = TRUE
  /\ UNCHANGED <<value, exists, stable, safe>>

\* The stable state is made, or made anew, from the object.
Save ==
  /\ running
  /\ exists' = TRUE /\ stable' = value /\ safe' = value
  /\ UNCHANGED <<running, value>>

Update(forced) ==
  /\ running
  /\ value' # <<>> /\ value' = Append(value, Last(value'))
  /\ IF exists /\ forced THEN stable' = value' /\ safe' = value'
     ELSE UNCHANGED <<stable, safe>>
  /\ UNCHANGED <<running, exists>>

\* The buffer of the log's writer runs over.
Spill ==
  /\ running /\ exists
  /\ IsPrefix(stable, stable') /\ IsPrefix(stable', value)
  /\ UNCHANGED <<running, value, exists, safe>>

Dispose ==
  /\ running /\ exists
  /\ exists' = FALSE /\ stable' = <<>> /\ safe' = <<>>
  /\ UNCHANGED <<running, value>>

Crash ==
  /\ running
  /\ running' = FALSE /\ value' = <<>>
  /\ UNCHANGED <<exists, stable, safe>>

Recover ==
  /\ ~running /\ exists
  /\ running' = TRUE /\ value' = stable /\ safe' = stable
  /\ UNCHANGED <<exists, stable>>

Next ==
  \/ Start \/ Save \/ Spill \/ Dispose \/ Crash \/ Recover
  \/ Update(TRUE) \/ Update(FALSE)

Spec == Init /\ [][Next]_vars
=============================================================================
