---------------------------- MODULE RemoteObject ----------------------------
(***************************************************************************)
(* What network objects promise of an object and of those who count on it: *)
(* the programs that have a surrogate, and the owner's own calls that pass *)
(* a reference.  While anybody counts on it the object keeps its name and  *)
(* stays in its owner's table; a name that is given up never comes back.   *)
(***************************************************************************)
EXTENDS Naturals

CONSTANT User

VARIABLES
  name,    \* the object's name in the owner's table, 0 for none
  names,   \* how many names it has had
  users    \* who counts on it, and under which name

vars == <<name, names, users>>

Init == name = 0 /\ names = 0 /\ users = {}

\* Somebody gets a reference, and the object a name if it had none.
Join(u) ==
  /\ \/ name # 0 /\ UNCHANGED <<name, names>>
     \/ name = 0 /\ names' = names + 1 /\ name' = names'
  /\ users' = users \cup {<<u, name'>>}

\* Nobody counts on it: the owner may let it go.
LetGo == users' = {} /\ name' = 0

Leave(u) ==
  /\ users' = users \ {u}
  /\ UNCHANGED name \/ LetGo
  /\ UNCHANGED names

Withdraw == UNCHANGED <<users, names>> /\ LetGo

Next ==
  \/ \E u \in User : Join(u)
  \/ \E u \in users : Leave(u)
  \/ Withdraw

Spec == Init /\ [][Next]_vars
=============================================================================
