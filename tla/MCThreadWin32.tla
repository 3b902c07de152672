--------------------------- MODULE MCThreadWin32 ---------------------------
(* Constants and symmetry for model checking ThreadWin32.                  *)
EXTENDS ThreadWin32

Symmetry == Permutations(Thread \ {Main})
=============================================================================
