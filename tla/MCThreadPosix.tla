--------------------------- MODULE MCThreadPosix ---------------------------
(* Constants and symmetry for model checking ThreadPosix.                  *)
EXTENDS ThreadPosix

Symmetry == Permutations(Thread \ {Main})
=============================================================================
