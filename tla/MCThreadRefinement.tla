------------------------- MODULE MCThreadRefinement -------------------------
(* Constants and symmetry for model checking ThreadRefinement.             *)
EXTENDS ThreadRefinement

Symmetry == Permutations(Thread \ {Main})
=============================================================================
