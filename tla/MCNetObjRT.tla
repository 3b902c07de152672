----------------------------- MODULE MCNetObjRT -----------------------------
(* Constants for model checking NetObjRT.                                  *)
EXTENDS NetObjRT

CONSTANTS a, b, O

MCClient == {a, b}
JustB == {b}
Nobody == {}

\* The owner sends references to a, which sends its own on to b.
Chain == {<<O, a>>, <<a, b>>}
\* b gets references from two sides.
Diamond == {<<O, a>>, <<O, b>>, <<a, b>>}

\* a may find the object twice, b once.
TwiceOnce == [c \in MCClient |-> IF c = a THEN 3 ELSE 1]
OnceEach == [c \in MCClient |-> 1]
=============================================================================
