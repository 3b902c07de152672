---------------------------- MODULE MCStableLog -----------------------------
(* Two update methods, one with two parameters and one without.  Clients   *)
(* pass ordinary values, or values that look like the marks.               *)
EXTENDS StableLog

MCArity == [m \in 0 .. 1 |-> IF m = 0 THEN 2 ELSE 0]
MCArgs == {7, CallMark, EndCallMark}
=============================================================================
