------------------------------ MODULE MCContext -----------------------------
(* Instances of TopLevel: two heap cells, and one variable name for deep    *)
(* nesting or two of them for two globals.                                 *)
EXTENDS TopLevel, TLC

CONSTANTS x, y, o1, o2

OneName == {x}
TwoNames == {x, y}
TwoObjects == {o1, o2}
Symmetry == Permutations(TwoObjects)
=============================================================================
