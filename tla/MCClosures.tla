----------------------------- MODULE MCClosures -----------------------------
EXTENDS Closures, TLC

CONSTANTS v1, v2

Statement(uses) == [kind |-> "other", name |-> "", uses |-> uses]
DeclStatement(n, uses) == [kind |-> "decl", name |-> n, uses |-> uses]

\* Two closures of one function, with a parameter and a local variable that
\* hide variables of it:
\*   func f(y) { x = y; f(y); }            binds f and x
\*   func g() { var f = x; x = y; y = f; } binds x and y
AllNames == {"f", "x", "y", "g"}
InThisOrder == [S \in SUBSET AllNames |-> SelectSeq(<<"f", "x", "y", "g">>, LAMBDA n : n \in S)]
Functions == {"recursive", "several"}
NamesOf == [d \in Functions |-> IF d = "recursive" THEN "f" ELSE "g"]
ParamsOf == [d \in Functions |-> IF d = "recursive" THEN {"y"} ELSE {}]
Bodies ==
  [d \in Functions |->
    IF d = "recursive"
    THEN <<Statement({"x", "y"}), Statement({"f", "y"})>>
    ELSE <<DeclStatement("f", {"x"}), Statement({"x", "y"}), Statement({"y", "f"})>>]

TwoValues == {v1, v2}
ValuesAlike == Permutations(TwoValues)
=============================================================================
