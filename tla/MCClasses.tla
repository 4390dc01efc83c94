------------------------------ MODULE MCClasses -----------------------------
EXTENDS Classes

\* class A { var x; m uses x }, class B : A { var y; n uses y }, and a second
\* declaration of A, a subclass of the first: class A : A { var z; m uses x; n uses z }.
Family == {"A", "B", "A again"}
NamesOf == [d \in Family |-> IF d = "B" THEN "B" ELSE "A"]
Parents == [d \in Family |-> IF d = "A" THEN None ELSE "A"]
Variables == [d \in Family |-> CASE d = "A" -> <<"x">> [] d = "B" -> <<"y">>
                                 [] d = "A again" -> <<"z">>]
AllNames == {"A", "B"}

\* Every method uses a variable that its class declares or inherits.
OwnVariables ==
  [d \in Family |-> CASE d = "A" -> [m |-> "x"] [] d = "B" -> [n |-> "y"]
                      [] d = "A again" -> [m |-> "x", n |-> "z"]]

\* The method of A uses a name that only its subclass declares.
SubclassVariable == [OwnVariables EXCEPT !["A"] = [m |-> "y"]]
=============================================================================
