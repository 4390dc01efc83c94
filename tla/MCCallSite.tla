----------------------------- MODULE MCCallSite -----------------------------
(* Instances of CallSite: two user classes with their own methods, a class  *)
(* that inherits the method of one of them, and small integers.             *)
EXTENDS CallSite, TLC

CONSTANTS A, B, AChild, SmallInt, mA, mB, mInt

AllClasses == {A, B, AChild, SmallInt}
AllMethods == {mA, mB, mInt}
LookupAll == A :> mA @@ B :> mB @@ AChild :> mA @@ SmallInt :> mInt
=============================================================================
