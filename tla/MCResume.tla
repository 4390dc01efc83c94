------------------------------- MODULE MCResume -----------------------------
(* Instances of Resume: two functions, whose compiled code returns from its *)
(* side exit in different registers.                                        *)
EXTENDS Resume, TLC

CONSTANTS f, g, rax, rcx

Functions == {f, g}
Registers == f :> rax @@ g :> rcx

\* Every body ends with a return statement.
ReturningBodies ==
  f :> <<"work", "method", "closure", "return">> @@ g :> <<"closure", "work", "tail">>

\* The body of g has none.
PlainBodies ==
  f :> <<"work", "method", "return">> @@ g :> <<"method", "work">>
=============================================================================
