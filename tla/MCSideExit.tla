----------------------------- MODULE MCSideExit -----------------------------
(* An instance of SideExit: all bodies up to a size in a function without   *)
(* variables, and one body in functions of all shapes.                      *)
EXTENDS SideExit

\* A node with its subtrees; a tree maps paths to nodes.
Over(class, subtrees) ==
  LET below == UNION {{<<i>> \o p : p \in DOMAIN subtrees[i]} : i \in DOMAIN subtrees}
  IN [p \in {<<>>} \cup below |->
        IF p = <<>> THEN [class |-> class, kids |-> Len(subtrees)] ELSE subtrees[p[1]][Tail(p)]]

Value == Over("value", <<>>)
ClosureCall == Over("closure", <<Value>>)
MethodCall == Over("method", <<Value>>)
Block(statements) == Over("block", statements)

\* What the first three calls return.
Bits == [1..3 -> {0, 1}]

Before == {<<>>, <<Over("assign", <<ClosureCall>>)>>}
After == Before \cup {<<Over("return", <<ClosureCall>>)>>}

Around(statements) ==
  {b \o <<st>> \o a : b \in Before, st \in statements, a \in After}

Simple(calls) == {Over(k, <<e>>) : k \in {"assign", "return"}, e \in calls}

Nest(blocks) == {Over(k, <<ClosureCall, Block(b)>>) : k \in {"if", "while"}, b \in blocks}

\* The method call is a statement, a whole expression, a left operand or a
\* callee, in the body, in an if or a while, or in one inside another.
SupportedBodies ==
  LET calls == {MethodCall, Over("op", <<MethodCall, ClosureCall>>)}
      chain == {Over("closure", <<Over("method", <<Value, Value>>)>>), MethodCall}
  IN {Block(b) : b \in Around(Simple(calls) \cup chain) \cup Around(Nest(Around(Simple(calls))))}
       \cup {Block(<<st>>) : st \in Nest(Around(Nest(Around(Simple({MethodCall})))))}

\* It is, or is in, the condition of an if or a while.
ConditionBodies ==
  {Block(b) : b \in Around({Over(k, <<MethodCall, Block(c)>>) : k \in {"if", "while"}, c \in Before})}

\* It is an argument, a right operand, or called on what a call returned; the
\* value of a call is a closure, and there is an empty body.
OtherBodies ==
  {Block(<<Over("assign", <<e>>)>>) :
     e \in {Over("closure", <<Value, MethodCall>>), Over("op", <<ClosureCall, MethodCall>>),
            Over("method", <<ClosureCall>>), Over("op", <<Over("func", <<>>), ClosureCall>>),
            Over("closure", <<Over("func", <<>>), MethodCall>>)}}
    \cup {Block(<<>>)}

-----------------------------------------------------------------------------
Function(kind, params, decls, bound, ivars, calls) ==
  [kind |-> kind, params |-> params, decls |-> decls, bound |-> bound,
   ivars |-> ivars, calls |-> calls]

NoVariables == Function("closure", <<>>, <<>>, <<>>, <<>>, 1)
TwoCalls == Function("closure", <<>>, <<>>, <<>>, <<>>, 2)

\* Parameters, locals, bound and instance variables that hide each other; a
\* variable called cmd; a global in a method; more variables than registers.
Shapes ==
  {Function("closure", <<"a">>, <<"x">>, b, <<>>, 1) : b \in {<<>>, <<"g">>, <<"x", "g">>}}
    \cup {Function("method", p, <<"x">>, <<>>, i, 1) :
            p \in {<<>>, <<"a", "b">>, <<"x">>, <<"a", "a">>}, i \in {<<>>, <<"i">>, <<"x", "a">>}}
    \cup {Function("closure", <<"cmd">>, <<>>, <<"self">>, <<>>, 1),
          Function("method", <<>>, <<>>, <<"g">>, <<>>, 1),
          Function("closure", <<"a", "b", "c", "d", "e", "f">>, <<"x", "y", "z">>,
                   <<"g", "h", "k">>, <<>>, 1)}

\* The method call is the whole of an assignment, once or twice.
Calls(n) == Block([i \in 1..n |-> Over("assign", <<MethodCall>>)])

Unsupported == ConditionBodies \cup OtherBodies
BodiesOfRun == SupportedBodies \cup Unsupported \cup {Calls(1), Calls(2)}
FunctionsOfRun == {NoVariables, TwoCalls} \cup Shapes

Ones == [i \in 1..3 |-> 1]
InputsOfRun == Bits \cup {<<-1>>}

CasesOfRun ==
  (SupportedBodies \X {NoVariables} \X Bits) \cup (Unsupported \X {NoVariables} \X InputsOfRun)
    \cup ({Calls(1)} \X Shapes \X {Ones}) \cup {<<Calls(2), TwoCalls, Ones>>}

\* The registers LLVM may use (r11 holds the address of the trampoline), in two
\* orders, starting anywhere.
Order == <<"rax", "rcx", "rdx", "rbx", "rsi", "rdi", "r8", "r9", "r10", "r12", "r13", "r14", "r15">>
AllocatableOfRun == {Order[i] : i \in 1..13}

Rotations(n) ==
  IF n > 13 THEN {}
  ELSE {[i \in 1..(n + 1) |-> Order[1 + ((k + s * i) % 13)]] : k \in 13..25, s \in {1, -1}}
         \cup {[i \in 1..(n + 1) |-> Order[1 + (IF i = 1 THEN k ELSE i % 13)]] : k \in 0..12}

PlacementsOfRun(n) == IF n = 3 THEN {CHOOSE p \in Rotations(n) : TRUE} ELSE Rotations(n)
=============================================================================
