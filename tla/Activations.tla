----------------------------- MODULE Activations ----------------------------
(***************************************************************************)
(* What calling a function means, whoever executes it: an activation runs  *)
(* its statements in order, each once, and ends with the value of its      *)
(* return statement, or with null when it has none.  Interpreting,         *)
(* compiling and side-exiting must not be visible here.                    *)
(***************************************************************************)
EXTENDS Naturals, Sequences

CONSTANTS
  Decls,      \* functions
  Body,       \* the statements of each function
  None,       \* null
  MaxDepth    \* bound: depth of the call stack

\* work: no call; closure, method: the statement calls one; tail: it returns
\* what the called method returns; return: it returns a value of its own.
Statement == {"work", "closure", "method", "tail", "return"}
Calling == {"closure", "method", "tail"}
Returning == {"tail", "return"}

VARIABLES
  stack,      \* activations, the innermost one last
  result      \* the value the last call or activation produced

vars == <<stack, result>>

Top == stack[Len(stack)]

Finished(f) ==
  \/ f.done = Len(Body[f.decl])
  \/ f.done > 0 /\ Body[f.decl][f.done] \in Returning

At(kinds) ==
  stack # <<>> /\ ~Finished(Top) /\ Body[Top.decl][Top.done + 1] \in kinds

Replace(f) == stack' = [stack EXCEPT ![Len(stack)] = f]

\* f after its next statement, a call that produced r.
Called(f, r) ==
  [f EXCEPT !.done = @ + 1,
            !.value = IF Body[f.decl][f.done + 1] = "tail" THEN r ELSE @]

Init == stack = <<>> /\ result = None

Work == /\ At({"work"})
        /\ Replace([Top EXCEPT !.done = @ + 1])
        /\ UNCHANGED result

Return == /\ At({"return"})
          /\ Replace([Top EXCEPT !.done = @ + 1, !.value = Top.decl])
          /\ UNCHANGED result

\* Call a function of the program, or one that is not modelled.
Call(d) == /\ stack = <<>> \/ At(Calling)
           /\ Len(stack) < MaxDepth
           /\ stack' = Append(stack, [decl |-> d, done |-> 0, value |-> None])
           /\ UNCHANGED result

CallOther == /\ At(Calling)
             /\ Replace(Called(Top, None))
             /\ result' = None

Leave ==
  /\ stack # <<>> /\ Finished(Top)
  /\ result' = Top.value
  /\ LET below == SubSeq(stack, 1, Len(stack) - 1)
     IN stack' = IF below = <<>> THEN <<>>
                 ELSE [below EXCEPT ![Len(below)] = Called(@, Top.value)]

Next == Work \/ Return \/ CallOther \/ Leave \/ \E d \in Decls : Call(d)

Spec == Init /\ [][Next]_vars
=============================================================================
