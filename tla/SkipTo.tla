------------------------------- MODULE SkipTo -------------------------------
(***************************************************************************)
(* Where the interpreter resumes.  Compiled code leaves a function at a    *)
(* method call; skip_to walks the function's syntax tree from the root,    *)
(* executing nothing until it meets the call, and interprets the rest.     *)
(* A function on the C++ stack "runs" (interpret, evaluate, or the code    *)
(* compiled for them) or "searches" (skip_to, expr_skip_to).               *)
(***************************************************************************)
EXTENDS Interpretation

VARIABLES
  by,           \* what each waiting node's function, and the current one, does
  astNodeFound, \* field of the interpreter's context
  node,         \* the argument ast_node
  phase,        \* "compiled", "left", "resumed"
  caughtUp      \* history: the call at which the code was left has been made

walk == <<by, astNodeFound, node, phase, caughtUp>>
skipVars == <<vars, walk>>

SkipInit ==
  /\ Init
  /\ by = <<"runs">> /\ astNodeFound = FALSE /\ node = <<>>
  /\ phase = "compiled" /\ caughtUp = TRUE

\* What runs calls what runs.
SameFunctions ==
  by' = CASE Len(lhs') > Len(lhs) -> Append(by, "runs")
          [] Len(lhs') < Len(lhs) -> Front(by)
          [] Len(lhs') = Len(lhs) -> by

\* A step of compiled code, or of interpret and evaluate after a side exit.
Run ==
  /\ phase \in {"compiled", "resumed"}
  /\ by # <<>> /\ Last(by) = "runs"
  /\ Execute
  /\ SameFunctions
  /\ caughtUp' = (caughtUp \/ (step = "call" /\ at = node))
  /\ UNCHANGED <<astNodeFound, node, phase>>

\* The guard of a method call fails, with the arguments evaluated.
GuardFails ==
  /\ phase = "compiled" /\ step = "call" /\ Class(at) = "method"
  /\ phase' = "left" /\ node' = at /\ caughtUp' = FALSE
  /\ UNCHANGED <<vars, by, astNodeFound>>

\* resumeInInterpreter calls skip_to of the body.
ResumeInInterpreter ==
  /\ phase = "left"
  /\ phase' = "resumed"
  /\ at' = <<>> /\ step' = "visit" /\ lhs' = <<Null>> /\ by' = <<"searches">> /\ val' = Null
  /\ UNCHANGED <<body, context, astNodeFound, node, caughtUp>>

\* The end of the function, or of resumeInInterpreter, which clears the flags.
EndOfBody ==
  /\ phase \in {"compiled", "resumed"}
  /\ Finish
  /\ astNodeFound' = FALSE
  /\ UNCHANGED <<by, node, phase, caughtUp>>

-----------------------------------------------------------------------------
(* skip_to of statements, expr_skip_to of expressions.                     *)

Searches ==
  /\ phase = "resumed" /\ by # <<>> /\ Last(by) = "searches"
  /\ UNCHANGED <<body, node, phase, caughtUp>>

\* Once the node has been found, children are interpreted.
Descend(p, i) == Enter(p, i) /\ by' = Append(by, IF astNodeFound THEN "runs" ELSE "searches")

Ascend(p) == Exit(p) /\ by' = Front(by)

\* Variables and literals are evaluated anyway; in the body of a ClosureDecl
\* there is nothing to find.
SkipLeaf ==
  /\ Searches /\ step = "visit" /\ Class(at) \in Leaf
  /\ val' = IF Class(at) = "value" THEN 1 ELSE Null
  /\ Ascend(at)
  /\ UNCHANGED <<context, astNodeFound>>

SkipVisit ==
  /\ Searches /\ step = "visit" /\ Class(at) \notin Leaf
  /\ IF Kids(at) = 0 THEN Ascend(at) ELSE Descend(at, 1)
  /\ UNCHANGED <<val, context, astNodeFound>>

\* Statements::skip_to.
SkipBlock ==
  /\ Searches /\ Back({"block"})
  /\ IF isReturning \/ Index = Kids(Parent) THEN Ascend(Parent) ELSE Descend(Parent, Index + 1)
  /\ UNCHANGED <<val, context, astNodeFound>>

\* Assignment, Decl and Return have their effect when the node was in the
\* expression.
SkipAssign ==
  /\ Searches /\ Back({"assign"})
  /\ IF astNodeFound THEN Assign ELSE Exit(Parent) /\ UNCHANGED <<val, context>>
  /\ by' = Front(by) /\ UNCHANGED astNodeFound

SkipReturn ==
  /\ Searches /\ Back({"return"})
  /\ IF astNodeFound THEN Return ELSE Exit(Parent) /\ UNCHANGED <<val, context>>
  /\ by' = Front(by) /\ UNCHANGED astNodeFound

\* Mutant: only the body of a condition that was evaluated is entered.
SkipConditionNoBody ==
  /\ Searches /\ Back({"if", "while"}) /\ Index = 1
  /\ IF astNodeFound /\ IsTrue(val) THEN Enter(Parent, 2) /\ by' = Append(by, "runs")
     ELSE Ascend(Parent)
  /\ UNCHANGED <<val, context, astNodeFound>>

\* When the node is in the condition and the condition is true, the body is
\* interpreted; in every other case the body is searched.
SkipCondition ==
  /\ Searches /\ Back({"if", "while"}) /\ Index = 1
  /\ Enter(Parent, 2)
  /\ by' = Append(by, IF astNodeFound /\ IsTrue(val) THEN "runs" ELSE "searches")
  /\ UNCHANGED <<val, context, astNodeFound>>

SkipIf ==
  /\ Searches /\ Back({"if"}) /\ Index = 2
  /\ Ascend(Parent)
  /\ UNCHANGED <<val, context, astNodeFound>>

\* Mutant: the loop ends with the iteration that has the node.
SkipWhileOnce ==
  /\ Searches /\ Back({"while"}) /\ Index = 2
  /\ Ascend(Parent)
  /\ UNCHANGED <<val, context, astNodeFound>>

\* A loop whose body has the node continues as WhileLoop::interpret.
SkipWhile ==
  /\ Searches /\ Back({"while"}) /\ Index = 2
  /\ IF astNodeFound /\ ~isReturning
     THEN Enter(Parent, 1) /\ by' = Append(Front(by), "runs") \o <<"runs">>
     ELSE Ascend(Parent)
  /\ UNCHANGED <<val, context, astNodeFound>>

\* BinOpBase::expr_skip_to: a left operand that the code evaluated is lost.
SkipLeft ==
  /\ Searches /\ Back({"op"}) /\ Index = 1
  /\ KeepOperand(IF astNodeFound THEN val ELSE Null)
  /\ by' = Append(by, IF astNodeFound THEN "runs" ELSE "searches")
  /\ UNCHANGED astNodeFound

SkipOp ==
  /\ Searches /\ Back({"op"}) /\ Index = 2
  /\ IF astNodeFound THEN PerformOp ELSE Exit(Parent) /\ val' = Null /\ UNCHANGED context
  /\ by' = Front(by) /\ UNCHANGED astNodeFound

\* Call::expr_skip_to: the callee is searched, the arguments are not; the node
\* is met here, and do_call goes on as ever.
SkipCall ==
  /\ Searches /\ Back(CallNode)
  /\ IF astNodeFound \/ Parent = node
     THEN /\ astNodeFound' = TRUE
          /\ Arguments
          /\ by' = Append(Front(by), "runs") \o (IF Len(lhs') > Len(lhs) THEN <<"runs">> ELSE <<>>)
     ELSE /\ Ascend(Parent) /\ val' = Null
          /\ UNCHANGED <<context, astNodeFound>>

Skip ==
  \/ SkipLeaf \/ SkipVisit \/ SkipBlock \/ SkipAssign \/ SkipReturn
  \/ SkipCondition \/ SkipIf \/ SkipWhile \/ SkipLeft \/ SkipOp \/ SkipCall

SkipNext == Run \/ GuardFails \/ ResumeInInterpreter \/ Skip \/ EndOfBody

SkipSpec == SkipInit /\ [][SkipNext]_skipVars

-----------------------------------------------------------------------------
(* Properties.                                                             *)

\* A method call at which the code can be left: on the way to it there are no
\* conditions, right operands and arguments, and its own receiver and
\* arguments are variables or literals.
Resumable(p) ==
  /\ \A k \in 1..Len(p) :
       CASE Class(Prefix(p, k - 1)) \in {"if", "while"} -> p[k] = 2
         [] Class(Prefix(p, k - 1)) \in {"op"} \cup CallNode -> p[k] = 1
         [] OTHER -> TRUE
  /\ \A i \in 1..Kids(p) : Class(Append(p, i)) = "value"

Supported == \A p \in DOMAIN body : Class(p) = "method" => Resumable(p)

\* While the call at which the code was left has not been made again, the
\* function is seen where it was left: it has its arguments and no operands.
SeenAt == IF caughtUp THEN at ELSE node
SeenStep == IF caughtUp THEN step ELSE "call"
SeenLhs == IF caughtUp THEN lhs ELSE [k \in 1..(Len(node) + 1) |-> Null]
SeenVal == IF caughtUp THEN val ELSE Null

Reference == INSTANCE Interpretation WITH
  at <- SeenAt, step <- SeenStep, lhs <- SeenLhs, val <- SeenVal

\* Leaving a function at a method call and resuming it in the interpreter is
\* invisible: the search for the node has no effects, and what is executed before
\* and after it are the steps of one interpretation from the start, in order.
ResumptionMatchesInterpretation ==
  Reference!Init /\ [][Supported => Reference!Next]_(Reference!vars)

\* The search meets the method call the code was left at.
NodeIsFound == Supported /\ step = "done" => caughtUp
=============================================================================
