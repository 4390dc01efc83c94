--------------------------- MODULE Interpretation ---------------------------
(***************************************************************************)
(* What executing the body of a function means: the interpreter walks its  *)
(* syntax tree, or compiled code does what the walk would do.              *)
(*                                                                         *)
(* A node of the tree is named by its path, the indices that lead to it    *)
(* from the body, and the C++ stack of an execution is the path of the     *)
(* node it is at: at each node on the path a function waits for the child  *)
(* that is next on the path.  Nodes are                                    *)
(*   statements   block (Statements), assign (Assignment, Decl), return,   *)
(*                if and while (condition, block), and every expression;   *)
(*   expressions  value (a variable or a literal), func (a ClosureDecl),   *)
(*                op (left and right operand), closure and method (a Call: *)
(*                the callee or receiver, then the arguments).             *)
(***************************************************************************)
EXTENDS Integers, Sequences, SequencesExt

CONSTANTS
  Bodies,     \* syntax trees: functions from paths to [class, kids]
  Inputs      \* what the calls of a run return; 0 when used up

Leaf == {"value", "func"}
CallNode == {"closure", "method"}
Expressions == Leaf \cup CallNode \cup {"op"}
Classes == Expressions \cup {"block", "assign", "return", "if", "while"}

\* The number of children that a node of a class can have.
HasKids(class, n) ==
  CASE class \in Leaf -> n = 0
    [] class \in {"assign", "return"} -> n = 1
    [] class \in {"if", "while", "op"} -> n = 2
    [] class \in CallNode -> n > 0
    [] class = "block" -> TRUE

\* The classes of its children: a block has statements, an if and a while have
\* a block, and everything else is an expression.
Children(class, i) ==
  CASE class = "block" -> Classes
    [] class \in {"if", "while"} /\ i = 2 -> {"block"}
    [] OTHER -> Expressions

Prefix(p, k) == SubSeq(p, 1, k)

Tree(b) ==
  /\ DOMAIN b \subseteq Seq(Nat)
  /\ <<>> \in DOMAIN b /\ b[<<>>].class = "block"
  /\ \A p \in DOMAIN b :
       /\ b[p].class \in Classes /\ b[p].kids \in Nat /\ HasKids(b[p].class, b[p].kids)
       /\ \A i \in 1..b[p].kids : /\ Append(p, i) \in DOMAIN b
                                 /\ b[Append(p, i)].class \in Children(b[p].class, i)
       /\ \A k \in 1..Len(p) : /\ Prefix(p, k - 1) \in DOMAIN b
                               /\ p[k] \in 1..b[Prefix(p, k - 1)].kids

ASSUME InterpretationAssumption ==
  /\ \A b \in Bodies : Tree(b)
  /\ Inputs \subseteq Seq(Int)

VARIABLES
  body,         \* the function
  input,        \* the results of the calls to come
  at,           \* the path of the node that is executed
  step,         \* "visit": the node is about to be executed; "call": its
                \* arguments are there; "return": it has been executed; "done",
                \* "dead": the whole body has been, an assertion has failed
  lhs,          \* the left operand that each waiting node has, or null
  val,          \* the value of the last expression
  trace,        \* history: the visible effects, in order
  isReturning,  \* fields of the interpreter's context
  retVal

context == <<trace, input, isReturning, retVal>>
vars == <<body, at, step, lhs, val, context>>

Null == -1

Class(p) == body[p].class
Kids(p) == body[p].kids

Init ==
  /\ body \in Bodies
  /\ input \in Inputs
  /\ at = <<>> /\ step = "visit" /\ lhs = <<Null>>
  /\ val = Null /\ trace = <<>>
  /\ isReturning = FALSE /\ retVal = Null

-----------------------------------------------------------------------------
(* Calls of a node's function for a child, and its return to the parent.   *)

Enter(p, i) == at' = Append(p, i) /\ step' = "visit" /\ lhs' = Append(lhs, Null)

Exit(p) == at' = p /\ step' = "return" /\ lhs' = Front(lhs)

Parent == Front(at)
Index == Last(at)

\* A child of a node of one of the classes has been executed.
Back(classes) == step = "return" /\ at # <<>> /\ Class(Parent) \in classes

\* A condition: small integers other than 0.
IsTrue(v) == v # 0 /\ v # Null

-----------------------------------------------------------------------------
(* interpret of statements, evaluate of expressions.                       *)

EvaluateLeaf ==
  /\ step = "visit" /\ Class(at) \in Leaf
  /\ val' = 1 /\ Exit(at)
  /\ UNCHANGED <<body, context>>

Visit ==
  /\ step = "visit" /\ Class(at) \notin Leaf
  /\ IF Kids(at) = 0 THEN Exit(at) ELSE Enter(at, 1)
  /\ UNCHANGED <<body, val, context>>

\* Statements::interpret.
InterpretBlock ==
  /\ Back({"block"})
  /\ IF isReturning \/ Index = Kids(Parent) THEN Exit(Parent) ELSE Enter(Parent, Index + 1)
  /\ UNCHANGED <<body, val, context>>

Assign ==
  /\ Back({"assign"})
  /\ trace' = Append(trace, <<"assign", val>>)
  /\ Exit(Parent)
  /\ UNCHANGED <<body, val, input, isReturning, retVal>>

Return ==
  /\ Back({"return"})
  /\ isReturning' = TRUE /\ retVal' = val
  /\ Exit(Parent)
  /\ UNCHANGED <<body, val, trace, input>>

InterpretIf ==
  /\ Back({"if"})
  /\ IF Index = 1 /\ IsTrue(val) THEN Enter(Parent, 2) ELSE Exit(Parent)
  /\ UNCHANGED <<body, val, context>>

InterpretWhile ==
  /\ Back({"while"})
  /\ CASE Index = 1 /\ IsTrue(val) -> Enter(Parent, 2)
       [] Index = 1 /\ ~IsTrue(val) -> Exit(Parent)
       [] Index = 2 -> IF isReturning THEN Exit(Parent) ELSE Enter(Parent, 1)
  /\ UNCHANGED <<body, val, context>>

\* The left operand is kept while the right one is evaluated.
KeepOperand(v) ==
  /\ at' = Append(Parent, 2) /\ step' = "visit"
  /\ lhs' = Append([lhs EXCEPT ![Len(lhs)] = v], Null)
  /\ UNCHANGED <<body, val, context>>

EvaluateLeft == Back({"op"}) /\ Index = 1 /\ KeepOperand(val)

\* BinOpBase::performOp, on small integers.
PerformOp ==
  /\ Back({"op"}) /\ Index = 2
  /\ trace' = Append(trace, <<"op", Last(lhs), val>>)
  /\ val' = (Last(lhs) + val) % 2
  /\ Exit(Parent)
  /\ UNCHANGED <<body, input, isReturning, retVal>>

\* Call::do_call asserts that there is an object to call, and evaluates the
\* arguments; their values are in its array.  (In compiled code the null receiver of
\* a method fails the guard, and the assertion fails after the side exit.)
Arguments ==
  /\ Back(CallNode)
  /\ CASE Index = 1 /\ val = Null -> step' = "dead" /\ UNCHANGED <<at, lhs, val>>
       [] ~(Index = 1 /\ val = Null) /\ Index < Kids(Parent) ->
            Enter(Parent, Index + 1) /\ UNCHANGED val
       [] ~(Index = 1 /\ val = Null) /\ Index = Kids(Parent) ->
            at' = Parent /\ step' = "call" /\ val' = Null /\ UNCHANGED lhs
  /\ UNCHANGED <<body, context>>

\* The call runs and returns the next input.
Invoke ==
  /\ step = "call"
  /\ trace' = Append(trace, <<Class(at)>>)
  /\ val' = IF input = <<>> THEN 0 ELSE Head(input)
  /\ input' = IF input = <<>> THEN <<>> ELSE Tail(input)
  /\ Exit(at)
  /\ UNCHANGED <<body, isReturning, retVal>>

Execute ==
  \/ EvaluateLeaf \/ Visit
  \/ InterpretBlock \/ Assign \/ Return \/ InterpretIf \/ InterpretWhile
  \/ EvaluateLeft \/ PerformOp \/ Arguments \/ Invoke

\* The function returns, and with it the returning ends.
Finish ==
  /\ step = "return" /\ at = <<>>
  /\ step' = "done" /\ isReturning' = FALSE
  /\ UNCHANGED <<body, at, lhs, val, trace, input, retVal>>

Next == Execute \/ Finish

Spec == Init /\ [][Next]_vars
=============================================================================
