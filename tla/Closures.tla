------------------------------ MODULE Closures ------------------------------
(***************************************************************************)
(* Closure binding.  A closure expression copies the variables its body    *)
(* takes from the enclosing function into the closure object; the body     *)
(* reads and writes the copies.  Which variables are copied is decided     *)
(* once per declaration (check, collectVarUses); they are copied by the    *)
(* interpreter (evaluateExpr) or by compiled code (compileExpression).     *)
(*                                                                         *)
(* A body is a sequence of statements, each with the names its expressions *)
(* mention; "decl" statements also declare a local variable.               *)
(***************************************************************************)
EXTENDS Naturals, Sequences

CONSTANTS
  Names,       \* the names of variables
  Enumerate,   \* the order in which a std::unordered_set holds a set of names
  Decls,       \* the ClosureDecl nodes of the enclosing function
  Name,        \* the name of each
  Params,      \* its parameters
  Body,        \* its statements: [kind, name, uses]
  Values,      \* values of variables
  None,        \* null
  MaxClosures  \* bound: closures created

VARIABLES
  table,     \* the enclosing function's variables
  boundVars, \* the bound-variable array of each closure object
  decl,      \* the AST pointer of each
  damaged,   \* the objects overwritten from the end of another one
  origin     \* history: what each name stood for when the closure was created,
             \* and what the body has assigned since

vars == <<table, boundVars, decl, damaged, origin>>

-----------------------------------------------------------------------------
\* Statement::collectVarUses, over all statements: Decl adds its name and does
\* not look at its initialiser; all the others add what they mention.
Declared(d) == {Body[d][i].name : i \in {j \in DOMAIN Body[d] : Body[d][j].kind = "decl"}}
Used(d) == UNION {Body[d][i].uses : i \in {j \in DOMAIN Body[d] : Body[d][j].kind = "other"}}

\* ClosureDecl::check: the bound variables, in the order in which every loop
\* over them runs.
Bound(d) == (Used(d) \ Params[d]) \ Declared(d)
check(d) == Enumerate[Bound(d)]

\* Slot of a bound variable, for interpretClosure and compileClosure alike.
SlotOf(d, n) == CHOOSE i \in DOMAIN check(d) : check(d)[i] = n

Init ==
  /\ table = [n \in Names |-> None]
  /\ boundVars = <<>>
  /\ decl = <<>>
  /\ damaged = {}
  /\ origin = <<>>

\* The enclosing function assigns a variable.
Assign(n, v) ==
  /\ table' = [table EXCEPT ![n] = v]
  /\ UNCHANGED <<boundVars, decl, damaged, origin>>

\* A pointer to a closure object is its number.
This == Len(boundVars) + 1

Create(d, slots) ==
  /\ This <= MaxClosures
  /\ boundVars' = Append(boundVars, slots)
  /\ decl' = Append(decl, d)
  /\ table' = [table EXCEPT ![Name[d]] = This]
  /\ origin' = Append(origin, table')

\* The loop of evaluateExpr advances its index twice for each variable, so that
\* each is copied into two slots in a row.
Written(d, symbols) == [k \in 1..(2 * Len(check(d))) |-> symbols[check(d)[(k + 1) \div 2]]]

\* Writes past the end of an object, if there are any, go to memory that is not
\* in use or to some object there is: the allocator decides.
Overflow(n) ==
  \E hit \in SUBSET DOMAIN boundVars :
    /\ n = 0 => hit = {}
    /\ damaged' = damaged \cup hit

\* ClosureDecl::evaluateExpr: the closure is allocated with one slot for each
\* bound variable and stored under its name; then the loop copies the variables.
evaluateExpr(d) ==
  LET written == Written(d, [table EXCEPT ![Name[d]] = This])
      size == Len(check(d))
  IN /\ Create(d, SubSeq(written, 1, size))
     /\ Overflow(Len(written) - size)

\* ClosureDecl::compileExpression: each bound variable is copied into its slot,
\* then the closure is stored under its name.
compileExpression(d) ==
  /\ Create(d, [k \in 1..Len(check(d)) |-> table[check(d)[k]]])
  /\ UNCHANGED damaged

\* The body of closure c, in either tier, assigns a bound variable.  (What a
\* call of a damaged object does is not modelled.)
WriteBound(c, n, v) ==
  /\ c \notin damaged
  /\ n \in Bound(decl[c])
  /\ boundVars' = [boundVars EXCEPT ![c][SlotOf(decl[c], n)] = v]
  /\ origin' = [origin EXCEPT ![c][n] = v]
  /\ UNCHANGED <<table, decl, damaged>>

Next ==
  \/ \E n \in Names, v \in Values : Assign(n, v)
  \/ \E d \in Decls : evaluateExpr(d) \/ compileExpression(d)
  \/ \E c \in DOMAIN boundVars, n \in Names, v \in Values : WriteBound(c, n, v)

Spec == Init /\ [][Next]_vars

-----------------------------------------------------------------------------
(* Properties.                                                             *)

\* Values are bound to a closure when it is created: whatever the enclosing
\* function, other closures and this one's body assign or create, in either
\* tier, every name the body takes from outside has the value it had then or
\* what this body put there.  The code does not keep it: evaluateExpr shifts
\* all variables but the first and writes past the end of the object, and
\* compileExpression copies the closure's own name before storing it.
BoundWhenCreated ==
  \A c \in DOMAIN boundVars :
    /\ c \notin damaged
    /\ \A n \in Bound(decl[c]) : boundVars[c][SlotOf(decl[c], n)] = origin[c][n]
=============================================================================
