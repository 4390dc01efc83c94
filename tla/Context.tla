------------------------------ MODULE Context -------------------------------
(***************************************************************************)
(* Interpreter::Context: the stack of symbol tables, the storage of global *)
(* variables, the value being returned, and what of it the garbage         *)
(* collector sees.  A global lives in a Value, outside the collector's     *)
(* view; the Value keeps a copy in a buffer the collector scans (holder).  *)
(*                                                                         *)
(* Objects hold no references here: reachability is reachability from the  *)
(* roots.                                                                  *)
(***************************************************************************)
EXTENDS Naturals, Sequences, FiniteSets

CONSTANTS
  Names,       \* variable names
  Objects,     \* heap cells
  SmallInt,    \* a small integer, which is no cell
  None,        \* null
  Unbound,     \* not a value
  TopReturn,   \* the program has return statements outside functions
  MaxDepth     \* bound: nested calls

ASSUME ContextAssumption ==
  /\ {SmallInt, None, Unbound} \cap Objects = {}
  /\ Cardinality({SmallInt, None, Unbound}) = 3
  /\ TopReturn \in BOOLEAN
  /\ MaxDepth \in Nat

VARIABLES
  globals,     \* the object field of each global's Value
  holder,      \* what the holder buffer of each global contains
  symbols,     \* local symbol tables, the current one last
  retVal,      \* Context::retVal, object field
  retHolder,   \* and its holder buffer
  isReturning, \* no more statements are executed until the function is left
  operand,     \* the value being computed, on the machine stack
  heap,        \* the cells in use
  assigned     \* history: the globals stored to since they were created

vars == <<globals, holder, symbols, retVal, retHolder, isReturning, operand, heap, assigned>>

Values == Objects \cup {SmallInt, None}
Table == UNION {[dom -> Values] : dom \in SUBSET Names}

TypeOK ==
  /\ globals \in [Names -> Values \cup {Unbound}]
  /\ holder \in [Names -> Objects \cup {None}]
  /\ symbols \in Seq(Table)
  /\ retVal \in Values
  /\ retHolder \in Objects \cup {None}
  /\ isReturning \in BOOLEAN
  /\ operand \in Values
  /\ heap \subseteq Objects
  /\ assigned \subseteq Names

Init ==
  /\ globals = [n \in Names |-> Unbound]
  /\ holder = [n \in Names |-> None]
  /\ symbols = <<>>
  /\ retVal = None
  /\ retHolder = None
  /\ isReturning = FALSE
  /\ operand = None
  /\ heap = {}
  /\ assigned = {}

-----------------------------------------------------------------------------
needsGC(v) == v \in Objects

\* Mutant: a Value that already holds an object does not update its buffer.
HolderKept(object, buffer, v) ==
  CASE needsGC(object) /\ ~needsGC(v) -> None
    [] ~needsGC(object) /\ needsGC(v) -> v
    [] needsGC(object) /\ needsGC(v) -> buffer
    [] ~needsGC(object) /\ ~needsGC(v) -> buffer

\* Mutant: a Value that holds no object yet does not allocate a buffer.
HolderNotAllocated(object, buffer, v) ==
  CASE needsGC(object) /\ ~needsGC(v) -> None
    [] ~needsGC(object) /\ needsGC(v) -> buffer
    [] needsGC(object) /\ needsGC(v) -> v
    [] ~needsGC(object) /\ ~needsGC(v) -> buffer

\* Mutant: the buffer takes whatever the Value is set to.
HolderOfAnything(object, buffer, v) == v

\* Value::set: the buffer of a Value, with these contents, that is set to v.
HolderAfterSet(object, buffer, v) ==
  CASE needsGC(object) /\ ~needsGC(v) -> None
    [] ~needsGC(object) /\ needsGC(v) -> v
    [] needsGC(object) /\ needsGC(v) -> v
    [] ~needsGC(object) /\ ~needsGC(v) -> buffer

\* The table lookupSymbol finds n in: 0 is the global one.  Only the top local
\* table is searched.
TableOf(n) ==
  IF symbols # <<>> /\ n \in DOMAIN symbols[Len(symbols)] THEN Len(symbols) ELSE 0

lookupSymbol(n) == IF TableOf(n) = 0 THEN globals[n] ELSE symbols[TableOf(n)][n]

\* Statements::interpret executes a statement unless isReturning is set; its
\* expressions are evaluated by the following actions.

\* An expression allocates an object ...
Allocate(o) ==
  /\ ~isReturning
  /\ o \notin heap
  /\ heap' = heap \cup {o}
  /\ operand' = o
  /\ UNCHANGED <<globals, holder, symbols, retVal, retHolder, isReturning, assigned>>

\* ... computes a number or null ...
Constant(v) ==
  /\ ~isReturning
  /\ operand' = v
  /\ UNCHANGED <<globals, holder, symbols, retVal, retHolder, isReturning, heap, assigned>>

\* ... or is a variable (VarRef::evaluateExpr; null when it is not defined).
Load(n) ==
  /\ ~isReturning
  /\ operand' = IF lookupSymbol(n) = Unbound THEN None ELSE lookupSymbol(n)
  /\ UNCHANGED <<globals, holder, symbols, retVal, retHolder, isReturning, heap, assigned>>

\* Context::setSymbol(name, Obj) for a local variable,
SetLocal(n) ==
  /\ ~isReturning
  /\ TableOf(n) > 0
  /\ symbols' = [symbols EXCEPT ![TableOf(n)][n] = operand]
  /\ UNCHANGED <<globals, holder, retVal, retHolder, isReturning, operand, heap, assigned>>

\* for a global that does not exist: construct a Value from the object,
NewGlobal(n) ==
  /\ ~isReturning
  /\ TableOf(n) = 0 /\ globals[n] = Unbound
  /\ globals' = [globals EXCEPT ![n] = operand]
  /\ holder' = [holder EXCEPT ![n] = HolderAfterSet(None, None, operand)]
  /\ UNCHANGED <<symbols, retVal, retHolder, isReturning, operand, heap, assigned>>

\* and for one that does: store through its address, past Value::set.
SetGlobal(n) ==
  /\ ~isReturning
  /\ TableOf(n) = 0 /\ globals[n] # Unbound
  /\ globals' = [globals EXCEPT ![n] = operand]
  /\ assigned' = assigned \cup {n}
  /\ UNCHANGED <<holder, symbols, retVal, retHolder, isReturning, operand, heap>>

\* A call that is interpreted, or resumed after a side exit: the callee's table
\* has its parameters and then its locals, which hide parameters of the same
\* name.  All arguments are the present operand.
Enter(params, locals) ==
  /\ ~isReturning
  /\ Len(symbols) < MaxDepth
  /\ symbols' = Append(symbols, [n \in params \cup locals |-> IF n \in locals THEN None ELSE operand])
  /\ UNCHANGED <<globals, holder, retVal, retHolder, isReturning, operand, heap, assigned>>

\* Return::interpret: retVal is assigned, through Value::set.
Return ==
  /\ ~isReturning
  /\ symbols = <<>> => TopReturn
  /\ isReturning' = TRUE
  /\ retVal' = operand
  /\ retHolder' = HolderAfterSet(retVal, retHolder, operand)
  /\ UNCHANGED <<globals, holder, symbols, operand, heap, assigned>>

\* Mutant: the caller's statements are skipped too.
LeaveReturning ==
  /\ symbols # <<>>
  /\ UNCHANGED isReturning
  /\ operand' = retVal
  /\ retVal' = None
  /\ retHolder' = HolderAfterSet(retVal, retHolder, None)
  /\ symbols' = SubSeq(symbols, 1, Len(symbols) - 1)
  /\ UNCHANGED <<globals, holder, heap, assigned>>

\* The end of an interpreted function: take retVal, set it to null, pop.
Leave ==
  /\ symbols # <<>>
  /\ isReturning' = FALSE
  /\ operand' = retVal
  /\ retVal' = None
  /\ retHolder' = HolderAfterSet(retVal, retHolder, None)
  /\ symbols' = SubSeq(symbols, 1, Len(symbols) - 1)
  /\ UNCHANGED <<globals, holder, heap, assigned>>

\* The end of a resumption after a side exit: retVal is taken, and kept.
LeaveResumed ==
  /\ symbols # <<>>
  /\ isReturning' = FALSE
  /\ operand' = retVal
  /\ symbols' = SubSeq(symbols, 1, Len(symbols) - 1)
  /\ UNCHANGED <<globals, holder, retVal, retHolder, heap, assigned>>

\* The collector sees the machine stack, on which the context is (retVal, not
\* the globals), the local variables' storage and the holder buffers.
Roots ==
  {operand, retVal, retHolder} \cup {holder[n] : n \in Names}
    \cup UNION {{symbols[i][n] : n \in DOMAIN symbols[i]} : i \in 1..Len(symbols)}

\* A collection, which an allocation or the REPL starts.
Collect ==
  /\ heap' = heap \cap Roots
  /\ UNCHANGED <<globals, holder, symbols, retVal, retHolder, isReturning, operand, assigned>>

Next ==
  \/ \E o \in Objects : Allocate(o)
  \/ \E v \in {SmallInt, None} : Constant(v)
  \/ \E n \in Names : Load(n) \/ SetLocal(n) \/ NewGlobal(n) \/ SetGlobal(n)
  \/ \E params, locals \in SUBSET Names : Enter(params, locals)
  \/ Return
  \/ Leave
  \/ LeaveResumed
  \/ Collect

Spec == Init /\ [][Next]_vars

-----------------------------------------------------------------------------
(* Properties.                                                             *)

\* A cell that a global variable refers to is never reclaimed.
\* (The code does not keep this: see the README's deviations.)
GlobalsSurvive == \A n \in Names : globals[n] \in Objects => globals[n] \in heap

\* No collection, between lines or inside one, reclaims a cell that a global has
\* referred to since the global was created, whatever other variables, calls
\* and returns do in the meantime (Value's constructor and holder buffer).
CreatedGlobalsSurvive ==
  [][\A n \in Names \ assigned : globals[n] \in heap => globals[n] \in heap']_vars

\* The assertions of Value::set: the returned value has a buffer exactly when
\* it is an object, and the buffer holds it.
HolderHoldsReturnValue == retHolder = IF needsGC(retVal) THEN retVal ELSE None

\* lookupSymbol finds the innermost table that has the name.
\* (The code does not keep this: see the README's deviations.)
LookupWalksTheStack ==
  \A n \in Names : \A i \in 1..Len(symbols) :
    n \in DOMAIN symbols[i] => TableOf(n) >= i
=============================================================================
