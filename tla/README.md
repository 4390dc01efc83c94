# A TLA+ model of MysoreScript with deoptimisation

MysoreScript is a small object-oriented language with an AST interpreter and an
LLVM just-in-time compiler. This repository adds speculative method-granularity
compilation: call sites record the class of their receivers, compiled code is
specialised for one class, and a failed guard leaves the compiled function
through a patchpoint and resumes it in the interpreter, which may then compile
it again for another class.

The program is sequential and persists nothing. What makes it hard is state
that several tiers share: fields of AST nodes that are written by interpreted,
compiled and resumed executions, one global that names the running compiled
function, one interpreter context and one static register number for all open
side exits, and code pointers in method tables, closure objects and AST nodes
that are replaced while older code is still on the stack. A unit test sees one
nesting of these; the runs here go through all of them up to a bound, and the
proofs through all of them.

Paths below are relative to the repository's `src/` unless they begin with
`writeup/` or are `README.md`.

## Inventory

| component | state | operations | hard part | module |
|---|---|---|---|---|
| call site (`Call`) | `type_assumption`, `alternative_type`, `alternative_type_count`, `cachedMethod`; the enclosing function's `executionCount`, `recompile`, code pointer | `do_call`, compiled guard, fast path, side exit, tier-up, recompilation | three writers of one cache; a pair of fields updated separately | CallSite |
| tiers and call stack | `cur_jit_function`, `compiledClosure`, `Method::function`, `Closure::invoke`, `stackmaps` | `interpretMethod`, `interpretClosure`, compiled prologues and calls, operators, closure creation, `reconstructInterpreterContext` | save/restore of a global over arbitrary nesting; old code running after recompilation | Tiering |
| side exit and resumption | `astNodeFound`, `isReturning`, `retVal`, `return_register` | `Statements::interpret`, `skip_to`, `resumeInInterpreter`, trampoline | nested side exits share the flags | Resume, Activations |
| resumption in nested statements | the same flags, the syntax tree | `skip_to`, `expr_skip_to` of every node class | half-executed statements | Interpretation, SkipTo |
| stackmap, record parser, trampoline | patchpoint operands, stackmap section, saved registers, `return_register` | `Call::compileExpression`, `StackMapParser`, `SMRecordParser::next_value`, `reconstructInterpreterContext`, `x86_trampoline` | two loops in two files must agree on an order; names that hide each other; offsets computed from counts | Stackmap, SideExit |
| interpreter context | `globals`, `symbols`, `retVal`, `isReturning`, GC holder buffers | `setSymbol`, `lookupSymbol`, `Value::set`, `GC_gcollect` | two copies of a reference, one visible to the collector | Context |
| command line and REPL | `ast`, `replASTs`, the one context | `main` | code of earlier lines is called by later ones; flags outlive a line | TopLevel |
| classes | `classTable`, `Class`, method lists, objects | `ClassDecl::interpret`, `NewExpr`, `methodForSelector`, `compileMethod` | layout fixed at compile time for one receiver | Classes |
| closures | bound-variable arrays | `check`, `evaluateExpr`, `compileExpression` | two implementations of one copy loop | Closures |
| numbers | tagged words | `performOp`, `compileCompare`, `mysoreScriptAdd` ... | overflow, sign, null against 0 | Numbers |
| arrays | `length`, `bufferSize`, `buffer` | `ArrayLength`, `ArrayAt`, `ArrayAtPut` | growth, bounds | Arrays |
| files | `File::fd`, the process's descriptors | `FileOpen`, `FileClose`, `FileReadLine`, `FileWrite` | reuse of descriptor numbers | Files |
| strings | immutable buffers | `StringLength`, `StringCharAt`, `StringAdd`, `StringCmp` | signed chars, prefixes | Strings |
| selectors | `selectors`, `selNames` | `lookupSelector` | fixed numbers entered by the first lookup | Selectors |
| parser, LLVM IR construction and passes, `Number` class | | | out of a model's reach or plain I/O | no |

How they interact: `do_call` (CallSite) calls functions (Tiering) whose bodies
are executed by Resume's loops; a guard that fails in CallSite is the side exit
of Tiering and Resume, whose variables travel as in Stackmap and whose search is
SkipTo's; `do_call`'s accounting sets the flag that ends a resumption with a
recompilation. `main` (TopLevel) drives the interpreter over one Context; the
classes of Library are what method calls reach. SideExit composes Stackmap with
SkipTo, TopLevel is Context under the control of `main`, and Library puts the
runtime's classes and the operators side by side. Otherwise each module abstracts its
neighbours to a nondeterministic choice (in Tiering any guard may fail; in
Resume any function may be compiled), so that what is shown in one does not
depend on the others' details.

## Modules

**CallSite** is one function with one method-call site. The fields of the
`Call` node and of its `ClosureDecl` are variables of the same names;
`activation` is how the function runs now ("interpreted", "compiled",
"resumed") or how the process died. `do_call` is split into one operator per
branch of the code; `Dispatch` is the choice of the method. `seen`, `run` and
`invoked` are history. `CompileThreshold` and `RECOMPILE_THRESHOLD` are
constants (10 and 10000 in the code), `Lookup` is the result of
`methodForSelector`. Of what a callee does one thing matters here
(`FlagAfterCallee`): a call site in it that switches flags the innermost compiled
function, which may be this one, and nothing acts on that flag until this
function's next side exit. A null `cur_jit_function`, a null receiver and the load of
a small integer's class end the process.

**Tiering** is the call stack. An entry is a method slot or a closure object, a
version is the number of a compilation of its declaration (0 is the
trampoline). `Enter` is the trampolines, `interpretMethod` and
`interpretClosure`; `Compile` includes the registration of the stackmap by the
JIT listener; `Restore` is what each kind of caller does with
`cur_jit_function`. When a side exit looks for the wrong declaration, the
activation is "lost" and takes no further step. `applied` is history: compiled
code has applied an overloaded operator during the present top-level statement.

**Resume** executes straight-line bodies of five kinds of statements.
`Interprets`, `Searches` and `Runs` are the three loops; `Continue` is what is
left of a calling statement when the callee has returned, which in `skip_to`
depends on the shared `astNodeFound`. **Activations** is the abstract
specification: an activation runs its statements in order, each once, and its
caller gets its value; the refinement maps a frame to its last executed
statement and the value it is going to return.

**Interpretation** is what executing a body means, the abstract specification of
a side exit. A body is a syntax tree: a function from paths to nodes with a class
and a number of children. The C++ stack of the recursive `interpret` and `evaluate`
is the path `at` to the node being executed, with the left operand each waiting
function holds (`lhs`); a step is the call of a child's function or its return.
What is visible is `trace` (assignments, operations and calls, in order), the
results consumed (`input`), and `isReturning` and `retVal` of the context. Conditions
and operands are small integers; calls return any results.

**SkipTo** adds the search. Each function on the stack "runs" (`interpret`,
`evaluate`, or the code compiled for them) or "searches" (`skip_to`,
`expr_skip_to`), and `by` says which; a searching function changes to running when
the node has been found, as in `Statements::skip_to`. In `phase` "compiled"
the body runs from its start; `GuardFails` leaves it at a method call whose
arguments have been evaluated; `ResumeInInterpreter` starts over at the root,
searching. The refinement mapping (`SeenAt`, `SeenStep`, `SeenLhs`, `SeenVal`)
shows the function at the call where it was left for as long as that call has not
been made again. `Resumable` says at which calls this works: no condition, right
operand or argument on the way, and a receiver and arguments that can be
evaluated twice. `Supported` says that all method calls of the body are such.

**Stackmap** is one side exit of one function. A function is its kind and the
names of its parameters, locals, bound and instance variables. `Operands` is the
list of addresses `Call::compileExpression` gives the patchpoint, `Word` the
section as LLVM lays it out (external), `records_base`, `getNumRecords`,
`Location` and `next_value` what the two parsers find in it, `SymbolTable` the
loops of `reconstructInterpreterContext`, `Restored` the end of the trampoline.
LLVM's register allocation is an arbitrary placement. Variables are represented
by their addresses, because that is what is passed; only registers occur as
locations, since an `anyregcc` patchpoint has no others, so the other location
types of `next_value` are not reached. **SideExit** composes it with SkipTo: the code
runs step by step, is left, its context is rebuilt, the search and the rest of the
body are interpreted from the node that was read, and the result goes back.

**Context** has the variables' storage. A global has an `object` field
(`globals`) and a buffer (`holder`), and `assigned` is history: the globals that
have been assigned since they were created; the collector sees the buffers, the
machine stack (with the `Context` object and so `retVal`) and the locals.
Collections may happen at any step, as an allocation may start one.
**TopLevel** is `main`: a file and REPL lines are parsed and executed in one
context; `asts` are the trees `main` owns and `madeBy` the tree that the code of
a cell is in.

**Classes** numbers `Class` structures in order of creation, so that a name can
be declared again and the old structure lives on. A method stands for the one
variable it uses; `access` records the receiver's class and the layout by which
the slot was found.

**Closures** models the closure declarations of one function: `Bound` is the set
of bound variables that `check` computes for each, `check` the order in which
both tiers walk through it (`Enumerate`: any order, as it is that of a
`std::unordered_set`), `evaluateExpr` and `compileExpression` fill the
array of a new closure object. What `evaluateExpr` writes behind the object goes
to unused memory or to some other closure object, which is then `damaged`.
`origin` is history: what each name stood for at creation.

**Numbers** evaluates chains of operators in both tiers on words whose top bit
is `SignBit` (2^63 in the program, 128 in the run). `exact` is history: the value
in the integers, until a product leaves the machine word (`overflowed`).
**Arrays** is the `Array` class with null represented by -1 in the two
integer fields. **Files** has the descriptors of the process as a table, with
the operating system's `open` and `close` as external operators; `expected` is
the file the program takes an object for. **Strings** has strings as sequences
of signed chars, **Selectors** the two tables of `lookupSelector`. **Library**
interleaves the five, which share no state; `MaxInUse` bounds how many of them
one behaviour uses.

`MC*` modules give the constants their values; `*Proofs` modules hold theorems.
A definition introduced by "Mutant:" is a faulty variant of the definition that
follows and is used by no specification; `PROJECT.json` says which property it
breaks.

## Runs

| run | shows |
|---|---|
| CallSiteSpecialises | the assumption changes only after an unbroken run of the new class longer than the threshold; code between activations is current; receivers that settle on one class get code for it |
| CallSiteDispatchCorrect | (violation) A, B, A: the miss on B replaces `cachedMethod` only; the third call runs B's method on an A |
| TieringCalls | through re-entry, two closure objects of one declaration, side exits, recompilation and operators: `cur_jit_function` is the innermost compiled function until compiled code applies an overloaded operator, and again from the next top-level statement on; the top level always gets its null back; a function that has code is compiled again only on request |
| TieringStackmap | (violation) a recursive call of a compiled method side-exits and recompiles it; the stackmap of its declaration is replaced while the outer activation runs the older code |
| ResumeImplements | mixing tiers implements Activations, for one open side exit and functions that return |
| ResumeNested | nested side exits leave a clean context |
| SideExitTransfers | a side exit from the failing guard to the return: variables arrive whatever hides what and whichever registers LLVM chose, search and resumption are steps of one interpretation for every body whose calls can be resumed at, recompilation is of the function that was left, the result gets back, and a function with one call always returns |
| ContextSurvive | over a file and REPL lines: an object that a global was created with survives, `Value::set`'s assertions hold, closures have their syntax trees, every line is executed |
| ContextGlobals | (violation) a global that exists is assigned an object; the next collection reclaims it |
| ClassesLayout | lookups are stable under redeclaration; tiers agree on slots |
| ClosuresBind | (violation) the interpreter makes a closure with two bound variables; the slot of the second holds the first |
| LibraryMethods | array reads stay inside the buffer and return the last store; files use their own descriptors and leak none; strings compare lexicographically; selectors and names correspond; the tiers agree on operators with two integers or two other operands (an integer with something else is excluded by the premise of `TiersAgree`), and the results are exact while no product leaves the word |

### Deviations

Where the code does something else than its documentation says, the properties
above state the condition under which it does what is said. Four rows are runs
that end in a violation; each of the others is reproduced by the change
of a configuration, an MC module or a property's premise that is given.

| what the code does | what is said | how to see it |
|---|---|---|
| `do_call` refills `cachedMethod` on a miss and keeps `type_assumption` (`interpreter.cc:696`) | "may be used if the desired method matches the type saved with the pointer" (`writeup/writeup.tex:533`) | run CallSiteDispatchCorrect; with `SPECIFICATION PhasedSpec` it passes |
| the guard for an object class loads `isa` of a small integer (`compiler.cc:649`) | "must check for null and special integer object types" (`writeup/writeup.tex:537`) | `NoGuardFault` in CallSiteDispatchCorrect.cfg |
| the recompile flag is set through a null `cur_jit_function`, or on the compiled caller of an interpreted function (`interpreter.cc:683`) | "set recompile flag on the current closure" (`writeup/writeup.tex:510`) | `OwnerIsKnown` in CallSiteDispatchCorrect.cfg, `FlagMarksRunningClosure` in TieringCalls.cfg |
| with `-c` code is compiled for class 0; the first side exit sets the assumption and requests nothing, so every call side-exits (`interpreter.cc:672`) | "by changing the assumptions in the interpreter and inducing recompilation, the changes are automatically incorporated" (`writeup/writeup.tex:525`) | `ForceCompiler = TRUE` in CallSiteSpecialises.cfg |
| one stackmap per declaration, replaced while an outer activation, or another closure object, runs older code (`runtime.cc:522`) | "one stackmap per function and vice versa" (`interpreter.cc:61`); "a mapping from compiled functions to the correct stackmap sections" (`writeup/writeup.tex:446`) | run TieringStackmap |
| after an overloaded operator compiled code leaves `cur_jit_function` at the operator's method (`compiler.cc:1469`) | the runtime "keeps track of the running JIT'ed function via a simple pointer" (`writeup/writeup.tex:455`) | `OwnerIsRunning` without the premise `~applied` |
| a side exit in the callee of a resumed function starts its search with `astNodeFound` set and repeats statements (`interpreter.cc:46`) | "skipping, and not executing commands while locating the desired AST node" (`writeup/writeup.tex:472`) | `NothingIsRepeated` in ResumeNested.cfg with `Body <- ReturningBodies` |
| a nested side exit overwrites the static `return_register` (`interpreter.cc:89`) | the trampoline returns "into the register indicated by the first stackmap location" (`writeup/writeup.tex:465`) | `ResultInItsRegister` in ResumeNested.cfg |
| `resumeInInterpreter` does not clear `retVal` (`interpreter.cc:48`) | "so that we always return null from any method that doesn't explicitly return" (`interpreter.cc:916`) | `ImplicitReturnIsNull` in ResumeNested.cfg |
| a node found in a false condition still gets the body executed (`interpreter.cc:1030`) | "do the same check as the interpret  method" (`interpreter.cc:1012`) | `ResumptionMatchesInterpretation` without the premise `Supported`; the bodies are `ConditionBodies` of MCSideExit |
| a method call inside an argument is not found (`interpreter.cc:724`) | "Searched ClosureDecl body for node but astNodeFound is false?" (an assertion that `||` makes vacuous, `interpreter.cc:804`) | `NodeIsFound` without the premise `Supported`; the bodies are in `OtherBodies` of MCSideExit |
| an object assigned to an existing global bypasses `Value::set` and is reclaimed (`interpreter.cc:546`) | "informing the garbage collector that the object is referenced outside of the GC'd heap" (`interpreter.hh:25`) | run ContextGlobals |
| `lookupSymbol` looks at the top table and the globals only (`interpreter.cc:513`) | "walking up the symbol table stack until it's found" (`interpreter.hh:156`) | `LookupWalksTheStack` in ContextSurvive.cfg |
| a method that names a variable only a subclass has uses that slot in objects of the superclass (`compiler.cc:384`) | "classes have a fixed layout defined by their class definition" (`README.md:103`) | `SlotInObject` in ClassesLayout.cfg with `Uses <- SubclassVariable` |
| a class declaration executed twice with its superclass changed in between shares code between two layouts (`interpreter.cc:875`) | the same | the premise `OneLayoutPerDecl` of `TiersFindTheSameSlot` |
| the interpreter copies every bound variable into two slots (`interpreter.cc:847`); compiled code stores the closure under its name after copying (`compiler.cc:557`); initialisers are not searched for bound variables (`ast.hh:813`) | "values are bound to closures when they are created" (`README.md:73`) | run ClosuresBind, for the first; `BoundWhenCreated` with `Next` of Closures restricted to `compileExpression`, for the second; `Declared` of Closures, for the third |
| a product that leaves the machine word wraps, and what is left may pass the assertion: (-16) * (-16) is 0 in an 8-bit word (`runtime.cc:943`) | "Small integers are 61-bits, assert that we won't overflow" (`runtime.hh:82`) | `ExactWithinTheWord` without the premise `~overflowed` (and `exact' = value` in `Apply`) |
| null == 0 in the interpreter (`interpreter.cc:1148`) | "Equality on non-number values is defined as object identity" (`README.md:55`) | the premise of `TiersAgree` |
| index 0 of an empty array and negative indices pass the bounds check (`runtime.cc:195`) | "Check that the access is in bounds" (`runtime.cc:194`) | the premise of `ReadsLastWrite` |
| a method that mentions a global and has a method call: the name is in no symbol table, the patchpoint gets a null operand and compilation dies (`compiler.cc:757`) | nothing | the stage "dead" of Stackmap; `Function("method", <<>>, <<>>, <<"g">>, <<>>, 1)` in MCSideExit |
| more variables than registers: LLVM cannot allocate the `anyregcc` operands | nothing | the same stage; the last function of `Shapes` |
| a closure with a variable called `cmd` or `self` is taken for a method when it is recompiled, and something else's code pointer is overwritten (`interpreter.cc:105`) | nothing; the grammar reserves neither name | `RecompilesItself` without its premise |
| a function with two method calls is refused; null goes back in the register of an earlier side exit (`interpreter.cc:77`) | "UNIMPLIMENTED" (`interpreter.cc:76`) | the stage "refused"; `TwoCalls` in MCSideExit |
| a result that belongs into `rbp` or `rsp` is lost when the trampoline restores its frame | nothing | `FrameRegisters`; LLVM does not choose them |
| a `return` outside functions leaves `isReturning` set, and all later lines of the session do nothing (`main.cc:203`) | nothing | `TopReturn = TRUE` in ContextSurvive.cfg and `LinesAreExecuted` without the implication |
| `open` with an argument that is no string closes the file and keeps its descriptor; a later `open` of another object gets the same number, and both objects use one file (`runtime.cc:69`) | nothing | `OwnsItsDescriptor` without the premise `~refused` |
| `compare` of strings that begin with each other returns the next char: NUL compares as equal, bytes from 128 the wrong way round (`runtime.cc:313`) | "Compare two strings, returning an integer representing the ordering" (`runtime.cc:296`) | `CompareIsLexicographic` without `Plain` |
| `charAt` lets negative indices and index 0 of an empty string through | nothing | `CharAt` of Strings |

### Bounds

- CallSite: four classes (small integers and a subclass that shares its
  parent's method among them), thresholds 3 and 2. The counters take part only
  in comparisons with the thresholds; 2 is the least that separates "the first
  alternative" from "counted" from "switches". The theorems cover the rest.
- Tiering: one method and two closure objects of one declaration, all of which may
  call each other and themselves, three deep, two versions. Depth 3 lets a function
  call itself through another; two closure objects of one declaration, or one
  function twice on the stack, are what is needed for two versions to be live.
- Resume: two functions with different result registers, depth 3: a resumed
  function, its callee, and one between.
- SkipTo, in SideExit: all bodies built from one method call (a statement, a whole
  expression, a left operand or a callee) with optional statements before and
  after, nested up to two deep in ifs and whiles, and the bodies outside
  `Supported` with the call in a condition, an argument, a right operand or on a
  call's result; three results of calls in every combination, and 0
  afterwards, so that loops run up to three times and the code is left at any
  execution of the call.
- Stackmap, in SideExit: closures and methods with up to two parameters, one
  local and two bound or instance variables whose names coincide in every way that
  lets one kind hide another, a function with variables called `self` and `cmd`, a
  method with a global, one with more variables than registers, one with two
  calls; registers are assigned in two orders from every start and with every
  result register. Bodies and functions are not multiplied with each other: what
  SkipTo computes does not depend on the variables, which is why all bodies run in
  one function and all functions have one body.
- Context and TopLevel: one name, two cells, three nested calls, two trees (a
  tree whose closure is called by the next is the shortest case); for
  ContextGlobals two names and two nested calls; names and
  cells symmetric. Classes: three declarations
  (a redeclaration that inherits from its predecessor among them), each executed
  any number of times, three structures, three objects. Closures: two
  declarations, four names, two closure objects, values that are alike
  (symmetry).
- Library: any two of the five parts in one behaviour (they share no state, so
  that interference would show between two). Arrays with indices -1 to 2 and two
  objects; two File objects, two paths and two descriptors above the standard
  ones, as many as the objects can hold; strings up to three chars from five literals
  with a negative char and the empty string among them; two static selectors and
  four names, one of them static; 8-bit words, as right operands seven integers
  with both ends of the range, null and three addresses, and on the left also
  every result of operators on them.

### Fairness

`FairSpec` of CallSite assumes that the program goes on calling the function,
that activations reach their call site (`CallOnEveryPath`) and that they end;
`Specialises` is a statement about such programs, and its premise excludes the
process's death. `SideExitSpec` assumes that a single thread that can take a
step does, once it has
left compiled code: `reconstructInterpreterContext`, the interpreter and the
trampoline run on, as there is nothing they wait for (calls a resumption makes
return, and the results of calls end the bodies' loops): weak fairness of `Leave`,
`ResumeAtNode`, `Interpret` and `ReturnToCode`. Compiled code may run for ever.

Deadlock is not checked where a state of the model is an end of the program:
the process has died (CallSite), a side exit has lost its function (Tiering),
a body is finished (SideExit), the
session has ended (TopLevel), the bound on structures and objects is reached
(Classes).

## Proofs

All theorems hold for every value of the constants that satisfies the named
assumptions of their module.

- **CallSiteProofs.** `IInv` adds to the type invariant that the counter of the
  alternative class never exceeds the present unbroken run of that class
  whenever it is positive; by itself `SwitchNeedsContiguousRun` says nothing
  about the counter and is not inductive. `TypeCorrect` and `ContiguousRun`
  follow. `CodeStaysCurrent` needs also that code exists only when the site has
  seen a class (`SiteSeenFirst`), and `FreshCode`: code is for the present
  assumption unless the function has been left with a request that will replace
  it (`Doomed`). A flag that a callee has set on running compiled code is not such
  a request; it stays pending between activations, which the theorem allows. It
  assumes that every activation reaches its call, no `-c`, and a threshold above 1,
  because otherwise the code is compiled for class 0.
  `PhasedDispatch` strengthens `DispatchCorrect` by what `cachedMethod` and the
  compiled target are in each phase.
- **TieringProofs.** `OwnerInv`: for every prefix of the stack the value saved
  by the call above it is the innermost compiled function of the prefix; with
  the top of the stack this gives `RuntimeKnowsOwner` and, as its corollary for
  running compiled code, `SideExitFindsItsFunction`. Both are about the time until
  compiled code applies an overloaded operator (`applied`), after which
  `OwnerIsRunning` fails; `TopLevelIsClean` lets the invariant start again with
  the next top-level statement.
  `TierInv` is about every program, operators included: the outermost activation
  saved null (`NoOwnerBelow`), what is saved or stored in `cur_jit_function` has
  been compiled (`OwnersAreCompiled`), a resumed activation owns the pointer, now
  or once its callees have returned (`ResumedIsOwner`), and a declaration below its
  threshold has no code. It gives `TieringTypes` and `TopLevelIsClean`
  and, because the count passes the threshold once, `RecompilationIsRequested`.
- **ResumeProofs.** `CleanInv`: `astNodeFound` is set, or a return is under way,
  only while there is an activation that will reset it; `ResumeTypes` and
  `ContextEndsClean` follow for nested side exits too. `ResumeInv` places every
  activation: callers are in the middle of a calling statement, the top one is at
  the statement after its last or, in `skip_to`, on the way to the call it left,
  a pending return is that of the top, and at most one activation is resumed.
  With it each step of Resume is a step of Activations or a stutter
  (`ResumptionIsInvisible`, the run's refinement mapping), proved action by
  action. It assumes `~NestedExits` and `BodiesReturn`, without which it is
  false (the rows on `astNodeFound` and `retVal` above).
- **SideExitProofs.** For Stackmap `TransferInv`: while the function runs, its registers and
  its stackmap are those of one placement (`Compiled`); after the context is
  rebuilt, the table is the code's and `return_register` the record's first
  location. The lemmas follow the data: `RecordsBase` and `RecordRead` (the
  parsers' offsets meet LLVM's layout for any number of constants and locations),
  `SavedRegister` (DWARF numbers and the trampoline's pushes), `ValuesRead`
  (`next_value` gives back each operand), `TableMatches` (the last of equal names
  wins on both sides). They give `SideExitKeepsSymbols`,
  `SideExitDeliversResult` and `SideExitRecompilesItself` for any functions and
  any register allocation that keeps operands apart and off the frame registers.

  For SkipTo the invariant `SkipInv` has three layers. `InterpretationInv` is about
  every execution: the path is one of the tree and only operators that wait for
  their right operand hold a left one (`Stack`), the value of the last expression
  fits the step (`Values`), and during a return no expression is evaluated and no
  call made (`Unwinding`). `SkipTypeInv` adds the search's own state. `Resumption`,
  for bodies that are `Supported`, follows a side exit through its stages: the code
  runs without searching; is left at a method call; while
  `Searching`, every function on the stack searches and the walk leads to the
  node, precedes it in the order of the tree, or is at its receiver; `AtCall`, the
  arguments are evaluated again and only the functions above the node search;
  `AfterCall`, the functions that still search wait for a child, in an if or a while
  for the body, with `astNodeFound` set, so that each does from now on what its
  `interpret` would do. The node is ahead because ifs and whiles search their bodies whatever
  their conditions are, and the order of paths (`Precedes`, `Leads`) is decided at
  the first index where two paths differ. From `SkipInv` every step of the search
  is a stutter of Interpretation and every other step one of its steps, action by
  action (`ResumptionIsInvisible`, and `ResumptionRefines` for the whole
  specification), and the function does not end before the call has been made
  (`NodeFound`): for bodies of any size and depth, and calls that return anything.

  For SideExit `SideExitImplementsParts`: a run of the composition is a run of each
  half; with the theorems above, `SideExitIsInvisible` states all five safety
  properties of the run for every body, function and register allocation.
  `SideExitReturnsAtTheEnd` relates the halves: the trampoline returns to the
  code's caller only after the interpreter has come to the end of the body.
- **NumbersProofs.** `NumbersInv`: an expression that has a value is a word of
  the machine with a tag the program uses, it stands for the value in the
  integers unless a product has left the word, and the
  tiers agree. The lemmas are about words: what shifting by the tag, sign
  extension and wrapping do to sums, differences, products and quotients, for
  every `SignBit` above 8 that is a multiple of 8; sums, differences and quotients
  stay within the word (`ExactFits`). `OperatorsAgree` and `OperatorsAreExact`
  follow.
- **ClassesProofs.** `ClassesInv`: a structure's variables begin with those of
  its superclass (`InheritsLayout`), and the layout that code in a method slot,
  code shared through a declaration, or an access was made for extends the one
  of the class that declares the method (`CodeFits`, `SharedCodeFits`,
  `AccessFits`). `methodForSelector` is a recursive function on the number of the
  structure; what it finds after more structures have been made is the same by a
  least counterexample (`LookupIsForever`). `TiersShareSlots` has the premise
  `VariablesDeclared`, a condition on the state, beside the property's own
  `OneLayoutPerDecl`: every method uses a variable its class has, and no class
  repeats an inherited name. The run checks the property without this premise,
  and reaches states outside it (the second declaration of A executed first, when
  it inherits no `x`, or twice, when its `z` occurs twice); there the property is
  only model-checked. A method that names a subclass's variable is a row above.
- **ContextProofs.** `ContextInv`: the type invariant, the returned value's
  buffer agrees with it (`HolderHoldsReturnValue`), a return under way is inside a
  function, and the holder of a global that has not been assigned since its
  creation agrees with its object (`HoldersAgree`).
  `SessionKeepsGlobals` needs the last part: a collection keeps what holders hold,
  and no other step reclaims anything. `TreesInv` adds that the running tree is
  owned and the symbol stack is empty between lines. The theorems hold for every
  program; what is assigned later to a global is lost, the row above.
- **LibraryProofs.** `FilesInv` adds to the ownership of descriptors what the
  values 0 and -1 of `fd` stand for. `SelectorsInv` adds that the two tables have
  the same size, so that the size is a fresh number. `StringsCompare` rests on
  `CompareDecides`; the first difference of two strings is found as a least
  number (`SmallestNumber`, from the well-foundedness of < on the naturals),
  which replaces an induction. `AddKeepsOrder` is about any bytes: a common
  prefix moves the first difference and leaves the two bytes that decide
  (`PrefixComparesAlike`). `FilesReachTheirTarget` has the invariant of
  `FilesOwnDescriptors`. For arrays, `ArraysInv`: the buffer is exactly as long
  as the array, and its cells hold the stored objects (`FullBuffer`,
  `HoldsContents`), so that the check against the length keeps reads inside the
  buffer (`ArraysKeepElements`, `ArraysTypes`). `LengthIsExact` adds that the last
  index of a non-empty array has been stored at (`LastIsStored`), which is
  inductive only beside the other two. Each specification is proved by itself.

Where an argument goes through a sequence or up the superclasses, the proofs take
a least counterexample (`LeastOf`, `SmallestNumber`, `LeastNumber`: every set of
naturals that is not empty has a least element) in place of an induction.

Model-checked only: liveness (`Specialises` and
`ResumesAndReturns`), which the prover does not do under fairness. Every other
property of a passing run is stated by a theorem, in some cases under a premise
named above.

## Not modelled

The Pegmatite grammar and parser, construction of LLVM IR and LLVM's passes
(`SplitArithmeticPass` is dead code: its registration at `compiler.cc:176` is
commented out), the `Number` class (its methods print), the earlier versions of
the trampoline that are not built, option parsing, timing and line editing. Most
of what no definition refers to in `compiler.cc` (807 to 1251) and `runtime.cc`
(777 to 885) is commented-out code. Of the Boehm collector only what it regards as reachable is
modelled, and of LLVM where it puts values and how it lays out a stackmap, from
how the code uses them. `getBytesInRecord` and `getRecordWithId` of
`StackMapParser` are not reached: the code asks for record 0 only (the former
reads the number of locations from the offset of the first location, which would
matter once functions with two calls are supported). Numbers of arguments are not
compared by the code and not modelled. What files contain is left out; `readline`
returns null for an empty line as well as at the end of a file. File objects that
are collected keep their descriptors open, as the comment of `FileClose` says.
The array of locals of an interpreted function is taken to be visible to the
collector, which holds while its pointer is in the frame. Side exits within
expressions are modelled, but the properties say nothing of bodies that are not
`Supported`, as the repository restricts itself (`README.md:8`). A
declaration without an initial value, which `skip_to` passes over, is no node of
the trees.

## Plan

Done: the call site, tiers, resumption, context, classes, closures and numbers;
then the transfer through stackmap and trampoline, the session of `main`, and the
runtime library; then the theorems about each. Left:

1. A composition of CallSite with Tiering: two call sites in two functions, so
   that the flag, the code versions and the caches are seen together.
2. Functions with several method calls, once the code supports them: the choice
   of the record by its instruction offset.
