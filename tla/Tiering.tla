------------------------------- MODULE Tiering ------------------------------
(***************************************************************************)
(* The call stack of a running MysoreScript program: interpreted, compiled *)
(* and resumed activations of several closure declarations, the code each  *)
(* method-table slot and closure object points to, the stackmap registered *)
(* per declaration, and the global cur_jit_function by which a side exit   *)
(* finds out which function it left.                                       *)
(*                                                                         *)
(* Classes and the inline caches are abstracted: whether a compiled guard  *)
(* fails and whether do_call asks for a recompilation is nondeterministic  *)
(* (module CallSite says when it does).                                    *)
(***************************************************************************)
EXTENDS Integers, Sequences, FiniteSets

CONSTANTS
  Decls,            \* ClosureDecl nodes
  Methods,          \* struct Method slots of user-defined methods
  Closures,         \* closure objects
  DeclOf,           \* the declaration each slot or object belongs to
  None,             \* the null pointer
  CompileThreshold, \* ClosureDecl::compileThreshold
  MaxDepth,         \* bound: depth of the call stack
  MaxVersions       \* bound: compiled versions of one declaration

Entries == Methods \cup Closures

ASSUME TieringAssumption ==
  /\ None \notin Decls
  /\ Methods \cap Closures = {}
  /\ DeclOf \in [Entries -> Decls]
  /\ CompileThreshold \in Nat \ {0}
  /\ MaxDepth \in Nat
  /\ MaxVersions \in Nat \ {0}

VARIABLES
  invoke,           \* Method::function or Closure::invoke: a version, 0 is the trampoline
  created,          \* the closure objects that exist
  compiledClosure,  \* ClosureDecl::compiledClosure: a version, 0 is null
  executionCount,   \* ClosureDecl::executionCount, saturating above the threshold
  recompile,        \* the declarations whose recompile flag is set
  stackmaps,        \* version of the stackmap registered for a declaration
  versions,         \* number of times a declaration has been compiled
  cur_jit_function, \* the declaration the runtime takes to be running
  stack,            \* activations, the innermost one last
  applied           \* history: since the running top-level statement began,
                    \* compiled code has applied an overloaded operator

code == <<invoke, compiledClosure, stackmaps, versions>>
vars == <<code, created, executionCount, recompile, cur_jit_function, stack, applied>>

-----------------------------------------------------------------------------
Version == 0..MaxVersions

\* saved: cur_jit_function when the call was made; kind: a call, or an overloaded
\* operator applied by compiled code, entered directly or through the trampoline.
Frame ==
  [entry : Entries, decl : Decls, version : Version, saved : Decls \cup {None},
   mode : {"interpreted", "compiled", "resumed", "lost"}, kind : {"call", "operator", "trampolined"}]

TypeOK ==
  /\ invoke \in [Entries -> Version]
  /\ created \in SUBSET Closures
  /\ compiledClosure \in [Decls -> Version]
  /\ executionCount \in [Decls -> 0..(CompileThreshold + 1)]
  /\ recompile \in SUBSET Decls
  /\ stackmaps \in [Decls -> Version]
  /\ versions \in [Decls -> Version]
  /\ cur_jit_function \in Decls \cup {None}
  /\ stack \in Seq(Frame)
  /\ applied \in BOOLEAN

Init ==
  /\ invoke = [e \in Entries |-> 0]
  /\ created = {}
  /\ compiledClosure = [d \in Decls |-> 0]
  /\ executionCount = [d \in Decls |-> 0]
  /\ recompile = {}
  /\ stackmaps = [d \in Decls |-> 0]
  /\ versions = [d \in Decls |-> 0]
  /\ cur_jit_function = None
  /\ stack = <<>>
  /\ applied = FALSE

Top == stack[Len(stack)]

\* Top-level statements are interpreted; so is the rest of a resumed function.
TopMode == IF stack = <<>> THEN "interpreted" ELSE Top.mode
InInterpreter == TopMode \in {"interpreted", "resumed"}
InCompiledCode == TopMode = "compiled"

\* compileMethod / compileClosure for entry e: new code, its stackmap replaces
\* the registered one, the entry (and, unless a method is recompiled after a
\* side exit, the declaration) points to the new code.
Compile(e, setsClosure) ==
  LET d == DeclOf[e]
      v == versions[d] + 1
  IN /\ versions' = [versions EXCEPT ![d] = v]
     /\ stackmaps' = [stackmaps EXCEPT ![d] = v]
     /\ invoke' = [invoke EXCEPT ![e] = v]
     /\ compiledClosure' = IF setsClosure THEN [compiledClosure EXCEPT ![d] = v] ELSE compiledClosure

Push(e, mode, v, kind) ==
  stack' = Append(stack, [entry |-> e, decl |-> DeclOf[e], version |-> v,
                          saved |-> cur_jit_function, mode |-> mode, kind |-> kind])

\* The entry holds compiled code; its prologue stores its declaration.
EnterCode(e, kind) ==
  /\ invoke[e] > 0
  /\ Push(e, "compiled", invoke[e], kind)
  /\ cur_jit_function' = DeclOf[e]
  /\ UNCHANGED <<code, executionCount>>

Trampolined(kind) == IF kind = "operator" THEN "trampolined" ELSE kind

\* Mutant: the trampoline and the interpreter both count the execution.
CountExecutionTwice(d) ==
  executionCount' = [executionCount EXCEPT ![d] = IF @ > CompileThreshold THEN @ ELSE @ + 2]

CountExecution(d) ==
  executionCount' = [executionCount EXCEPT ![d] = IF @ > CompileThreshold THEN @ ELSE @ + 1]

\* Mutant: every execution from the threshold on asks for code.
HotAbove(d) == executionCount[d] + 1 >= CompileThreshold \/ d \in recompile

Hot(d) == executionCount[d] + 1 = CompileThreshold \/ d \in recompile

\* The trampoline, interpretMethod or interpretClosure: compile a hot
\* function and call the code ...
EnterAndCompile(e, kind) ==
  /\ invoke[e] = 0 /\ Hot(DeclOf[e])
  /\ CountExecution(DeclOf[e])
  /\ Compile(e, TRUE)
  /\ Push(e, "compiled", versions[DeclOf[e]] + 1, Trampolined(kind))
  /\ cur_jit_function' = DeclOf[e]

\* ... call the code compiled through another closure object ...
EnterOtherCode(e, kind) ==
  /\ invoke[e] = 0 /\ ~Hot(DeclOf[e]) /\ compiledClosure[DeclOf[e]] > 0
  /\ CountExecution(DeclOf[e])
  /\ Push(e, "compiled", compiledClosure[DeclOf[e]], Trampolined(kind))
  /\ cur_jit_function' = DeclOf[e]
  /\ UNCHANGED code

\* ... or interpret the body, leaving cur_jit_function alone.
EnterInterpreted(e, kind) ==
  /\ invoke[e] = 0 /\ ~Hot(DeclOf[e]) /\ compiledClosure[DeclOf[e]] = 0
  /\ CountExecution(DeclOf[e])
  /\ Push(e, "interpreted", 0, kind)
  /\ UNCHANGED <<code, cur_jit_function>>

Callable(e) == Len(stack) < MaxDepth /\ e \in Methods \cup created

Enter(e, kind) ==
  /\ Callable(e)
  /\ \/ EnterCode(e, kind) /\ UNCHANGED recompile
     \/ EnterAndCompile(e, kind) /\ recompile' = recompile \ {DeclOf[e]}
     \/ EnterOtherCode(e, kind) /\ UNCHANGED recompile
     \/ EnterInterpreted(e, kind) /\ UNCHANGED recompile
  /\ UNCHANGED created

-----------------------------------------------------------------------------
\* Call::do_call (or BinOpBase::performOp) with no request to recompile: save
\* cur_jit_function and call.
InterpreterCalls(e) == InInterpreter /\ Enter(e, "call") /\ UNCHANGED applied

\* Call::do_call whose accounting replaces the type assumption: the flag goes
\* to the declaration in cur_jit_function.  The callee here is a method of the
\* runtime, which changes nothing this module has.
RequestRecompile ==
  /\ InInterpreter
  /\ cur_jit_function # None
  /\ versions[cur_jit_function] < MaxVersions
  /\ recompile' = recompile \cup {cur_jit_function}
  /\ UNCHANGED <<code, created, executionCount, cur_jit_function, stack, applied>>

\* Compiled code calls a closure, or a method whose class guard has passed.
CompiledCodeCalls(e) == InCompiledCode /\ Enter(e, "call") /\ UNCHANGED applied

\* Compiled code applies an operator to an object: mysoreScriptAdd and its
\* siblings call the user's method.
CompiledCodeApplies(e) ==
  e \in Methods /\ InCompiledCode /\ Enter(e, "operator") /\ applied' = TRUE

\* A closure expression is evaluated.  The interpreter takes the code of the
\* declaration; compiled code has it as a constant from when it was compiled.
CreateClosure(e) ==
  /\ e \in Closures \ created
  /\ created' = created \cup {e}
  /\ \/ /\ InInterpreter
        /\ invoke' = [invoke EXCEPT ![e] = compiledClosure[DeclOf[e]]]
     \/ /\ InCompiledCode
        /\ \E v \in 0..compiledClosure[DeclOf[e]] : invoke' = [invoke EXCEPT ![e] = v]
  /\ UNCHANGED <<compiledClosure, stackmaps, versions, executionCount, recompile,
                 cur_jit_function, stack, applied>>

\* A class guard fails: the patchpoint's trampoline asks for the stackmap of
\* cur_jit_function and the interpreter resumes in that declaration.  When it
\* is not the declaration that was left, the activation is lost.
SideExit ==
  /\ InCompiledCode
  /\ stack' = [stack EXCEPT ![Len(stack)].mode =
                 IF cur_jit_function = Top.decl THEN "resumed" ELSE "lost"]
  /\ UNCHANGED <<code, created, executionCount, recompile, cur_jit_function, applied>>

\* Mutant: compiled code does not store its own declaration back after a call.
RestoreForgotten ==
  cur_jit_function' = IF Len(stack) = 1 \/ stack[Len(stack) - 1].mode # "compiled"
                      THEN Top.saved ELSE cur_jit_function

\* Mutant: the interpreter does not put cur_jit_function back.
SavedForgotten ==
  cur_jit_function' =
    IF Len(stack) = 1 \/ stack[Len(stack) - 1].mode # "compiled" \/ Top.kind # "call"
    THEN cur_jit_function ELSE stack[Len(stack) - 1].decl

\* What the caller does with cur_jit_function: the interpreter puts back the
\* value it saved, compiled code stores its own declaration after a call and
\* does nothing after an operator (interpretMethod, when it was the trampoline,
\* has stored the callee).
Restore ==
  cur_jit_function' =
    IF Len(stack) = 1 \/ stack[Len(stack) - 1].mode # "compiled" THEN Top.saved
    ELSE IF Top.kind = "operator" THEN cur_jit_function
    ELSE IF Top.kind = "trampolined" THEN Top.decl
    ELSE stack[Len(stack) - 1].decl

Pop ==
  /\ stack' = SubSeq(stack, 1, Len(stack) - 1)
  /\ applied' = (applied /\ Len(stack) > 1)

\* Interpreted or compiled code returns, or a resumed activation ends with no
\* recompilation requested.
Return ==
  /\ stack # <<>>
  /\ \/ Top.mode \in {"interpreted", "compiled"}
     \/ Top.mode = "resumed" /\ cur_jit_function \notin recompile
  /\ Pop /\ Restore
  /\ UNCHANGED <<code, created, executionCount, recompile>>

\* reconstructInterpreterContext finds the flag set: compile again, install
\* the code where self and cmd say it came from, clear the flag.
ReturnAndRecompile ==
  /\ stack # <<>>
  /\ Top.mode = "resumed" /\ cur_jit_function \in recompile
  /\ Compile(Top.entry, Top.entry \in Closures)
  /\ recompile' = recompile \ {cur_jit_function}
  /\ Pop /\ Restore
  /\ UNCHANGED <<created, executionCount>>

Next ==
  \/ \E e \in Entries : InterpreterCalls(e) \/ CompiledCodeCalls(e) \/ CompiledCodeApplies(e)
  \/ \E e \in Entries : CreateClosure(e)
  \/ RequestRecompile
  \/ SideExit
  \/ Return
  \/ ReturnAndRecompile

Spec == Init /\ [][Next]_vars

-----------------------------------------------------------------------------
(* Properties.                                                             *)

\* x is the declaration of the innermost of the k outermost activations of s
\* that is not interpreted, or null when they are all interpreted.
InnermostOwner(s, k, x) ==
  \/ x = None /\ \A j \in 1..k : s[j].mode = "interpreted"
  \/ \E i \in 1..k : /\ s[i].mode # "interpreted" /\ x = s[i].decl
                     /\ \A j \in (i + 1)..k : s[j].mode = "interpreted"

\* cur_jit_function is the declaration of the innermost activation that started
\* as compiled code, through any nesting of calls, re-entries, closure calls,
\* side exits, resumptions and recompilations, until compiled code applies an
\* overloaded operator (after which it is not restored: see the README), and
\* again from the next top-level statement on.
OwnerIsInnermost == ~applied => InnermostOwner(stack, Len(stack), cur_jit_function)

\* At top level no function is taken to be running, whatever calls, operators
\* and side exits the last statement went through.
TopLevelHasNoOwner == stack = <<>> => cur_jit_function = None

\* Whenever compiled code runs, and so may side-exit, cur_jit_function is the
\* declaration of that code.
OwnerIsRunning == ~applied /\ InCompiledCode => cur_jit_function = Top.decl

\* One stackmap per function: whenever compiled code runs, the stackmap
\* registered for its declaration is the one of the running code.
\* (The code does not keep this: see the README's deviations.)
StackmapIsOfRunningCode == InCompiledCode => stackmaps[Top.decl] = Top.version

\* The recompile flag is set only on the closure whose call site asked for it.
\* (The code does not keep this: see the README's deviations.)
FlagMarksRunningClosure ==
  [][\A d \in recompile' \ recompile : stack # <<>> /\ d = Top.decl]_vars

\* A declaration that has code is compiled again only when a call site has
\* asked for it: the execution count passes the threshold once, however many
\* closure objects and methods still go through the trampoline.
CompilesOnlyOnRequest ==
  [][\A d \in Decls : versions'[d] # versions[d] => versions[d] = 0 \/ d \in recompile]_vars
=============================================================================
