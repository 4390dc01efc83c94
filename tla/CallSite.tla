------------------------------ MODULE CallSite ------------------------------
(***************************************************************************)
(* One method (or one closure object) of a MysoreScript program together   *)
(* with the single method-call site in its body: the tier-up from the AST  *)
(* interpreter to compiled code, the type accounting and the inline cache  *)
(* of the Call node, the class guard and the side exit of the compiled     *)
(* code, and the recompilation the side exit may end with.                 *)
(*                                                                         *)
(* The function is not re-entered while it is active; module Tiering has   *)
(* the call stack.  One activation may reach the call site any number of   *)
(* times (the site may stand in a loop).                                   *)
(***************************************************************************)
EXTENDS Integers

CONSTANTS
  Classes,             \* classes of the objects that reach the call site
  SmallIntClass,       \* the class of tagged small integers
  Methods,             \* method-table entries (struct Method)
  Lookup,              \* Lookup[c]: the entry the selector finds from class c
  None,                \* the null pointer
  CompileThreshold,    \* ClosureDecl::compileThreshold
  RECOMPILE_THRESHOLD, \* misses of one class that are still tolerated
  ForceCompiler,       \* Interpreter::forceCompiler (the -c option)
  CallOnEveryPath      \* no activation ends without reaching the call site

ASSUME NoneAssumption == None \notin Classes /\ None \notin Methods
ASSUME LookupAssumption == Lookup \in [Classes -> Methods]
ASSUME ThresholdAssumption ==
  /\ CompileThreshold \in Nat \ {0}
  /\ RECOMPILE_THRESHOLD \in Nat \ {0}
ASSUME FlagAssumption == ForceCompiler \in BOOLEAN /\ CallOnEveryPath \in BOOLEAN

VARIABLES
  type_assumption, alternative_type, alternative_type_count,
  cachedMethod,        \* these four are fields of the Call node
  executionCount, recompile, \* fields of the enclosing ClosureDecl
  function,            \* Method::function: the trampoline or compiled code
  activation,          \* how the current activation runs, or how the run died
  cur_jit_function,    \* the decl the runtime takes to be running
  called,              \* this activation has reached the call site
  seen, run,           \* history: class of the last call, length of its run
  invoked              \* history: method-table entry the last call ran

node == <<type_assumption, alternative_type, alternative_type_count, cachedMethod>>
history == <<seen, run, invoked>>
vars == <<node, executionCount, recompile, function, activation,
          cur_jit_function, called, history>>

-----------------------------------------------------------------------------
Trampoline == [assumed |-> None, target |-> None, kind |-> "trampoline"]

\* What compilation bakes into the code: the class the guard compares with
\* and the method entry the fast path calls.
CompiledCode == [assumed : Classes \cup {None}, target : Methods \cup {None}, kind : {"code"}]

Snapshot == [assumed |-> type_assumption, target |-> cachedMethod, kind |-> "code"]

IsCompiled == function.kind = "code"

Running == {"interpreted", "compiled", "resumed"}
Dead == {"null receiver", "null owner", "guard fault"}

\* Values of cur_jit_function this module tells apart: no decl (top level),
\* some compiled caller's decl, the decl of this function.
This == "this decl"
CallerDecl == "decl of a compiled caller"
NoDecl == "none"

TypeOK ==
  /\ type_assumption \in Classes \cup {None}
  /\ alternative_type \in Classes \cup {None}
  /\ alternative_type_count \in 0..RECOMPILE_THRESHOLD
  /\ cachedMethod \in Methods \cup {None}
  /\ executionCount \in 0..CompileThreshold
  /\ recompile \in BOOLEAN
  /\ function \in CompiledCode \cup {Trampoline}
  /\ activation \in {"idle"} \cup Running \cup Dead
  /\ cur_jit_function \in {NoDecl, CallerDecl, This}
  /\ called \in BOOLEAN
  /\ seen \in Classes \cup {None}
  /\ run \in 0..(RECOMPILE_THRESHOLD + 1)
  /\ invoked \in Methods \cup {None}

\* cachedMethod starts uninitialised; no path reads it before do_call has
\* written it (type_assumption is null until then), so null stands for it.
Init ==
  /\ type_assumption = None
  /\ alternative_type = None
  /\ alternative_type_count = 0
  /\ cachedMethod = None
  /\ executionCount = 0
  /\ recompile = FALSE
  /\ function = Trampoline
  /\ activation = "idle"
  /\ cur_jit_function = NoDecl
  /\ called = FALSE
  /\ seen = None
  /\ run = 0
  /\ invoked = None

-----------------------------------------------------------------------------
(* Entering the function.                                                  *)

\* interpretMethod / interpretClosure with no compiled version: count the
\* execution and interpret the body; cur_jit_function stays the caller's.
EnterInterpreter ==
  /\ activation = "idle"
  /\ ~IsCompiled
  /\ ~ForceCompiler /\ executionCount + 1 # CompileThreshold /\ ~recompile
  /\ executionCount' = executionCount + 1
  /\ activation' = "interpreted"
  /\ cur_jit_function' \in {NoDecl, CallerDecl}
  /\ called' = FALSE
  /\ UNCHANGED <<node, recompile, function, history>>

\* The trampoline finds the function hot (or flagged, or the compiler forced):
\* compile it, install the code in the method table, and call it.  The
\* prologue of the compiled code stores its own decl in cur_jit_function.
EnterAndCompile ==
  /\ activation = "idle"
  /\ ~IsCompiled
  /\ ForceCompiler \/ executionCount + 1 = CompileThreshold \/ recompile
  /\ executionCount' = executionCount + 1
  /\ function' = Snapshot
  /\ recompile' = FALSE
  /\ activation' = "compiled"
  /\ cur_jit_function' = This
  /\ called' = FALSE
  /\ UNCHANGED <<node, history>>

\* The method table already holds compiled code: no trampoline, no counting.
EnterCompiled ==
  /\ activation = "idle"
  /\ IsCompiled
  /\ activation' = "compiled"
  /\ cur_jit_function' = This
  /\ called' = FALSE
  /\ UNCHANGED <<node, executionCount, recompile, function, history>>

-----------------------------------------------------------------------------
(* Call::do_call: the accounting, one operator per branch.                 *)

HitAssumption(c) ==
  /\ c = type_assumption
  /\ alternative_type_count' = 0
  /\ UNCHANGED <<type_assumption, alternative_type>>

FirstType(c) ==
  /\ type_assumption = None
  /\ type_assumption' = c
  /\ UNCHANGED <<alternative_type, alternative_type_count>>

\* Mutant: one miss too many is counted.
CountAlternativeLate(c) ==
  /\ type_assumption \notin {None, c} /\ c = alternative_type
  /\ alternative_type_count <= RECOMPILE_THRESHOLD
  /\ alternative_type_count' = alternative_type_count + 1
  /\ UNCHANGED <<type_assumption, alternative_type>>

CountAlternative(c) ==
  /\ type_assumption \notin {None, c} /\ c = alternative_type
  /\ alternative_type_count + 1 <= RECOMPILE_THRESHOLD
  /\ alternative_type_count' = alternative_type_count + 1
  /\ UNCHANGED <<type_assumption, alternative_type>>

\* The alternative has now been met more than RECOMPILE_THRESHOLD times.
Switches(c) ==
  /\ type_assumption \notin {None, c} /\ c = alternative_type
  /\ alternative_type_count + 1 > RECOMPILE_THRESHOLD

SwitchAssumption(c) ==
  /\ Switches(c)
  /\ type_assumption' = alternative_type
  /\ alternative_type' = None
  /\ alternative_type_count' = 0

NewAlternative(c) ==
  /\ type_assumption \notin {None, c} /\ c # alternative_type
  /\ alternative_type' = c
  /\ alternative_type_count' = 1
  /\ UNCHANGED type_assumption

TypeAccounting(c) ==
  HitAssumption(c) \/ FirstType(c) \/ CountAlternative(c) \/ SwitchAssumption(c) \/ NewAlternative(c)

\* The method that runs: the cached one when the class is the assumed one and
\* the cache is filled, otherwise the one looked up, which refills the cache.
Dispatch(c) ==
  IF c = type_assumption /\ cachedMethod # None
  THEN invoked' = cachedMethod /\ UNCHANGED cachedMethod
  ELSE invoked' = Lookup[c] /\ cachedMethod' = Lookup[c]

\* History: the last receiver class and for how many calls it has been the
\* same one (saturating one above the threshold).
Observe(c) ==
  /\ seen' = c
  /\ run' = IF c # seen THEN 1
            ELSE IF run > RECOMPILE_THRESHOLD THEN run ELSE run + 1

\* The flag of this decl after the called method has run.  An interpreted
\* callee leaves cur_jit_function alone, so a call site in it that switches its
\* assumption executes cur_jit_function->recompile = true on the decl that
\* called it: on this one, when this is the running compiled one.
FlagAfterCallee(flag) ==
  recompile' \in (IF cur_jit_function = This THEN {flag, TRUE} ELSE {flag})

\* do_call with an owner to flag: cur_jit_function->recompile = true reaches
\* this decl only when this decl is the running compiled one.
do_call(c) ==
  /\ TypeAccounting(c)
  /\ FlagAfterCallee(recompile \/ (Switches(c) /\ cur_jit_function = This))
  /\ Dispatch(c)
  /\ Observe(c)
  /\ called' = TRUE

-----------------------------------------------------------------------------
(* Reaching the call site.                                                 *)

\* Interpreted code, or the rest of a side-exited activation.
InterpretedCall(c) ==
  /\ activation \in {"interpreted", "resumed"}
  /\ Switches(c) => cur_jit_function # NoDecl
  /\ do_call(c)
  /\ UNCHANGED <<executionCount, function, activation, cur_jit_function>>

\* The flag is to be set and no compiled function is running: the process
\* dies on the null cur_jit_function (its other state no longer matters).
NullOwner(c) ==
  /\ activation \in {"interpreted", "resumed"}
  /\ Switches(c) /\ cur_jit_function = NoDecl
  /\ activation' = "null owner"
  /\ UNCHANGED <<node, executionCount, recompile, function, cur_jit_function, called, history>>

\* The compiled guard for an assumed object class loads the isa word of the
\* receiver; for a small integer that is not an address of an object, so the
\* load faults or yields a word that is no class.
GuardLoadsIsa == function.assumed # SmallIntClass

\* Mutant: the compiled fast path forgets to reset the node's counter.
CompiledHitKeepsCount(c) ==
  /\ activation = "compiled"
  /\ c = function.assumed
  /\ invoked' = function.target
  /\ Observe(c)
  /\ called' = TRUE
  /\ FlagAfterCallee(recompile)
  /\ UNCHANGED <<node, executionCount, function, activation, cur_jit_function>>

\* Cache hit in compiled code: reset the node's counter, call the hard-coded
\* entry, restore cur_jit_function.  Nothing looks at the flag before the next
\* side exit of this function.
CompiledHit(c) ==
  /\ activation = "compiled"
  /\ c = function.assumed
  /\ alternative_type_count' = 0
  /\ invoked' = function.target
  /\ Observe(c)
  /\ called' = TRUE
  /\ FlagAfterCallee(recompile)
  /\ UNCHANGED <<type_assumption, alternative_type, cachedMethod, executionCount,
                 function, activation, cur_jit_function>>

\* Cache miss in compiled code: the patchpoint rebuilds the interpreter
\* context and the interpreter repeats the call with do_call.
SideExit(c) ==
  /\ activation = "compiled"
  /\ c # function.assumed
  /\ activation' = "resumed"
  /\ do_call(c)
  /\ UNCHANGED <<executionCount, function, cur_jit_function>>

GuardFault ==
  /\ activation = "compiled"
  /\ SmallIntClass \in Classes /\ GuardLoadsIsa
  /\ activation' = "guard fault"
  /\ UNCHANGED <<node, executionCount, recompile, function, cur_jit_function, called, history>>

\* A null receiver fails the guard of compiled code and the assertion at the
\* head of do_call in every mode.
NullReceiver ==
  /\ activation \in Running
  /\ activation' = "null receiver"
  /\ UNCHANGED <<node, executionCount, recompile, function, cur_jit_function, called, history>>

-----------------------------------------------------------------------------
(* Leaving the function.                                                   *)

MayReturn == CallOnEveryPath => called

Return ==
  /\ activation \in {"interpreted", "compiled"}
  /\ MayReturn
  /\ activation' = "idle"
  /\ UNCHANGED <<node, executionCount, recompile, function, cur_jit_function, called, history>>

\* Mutant: the resumed activation returns without looking at the flag.
ReturnIgnoresFlag ==
  /\ activation = "resumed"
  /\ activation' = "idle"
  /\ UNCHANGED <<node, executionCount, recompile, function, cur_jit_function, called, history>>

\* End of reconstructInterpreterContext: recompile if a call site asked for it.
ReturnFromResumption ==
  /\ activation = "resumed"
  /\ activation' = "idle"
  /\ function' = IF recompile THEN Snapshot ELSE function
  /\ recompile' = FALSE
  /\ UNCHANGED <<node, executionCount, cur_jit_function, called, history>>

Enter == EnterInterpreter \/ EnterAndCompile \/ EnterCompiled
Call == \E c \in Classes : InterpretedCall(c) \/ CompiledHit(c) \/ SideExit(c)
Leave == Return \/ ReturnFromResumption
Die == (\E c \in Classes : NullOwner(c)) \/ GuardFault \/ NullReceiver

Next == Enter \/ Call \/ Leave \/ Die

Spec == Init /\ [][Next]_vars

-----------------------------------------------------------------------------
(* Environments.                                                           *)

\* The receivers come in phases: the class changes only after more than
\* RECOMPILE_THRESHOLD calls in a row with the old one.
PhasedReceivers == seen' # seen => seen = None \/ run > RECOMPILE_THRESHOLD

PhasedSpec == Init /\ [][Next /\ PhasedReceivers]_vars

\* A program that keeps calling the function, reaches the call site in every
\* activation and lets every activation end.
Fairness == WF_vars(Enter) /\ WF_vars(Call) /\ WF_vars(Leave)

FairSpec == Spec /\ Fairness

-----------------------------------------------------------------------------
(* Properties.                                                             *)

\* The type assumption of a call site is replaced only when more than
\* RECOMPILE_THRESHOLD calls in a row, the present one included, had the new
\* class, whatever mix of interpreted, compiled and resumed activations made
\* them (do_call's accounting and the counter reset in compiled code).
SwitchNeedsContiguousRun ==
  [][type_assumption # None /\ type_assumption' # type_assumption
       => run' > RECOMPILE_THRESHOLD /\ seen' = type_assumption']_vars

\* Between activations the compiled code is specialised for the current type
\* assumption of the node: the activation that switched it also recompiled
\* (reconstructInterpreterContext), whether or not an interpreted callee has
\* flagged the decl for a switch of its own in the meantime.
CompiledCodeIsCurrent ==
  activation = "idle" /\ IsCompiled => function.assumed = type_assumption

\* Every call runs the method that lookup finds from the receiver's class
\* (cachedMethod belongs to type_assumption when it is used).
DispatchCorrect == seen # None => invoked = Lookup[seen]

\* If the receivers are from some point on all of one class, and the process
\* does not die, the function is eventually compiled for that class for good.
Specialises ==
  [](activation \notin Dead) =>
    \A c \in Classes : <>[](seen = c) => <>[](IsCompiled /\ function.assumed = c)

\* Compiled code never loads the class of a receiver that is a small integer.
\* (The code does not keep this: see the README's deviations.)
NoGuardFault == activation # "guard fault"

\* When the flag is to be set there is a current closure to set it on.
\* (The code does not keep this: see the README's deviations.)
OwnerIsKnown == activation # "null owner"
=============================================================================
