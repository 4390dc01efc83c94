------------------------------- MODULE Resume -------------------------------
(***************************************************************************)
(* Executing function bodies in the three ways the program has: the        *)
(* interpreter's loop over statements, compiled code, and after a side     *)
(* exit the loop of skip_to, which looks for the call the compiled code    *)
(* had reached and interprets what follows.  The loops talk to each other  *)
(* through one interpreter context (astNodeFound, isReturning, retVal) and *)
(* the trampoline's static return_register.                                *)
(*                                                                         *)
(* Bodies are straight-line: module SkipTo has the statements that nest.   *)
(* Which activation is compiled and which guard fails is nondeterministic. *)
(***************************************************************************)
EXTENDS Naturals, Sequences

CONSTANTS
  Decls,        \* ClosureDecl nodes
  Body,         \* the statements of each
  Register,     \* the register the patchpoint of its code returns in
  None,         \* null
  Garbage,      \* what a register holds that nobody wrote
  NestedExits,  \* compiled code may side-exit while another side exit is open
  MaxDepth      \* bound: depth of the call stack

VARIABLES
  frames,          \* activations, the innermost one last
  astNodeFound,    \* Context::astNodeFound
  isReturning,     \* Context::isReturning
  retVal,          \* Context::retVal
  return_register, \* static of the trampoline
  result           \* the value the last call produced

context == <<astNodeFound, isReturning, retVal>>
vars == <<frames, context, return_register, result>>

Statement == {"work", "closure", "method", "tail", "return"}
Calling == {"closure", "method", "tail"}
Guarded == {"method", "tail"}
Returning == {"tail", "return"}

\* A stackmap with two records is not supported: one guarded call per body.
ASSUME ResumeAssumption ==
  /\ None \notin Decls /\ Garbage \notin Decls \cup {None}
  /\ Body \in [Decls -> Seq(Statement)]
  /\ \A d \in Decls : \A i, j \in DOMAIN Body[d] :
       Body[d][i] \in Guarded /\ Body[d][j] \in Guarded => i = j
  /\ DOMAIN Register = Decls
  /\ NestedExits \in BOOLEAN
  /\ MaxDepth \in Nat \ {0}

Values == Decls \cup {None, Garbage}

\* pc: the statement the loop or the code is at; last: the last one executed;
\* node: the statement of the call to resume at; by: which loop made the call;
\* value: what compiled code is going to return.
Frame ==
  [decl : Decls, mode : {"interpreted", "compiled", "resumed"}, pc : Nat, last : Nat,
   node : Nat, by : {"interpret", "skip_to"}, value : Values]

TypeOK ==
  /\ frames \in Seq(Frame)
  /\ astNodeFound \in BOOLEAN
  /\ isReturning \in BOOLEAN
  /\ retVal \in Values
  /\ return_register \in {Register[d] : d \in Decls} \cup {None}
  /\ result \in Values

Init ==
  /\ frames = <<>>
  /\ astNodeFound = FALSE
  /\ isReturning = FALSE
  /\ retVal = None
  /\ return_register = None
  /\ result = None

-----------------------------------------------------------------------------
Top == frames[Len(frames)]
AtEnd(f) == f.pc > Len(Body[f.decl])
Kind(f) == Body[f.decl][f.pc]

Replace(f) == frames' = [frames EXCEPT ![Len(frames)] = f]
Executed(f) == [f EXCEPT !.last = f.pc, !.pc = @ + 1]

\* Statements::interpret, or Statements::skip_to once the node is found, is
\* about to interpret a statement of one of these kinds.
Interprets(kinds) ==
  /\ frames # <<>>
  /\ Top.mode = "interpreted" \/ (Top.mode = "resumed" /\ astNodeFound)
  /\ ~isReturning /\ ~AtEnd(Top) /\ Kind(Top) \in kinds

\* Statements::skip_to is looking for the node.
Searches ==
  /\ frames # <<>>
  /\ Top.mode = "resumed" /\ ~astNodeFound
  /\ ~isReturning /\ ~AtEnd(Top)

CodeReturned(f) == f.last > 0 /\ Body[f.decl][f.last] \in Returning

Runs(kinds) ==
  /\ frames # <<>>
  /\ Top.mode = "compiled"
  /\ ~AtEnd(Top) /\ ~CodeReturned(Top) /\ Kind(Top) \in kinds

\* A statement without a call.
Work ==
  /\ Interprets({"work"}) \/ Runs({"work"})
  /\ Replace(Executed(Top))
  /\ UNCHANGED <<context, return_register, result>>

\* Return::interpret.
InterpretReturn ==
  /\ Interprets({"return"})
  /\ Replace(Executed(Top))
  /\ retVal' = Top.decl
  /\ isReturning' = TRUE
  /\ UNCHANGED <<astNodeFound, return_register, result>>

\* Return::compile.
CompiledReturn ==
  /\ Runs({"return"})
  /\ Replace([Executed(Top) EXCEPT !.value = Top.decl])
  /\ UNCHANGED <<context, return_register, result>>

\* skip_to of a statement that does not hold the node does nothing.
SkipStatement ==
  /\ Searches /\ Top.pc # Top.node
  /\ Replace([Top EXCEPT !.pc = @ + 1])
  /\ UNCHANGED <<context, return_register, result>>

-----------------------------------------------------------------------------
\* What is left of a calling statement when the callee has produced r: compiled
\* code and interpret finish it, skip_to only if astNodeFound still is set.
Continue(rest, r, found, kept) ==
  LET caller == rest[Len(rest)]
      tail == Kind(caller) = "tail"
      finishes == caller.mode = "compiled" \/ caller.by = "interpret" \/ found
      returns == tail /\ finishes /\ caller.mode # "compiled"
      after == IF ~finishes THEN [caller EXCEPT !.pc = @ + 1]
               ELSE [Executed(caller) EXCEPT !.value = IF tail /\ caller.mode = "compiled" THEN r ELSE @]
  IN /\ frames' = [rest EXCEPT ![Len(rest)] = after]
     /\ isReturning' = returns
     /\ retVal' = IF returns THEN r ELSE kept
     /\ astNodeFound' = found
     /\ result' = r

\* A call statement is reached by interpret or skip_to, or by compiled code
\* whose guard passes; skip_to then has found its node.
ReachesCall(by, found) ==
  \/ by = "interpret" /\ found = astNodeFound /\ (Interprets(Calling) \/ Runs(Calling))
  \/ by = "skip_to" /\ found = TRUE /\ Searches /\ Top.pc = Top.node

\* It calls a function of the program, interpreted or compiled ...
Enter(d, mode) ==
  /\ Len(frames) < MaxDepth
  /\ LET new == [decl |-> d, mode |-> mode, pc |-> 1, last |-> 0, node |-> 0,
                 by |-> "interpret", value |-> None]
     IN \/ /\ frames = <<>>
           /\ frames' = <<new>>
           /\ UNCHANGED astNodeFound
        \/ \E by \in {"interpret", "skip_to"}, found \in BOOLEAN :
             /\ ReachesCall(by, found)
             /\ frames' = Append([frames EXCEPT ![Len(frames)].by = by], new)
             /\ astNodeFound' = found
  /\ UNCHANGED <<isReturning, retVal, return_register, result>>

\* ... or a method of the runtime.
CallRuntime ==
  /\ \E by \in {"interpret", "skip_to"}, found \in BOOLEAN :
       /\ ReachesCall(by, found)
       /\ Continue([frames EXCEPT ![Len(frames)].by = by], None, found, retVal)
  /\ UNCHANGED return_register

\* Mutant: the search starts one statement after the call it looks for.
SideExitPastNode ==
  /\ Runs(Guarded)
  /\ NestedExits \/ \A i \in 1..Len(frames) : frames[i].mode # "resumed"
  /\ Replace([Top EXCEPT !.mode = "resumed", !.node = Top.pc, !.pc = @ + 1])
  /\ return_register' = Register[Top.decl]
  /\ UNCHANGED <<context, result>>

\* Mutant: the static is not written and holds what it happens to hold.
SideExitNoRegister ==
  /\ Runs(Guarded)
  /\ NestedExits \/ \A i \in 1..Len(frames) : frames[i].mode # "resumed"
  /\ Replace([Top EXCEPT !.mode = "resumed", !.node = Top.pc, !.pc = 1])
  /\ return_register' = Garbage
  /\ UNCHANGED <<context, result>>

\* A guard fails: reconstructInterpreterContext notes the result register and
\* resumeInInterpreter starts the search at the first statement.
SideExit ==
  /\ Runs(Guarded)
  /\ NestedExits \/ \A i \in 1..Len(frames) : frames[i].mode # "resumed"
  /\ Replace([Top EXCEPT !.mode = "resumed", !.node = Top.pc, !.pc = 1])
  /\ return_register' = Register[Top.decl]
  /\ UNCHANGED <<context, result>>

\* The caller, or the top level, gets r.
Deliver(r, found, kept) ==
  LET rest == SubSeq(frames, 1, Len(frames) - 1)
  IN \/ /\ rest # <<>>
        /\ Continue(rest, r, found, kept)
     \/ /\ rest = <<>>
        /\ frames' = <<>>
        /\ result' = r
        /\ isReturning' = FALSE
        /\ retVal' = kept
        /\ astNodeFound' = found

\* The end of interpretMethod and interpretClosure: take and clear retVal.
LeaveInterpreted ==
  /\ frames # <<>>
  /\ Top.mode = "interpreted" /\ (isReturning \/ AtEnd(Top))
  /\ Deliver(retVal, astNodeFound, None)
  /\ UNCHANGED return_register

LeaveCompiled ==
  /\ frames # <<>>
  /\ Top.mode = "compiled" /\ (AtEnd(Top) \/ CodeReturned(Top))
  /\ Deliver(Top.value, astNodeFound, retVal)
  /\ UNCHANGED return_register

\* Mutant: resumeInInterpreter leaves astNodeFound set.
LeaveResumedFound ==
  /\ frames # <<>>
  /\ Top.mode = "resumed" /\ (isReturning \/ AtEnd(Top))
  /\ Deliver(IF return_register = Register[Top.decl] THEN retVal ELSE Garbage, astNodeFound, retVal)
  /\ UNCHANGED return_register

\* The end of resumeInInterpreter: clear the flags, keep retVal; the trampoline
\* puts it into return_register and the compiled code returns its register.
LeaveResumed ==
  /\ frames # <<>>
  /\ Top.mode = "resumed" /\ (isReturning \/ AtEnd(Top))
  /\ Deliver(IF return_register = Register[Top.decl] THEN retVal ELSE Garbage, FALSE, retVal)
  /\ UNCHANGED return_register

Next ==
  \/ Work
  \/ InterpretReturn
  \/ CompiledReturn
  \/ SkipStatement
  \/ \E d \in Decls, mode \in {"interpreted", "compiled"} : Enter(d, mode)
  \/ CallRuntime
  \/ SideExit
  \/ LeaveInterpreted
  \/ LeaveCompiled
  \/ LeaveResumed

Spec == Init /\ [][Next]_vars

-----------------------------------------------------------------------------
(* Properties.                                                             *)

\* The value a frame is going to end with.
ValueOf(i) ==
  IF frames[i].mode = "compiled" THEN frames[i].value
  ELSE IF i = Len(frames) /\ isReturning THEN retVal
  ELSE None

Abstract == INSTANCE Activations WITH
  stack <- [i \in 1..Len(frames) |-> [decl |-> frames[i].decl, done |-> frames[i].last,
                                      value |-> ValueOf(i)]]

\* Mixing interpreted, compiled and resumed activations is invisible: every
\* activation runs its statements in order, each once, and its caller gets its
\* own return value.
ImplementsActivations == Abstract!Spec

\* However side exits nest, the context is clean when the top-level statement
\* ends: no search is under way and nothing is returning.
ContextIsClean == frames = <<>> => ~astNodeFound /\ ~isReturning

\* While it looks for the node to resume at, skip_to executes nothing: a
\* resumed activation runs no statement before that node again.
\* (The code does not keep this: see the README's deviations.)
NothingIsRepeated ==
  [][\A i \in 1..Len(frames) :
       i <= Len(frames') /\ frames[i].mode = "resumed" /\ frames'[i].last # frames[i].last
         => frames'[i].last >= frames[i].node]_vars

\* The trampoline puts the result of a resumption into the register that the
\* stackmap of the code it returns to says.
\* (The code does not keep this: see the README's deviations.)
ResultInItsRegister ==
  \A i \in 1..Len(frames) :
    (i = Len(frames) /\ frames[i].mode = "resumed") => return_register = Register[frames[i].decl]

\* A function that ends without executing a return statement returns null.
\* (The code does not keep this: see the README's deviations.)
ImplicitReturnIsNull ==
  [][Len(frames') < Len(frames) /\ ~CodeReturned(Top) => result' = None]_vars
=============================================================================
