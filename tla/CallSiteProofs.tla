--------------------------- MODULE CallSiteProofs ---------------------------
(***************************************************************************)
(* Proofs about CallSite for every set of classes, every method table and  *)
(* every pair of thresholds.                                               *)
(***************************************************************************)
EXTENDS CallSite, TLAPS

\* What the counter of the Call node means: a non-zero count is a number of
\* calls in a row, ending with the last one, that had the alternative class.
CountWithinRun ==
  /\ alternative_type_count > 0 => seen = alternative_type /\ alternative_type_count <= run
  /\ type_assumption = None => alternative_type_count = 0

\* Which modes go with which state of the function and of cur_jit_function;
\* only a compiled function is flagged (a callee flags the compiled function
\* that called it), and an interpreted one has not reached the threshold.
ModeInv ==
  /\ activation = "interpreted" => ~IsCompiled /\ cur_jit_function # This
  /\ activation \in {"compiled", "resumed"} => IsCompiled /\ cur_jit_function = This
  /\ recompile => IsCompiled
  /\ ~IsCompiled => executionCount < CompileThreshold

IInv == TypeOK /\ CountWithinRun /\ ModeInv

-----------------------------------------------------------------------------
LEMMA InitIInv == Init => IInv
  <1> SUFFICES ASSUME Init PROVE IInv
    OBVIOUS
  <1>1. recompile \in BOOLEAN /\ called \in BOOLEAN
    BY Zenon DEF Init
  <1>2. function \in CompiledCode \cup {Trampoline}
    BY DEF Init
  <1>3. TypeOK
    BY <1>1, <1>2, ThresholdAssumption DEF Init, TypeOK
  <1>4. CountWithinRun
    BY DEF Init, CountWithinRun
  <1>5. ModeInv
    BY ThresholdAssumption DEF Init, ModeInv, IsCompiled, Trampoline
  <1> QED
    BY <1>3, <1>4, <1>5 DEF IInv

\* A callee may set this decl's flag, never clears it, and cannot reach it
\* while another decl is the running one.
LEMMA CalleeFlags ==
  ASSUME NEW flag \in BOOLEAN, FlagAfterCallee(flag)
  PROVE  /\ recompile' \in BOOLEAN
         /\ flag => recompile'
         /\ cur_jit_function # This => recompile' = flag
  BY Zenon DEF FlagAfterCallee

\* One call through do_call keeps the types of the node and of the history,
\* keeps the meaning of the counter, and obeys the rule for switching.
LEMMA DoCallStep ==
  ASSUME TypeOK, CountWithinRun, NEW c \in Classes, do_call(c)
  PROVE  /\ type_assumption' \in Classes
         /\ alternative_type' \in Classes \cup {None}
         /\ alternative_type_count' \in 0..RECOMPILE_THRESHOLD
         /\ cachedMethod' \in Methods \cup {None}
         /\ recompile' \in BOOLEAN
         /\ recompile \/ (Switches(c) /\ cur_jit_function = This) => recompile'
         /\ cur_jit_function # This => recompile' = recompile
         /\ called' = TRUE
         /\ seen' = c
         /\ run' \in 0..(RECOMPILE_THRESHOLD + 1)
         /\ invoked' \in Methods \cup {None}
         /\ CountWithinRun'
         /\ type_assumption # None /\ type_assumption' # type_assumption
              => run' > RECOMPILE_THRESHOLD /\ seen' = type_assumption'
  <1> USE ThresholdAssumption, NoneAssumption DEF TypeOK, CountWithinRun, do_call
  <1>1. run' \in 1..(RECOMPILE_THRESHOLD + 1) /\ seen' = c
    BY DEF Observe
  <1>2. c = seen => run' > RECOMPILE_THRESHOLD \/ run' = run + 1
    BY DEF Observe
  <1>3. cachedMethod' \in Methods \cup {None} /\ invoked' \in Methods \cup {None}
    BY LookupAssumption DEF Dispatch
  <1>4. /\ called' = TRUE
        /\ recompile' \in BOOLEAN
        /\ recompile \/ (Switches(c) /\ cur_jit_function = This) => recompile'
        /\ cur_jit_function # This => recompile' = recompile
    <2> DEFINE flag == recompile \/ (Switches(c) /\ cur_jit_function = This)
    <2>1. flag \in BOOLEAN /\ FlagAfterCallee(flag) /\ called' = TRUE
      BY Zenon
    <2>2. cur_jit_function # This => flag = recompile
      BY Zenon
    <2> HIDE DEF flag
    <2>3. recompile' \in BOOLEAN /\ (flag => recompile') /\ (cur_jit_function # This => recompile' = flag)
      BY <2>1, CalleeFlags
    <2> QED BY <2>1, <2>2, <2>3, Zenon DEF flag
  <1>5. CASE HitAssumption(c)
    BY <1>1, <1>3, <1>4, <1>5 DEF HitAssumption
  <1>6. CASE FirstType(c)
    BY <1>1, <1>3, <1>4, <1>6 DEF FirstType
  <1>7. CASE CountAlternative(c)
    BY <1>1, <1>2, <1>3, <1>4, <1>7 DEF CountAlternative
  <1>8. CASE SwitchAssumption(c)
    BY <1>1, <1>2, <1>3, <1>4, <1>8 DEF SwitchAssumption, Switches
  <1>9. CASE NewAlternative(c)
    BY <1>1, <1>3, <1>4, <1>9 DEF NewAlternative
  <1> QED
    BY <1>5, <1>6, <1>7, <1>8, <1>9 DEF TypeAccounting

-----------------------------------------------------------------------------
LEMMA NextIInv == IInv /\ [Next]_vars => IInv'
  <1> SUFFICES ASSUME IInv, [Next]_vars PROVE IInv'
    OBVIOUS
  <1> USE ThresholdAssumption, NoneAssumption
      DEF IsCompiled, Running, Dead, This, CallerDecl, NoDecl, node, history
  <1>1. ASSUME EnterInterpreter PROVE IInv'
    <2>0. executionCount' \in 0..CompileThreshold /\ executionCount' # CompileThreshold
      <3>1. executionCount \in 0..CompileThreshold
        BY DEF IInv, TypeOK
      <3>2. executionCount < CompileThreshold
        BY <1>1 DEF IInv, ModeInv, EnterInterpreter
      <3>3. executionCount' = executionCount + 1 /\ executionCount + 1 # CompileThreshold
        BY <1>1 DEF EnterInterpreter
      <3> QED BY <3>1, <3>2, <3>3
    <2>1. TypeOK'
      BY <1>1, <2>0 DEF IInv, TypeOK, EnterInterpreter
    <2>2. CountWithinRun'
      BY <1>1 DEF IInv, CountWithinRun, EnterInterpreter
    <2>3. ModeInv'
      <3>1. executionCount' < CompileThreshold
        BY <2>0
      <3> QED BY <1>1, <3>1 DEF IInv, ModeInv, EnterInterpreter
    <2> QED BY <2>1, <2>2, <2>3 DEF IInv
  <1>2. ASSUME EnterAndCompile PROVE IInv'
    <2>1. Snapshot \in CompiledCode /\ Snapshot.kind = "code"
      BY DEF Snapshot, CompiledCode, IInv, TypeOK
    <2>0. executionCount' \in 0..CompileThreshold
      <3>1. executionCount \in 0..CompileThreshold
        BY DEF IInv, TypeOK
      <3>2. executionCount < CompileThreshold
        BY <1>2 DEF IInv, ModeInv, EnterAndCompile
      <3>3. executionCount' = executionCount + 1
        BY <1>2 DEF EnterAndCompile
      <3> QED BY <3>1, <3>2, <3>3
    <2>2. TypeOK'
      BY <1>2, <2>0, <2>1 DEF IInv, TypeOK, EnterAndCompile
    <2>3. CountWithinRun'
      BY <1>2 DEF IInv, CountWithinRun, EnterAndCompile
    <2>4. ModeInv'
      BY <1>2, <2>1 DEF IInv, ModeInv, EnterAndCompile
    <2> QED BY <2>2, <2>3, <2>4 DEF IInv
  <1>3. ASSUME EnterCompiled PROVE IInv'
    <2>1. TypeOK'
      BY <1>3 DEF IInv, TypeOK, EnterCompiled
    <2>2. CountWithinRun'
      BY <1>3 DEF IInv, CountWithinRun, EnterCompiled
    <2>3. ModeInv'
      BY <1>3 DEF IInv, ModeInv, EnterCompiled
    <2> QED BY <2>1, <2>2, <2>3 DEF IInv
  <1>4. ASSUME NEW c \in Classes, InterpretedCall(c) PROVE IInv'
    <2>1. TypeOK' /\ CountWithinRun'
      BY <1>4, DoCallStep DEF IInv, TypeOK, InterpretedCall
    <2>2. cur_jit_function # This => recompile' = recompile
      BY <1>4, DoCallStep DEF IInv, InterpretedCall
    <2>3. recompile' => IsCompiled
      <3>1. CASE cur_jit_function = This
        BY <1>4, <3>1 DEF IInv, ModeInv, InterpretedCall
      <3>2. CASE cur_jit_function # This
        BY <2>2, <3>2 DEF IInv, ModeInv
      <3> QED BY <3>1, <3>2
    <2>4. ModeInv'
      BY <1>4, <2>3 DEF IInv, ModeInv, InterpretedCall
    <2> QED BY <2>1, <2>4 DEF IInv
  <1>5. ASSUME NEW c \in Classes, CompiledHit(c) PROVE IInv'
    <2>1. function.target \in Methods \cup {None}
      <3>1. function \in CompiledCode
        <4>1. IsCompiled
          BY <1>5 DEF IInv, ModeInv, CompiledHit
        <4>2. function \in CompiledCode \cup {Trampoline}
          BY DEF IInv, TypeOK
        <4> QED BY <4>1, <4>2 DEF Trampoline
      <3> QED BY <3>1 DEF CompiledCode
    <2>5. run' \in 0..(RECOMPILE_THRESHOLD + 1) /\ seen' = c
      <3>1. run \in 0..(RECOMPILE_THRESHOLD + 1)
        BY DEF IInv, TypeOK
      <3>2. Observe(c)
        BY <1>5 DEF CompiledHit
      <3> QED BY <3>1, <3>2 DEF Observe
    <2>2. TypeOK'
      <3>1. 0 \in 0..RECOMPILE_THRESHOLD
        OBVIOUS
      <3>2. TypeOK
        BY DEF IInv
      <3>3. recompile' \in BOOLEAN
        BY <1>5, <3>2, CalleeFlags DEF CompiledHit, TypeOK
      <3> QED BY <1>5, <2>1, <2>5, <3>1, <3>2, <3>3 DEF TypeOK, CompiledHit
    <2>3. CountWithinRun'
      BY <1>5 DEF IInv, CountWithinRun, CompiledHit
    <2>4. ModeInv'
      BY <1>5 DEF IInv, ModeInv, CompiledHit
    <2> QED BY <2>2, <2>3, <2>4 DEF IInv
  <1>6. ASSUME NEW c \in Classes, SideExit(c) PROVE IInv'
    <2>1. TypeOK' /\ CountWithinRun'
      BY <1>6, DoCallStep DEF IInv, TypeOK, SideExit
    <2>2. ModeInv'
      BY <1>6 DEF IInv, ModeInv, SideExit
    <2> QED BY <2>1, <2>2 DEF IInv
  <1>7. ASSUME Return PROVE IInv'
    <2>1. TypeOK'
      BY <1>7 DEF IInv, TypeOK, Return
    <2>2. CountWithinRun' /\ ModeInv'
      BY <1>7 DEF IInv, CountWithinRun, ModeInv, Return
    <2> QED BY <2>1, <2>2 DEF IInv
  <1>8. ASSUME ReturnFromResumption PROVE IInv'
    <2>1. Snapshot \in CompiledCode
      BY DEF Snapshot, CompiledCode, IInv, TypeOK
    <2>2. function' \in CompiledCode \cup {Trampoline}
      BY <1>8, <2>1 DEF ReturnFromResumption, IInv, TypeOK
    <2>3. TypeOK'
      BY <1>8, <2>2 DEF IInv, TypeOK, ReturnFromResumption
    <2>4. CountWithinRun'
      BY <1>8 DEF IInv, CountWithinRun, ReturnFromResumption
    <2>5. IsCompiled'
      BY <1>8 DEF IInv, ModeInv, ReturnFromResumption, Snapshot
    <2>6. ModeInv'
      BY <1>8, <2>5 DEF ModeInv, ReturnFromResumption
    <2> QED BY <2>3, <2>4, <2>6 DEF IInv
  <1>9. ASSUME Die PROVE IInv'
    <2>1. /\ activation \in Running /\ activation' \in Dead
          /\ UNCHANGED <<node, executionCount, recompile, function, cur_jit_function, called, history>>
      BY <1>9 DEF Die, NullOwner, GuardFault, NullReceiver
    <2>2. TypeOK'
      BY <2>1 DEF IInv, TypeOK
    <2>3. CountWithinRun' /\ ModeInv'
      BY <2>1 DEF IInv, CountWithinRun, ModeInv
    <2> QED BY <2>2, <2>3 DEF IInv
  <1>10. ASSUME UNCHANGED vars PROVE IInv'
    <2>1. TypeOK'
      BY <1>10 DEF IInv, TypeOK, vars
    <2>2. CountWithinRun' /\ ModeInv'
      BY <1>10 DEF IInv, CountWithinRun, ModeInv, vars
    <2> QED BY <2>1, <2>2 DEF IInv
  <1> QED
    BY <1>1, <1>2, <1>3, <1>4, <1>5, <1>6, <1>7, <1>8, <1>9, <1>10
       DEF Next, Enter, Call, Leave

LEMMA Inductive == Spec => []IInv
  BY InitIInv, NextIInv, PTL DEF Spec

\* Every field of the Call node, of the decl and of the method table keeps its
\* type; in particular the miss counter never passes RECOMPILE_THRESHOLD.
THEOREM TypeCorrect == Spec => []TypeOK
  <1>1. IInv => TypeOK
    BY DEF IInv
  <1> QED BY <1>1, Inductive, PTL

\* A type assumption is given up only after more than RECOMPILE_THRESHOLD
\* consecutive calls with the class that replaces it: do_call's accounting
\* and the counter reset of the compiled fast path together.
THEOREM ContiguousRun == Spec => SwitchNeedsContiguousRun
  <1>1. IInv /\ [Next]_vars =>
          [type_assumption # None /\ type_assumption' # type_assumption
             => run' > RECOMPILE_THRESHOLD /\ seen' = type_assumption']_vars
    <2> SUFFICES ASSUME IInv, Next, type_assumption # None, type_assumption' # type_assumption
                 PROVE  run' > RECOMPILE_THRESHOLD /\ seen' = type_assumption'
      OBVIOUS
    <2>1. \E c \in Classes : do_call(c)
      BY DEF Next, Enter, EnterInterpreter, EnterAndCompile, EnterCompiled, Call,
             InterpretedCall, CompiledHit, SideExit, Leave, Return, ReturnFromResumption,
             Die, NullOwner, GuardFault, NullReceiver, node
    <2> QED
      BY <2>1, DoCallStep DEF IInv
  <1> QED
    BY <1>1, Inductive, PTL DEF Spec, SwitchNeedsContiguousRun

-----------------------------------------------------------------------------
\* The code will be replaced before it runs again: its activation has left it
\* and ends with a recompilation.  A flag set by a callee of running compiled
\* code does not count: nothing acts on it until a side exit.
Doomed == recompile /\ activation \in {"resumed"} \cup Dead

\* Compiled code that is not about to be replaced was compiled for the
\* present type assumption, or before the call site had seen any class.
FreshCode == IsCompiled /\ ~Doomed => function.assumed \in {type_assumption, None}

LEMMA InitFreshCode == Init => FreshCode
  BY DEF Init, FreshCode, IsCompiled, Trampoline

LEMMA NextFreshCode == IInv /\ FreshCode /\ [Next]_vars => FreshCode'
  <1> SUFFICES ASSUME IInv, FreshCode, [Next]_vars PROVE FreshCode'
    OBVIOUS
  <1> USE DEF FreshCode, IsCompiled, Dead
  <1>1. ASSUME function' = Snapshot, UNCHANGED node PROVE FreshCode'
    BY <1>1 DEF Snapshot, node
  <1>2. ASSUME NEW c \in Classes, do_call(c), UNCHANGED function, cur_jit_function = This,
               activation \in {"compiled", "resumed"}, activation' = "resumed"
        PROVE  FreshCode'
    <2>1. type_assumption' = type_assumption \/ type_assumption = None \/ Switches(c)
      BY <1>2 DEF do_call, TypeAccounting, HitAssumption, FirstType, CountAlternative,
                  SwitchAssumption, NewAlternative
    <2>2. recompile \/ Switches(c) => recompile'
      BY <1>2, DoCallStep DEF IInv
    <2>3. CASE recompile'
      BY <1>2, <2>3 DEF Doomed
    <2>4. CASE ~recompile'
      BY <1>2, <2>1, <2>2, <2>4 DEF Doomed
    <2> QED BY <2>3, <2>4
  <1>3. ASSUME NEW c \in Classes, InterpretedCall(c) PROVE FreshCode'
    <2>1. CASE activation = "interpreted"
      BY <1>3, <2>1 DEF InterpretedCall, IInv, ModeInv
    <2>2. CASE activation = "resumed"
      BY <1>3, <1>2, <2>2 DEF InterpretedCall, IInv, ModeInv
    <2> QED BY <1>3, <2>1, <2>2 DEF InterpretedCall
  <1>4. ASSUME NEW c \in Classes, SideExit(c) PROVE FreshCode'
    BY <1>4, <1>2 DEF SideExit, IInv, ModeInv
  <1>5. ASSUME NEW c \in Classes, CompiledHit(c) PROVE FreshCode'
    BY <1>5 DEF CompiledHit, Doomed
  <1>6. ASSUME ReturnFromResumption PROVE FreshCode'
    <2>1. CASE recompile
      BY <1>1, <1>6, <2>1 DEF ReturnFromResumption
    <2>2. CASE ~recompile
      BY <1>6, <2>2 DEF ReturnFromResumption, Doomed, node
    <2> QED BY <2>1, <2>2
  <1>7. ASSUME EnterAndCompile PROVE FreshCode'
    BY <1>7, <1>1 DEF EnterAndCompile
  <1>8. ASSUME EnterInterpreter \/ EnterCompiled \/ Return PROVE FreshCode'
    <2>1. UNCHANGED <<node, function>> /\ activation \notin {"resumed"} \cup Dead
      BY <1>8 DEF EnterInterpreter, EnterCompiled, Return
    <2> QED BY <2>1 DEF Doomed, node
  <1>9. ASSUME Die PROVE FreshCode'
    <2>1. UNCHANGED <<node, function, recompile>> /\ activation' \in Dead
      BY <1>9 DEF Die, NullOwner, GuardFault, NullReceiver
    <2> QED BY <2>1 DEF Doomed, node
  <1>10. ASSUME UNCHANGED vars PROVE FreshCode'
    BY <1>10 DEF Doomed, vars, node
  <1> QED
    BY <1>3, <1>4, <1>5, <1>6, <1>7, <1>8, <1>9, <1>10 DEF Next, Enter, Call, Leave

LEMMA AlwaysFreshCode == Spec => []FreshCode
  BY InitFreshCode, NextFreshCode, Inductive, PTL DEF Spec

-----------------------------------------------------------------------------
\* When every activation reaches the call site and the compiler is not forced,
\* the site has seen a class before the function is compiled.
SiteSeenFirst ==
  /\ IsCompiled => type_assumption # None /\ function.assumed # None
  /\ called => type_assumption # None
  /\ activation = "idle" /\ executionCount > 0 => type_assumption # None
  /\ activation = "resumed" => called

LEMMA NextSiteSeenFirst ==
  ASSUME CallOnEveryPath, ~ForceCompiler, CompileThreshold > 1,
         IInv, SiteSeenFirst, [Next]_vars
  PROVE  SiteSeenFirst'
  <1> USE NoneAssumption DEF SiteSeenFirst, IsCompiled
  <1>1. ASSUME EnterInterpreter \/ EnterCompiled PROVE SiteSeenFirst'
    BY <1>1 DEF EnterInterpreter, EnterCompiled, node
  <1>2. ASSUME EnterAndCompile PROVE SiteSeenFirst'
    <2>1. executionCount + 1 = CompileThreshold /\ activation = "idle"
      BY <1>2 DEF EnterAndCompile, IInv, ModeInv, Dead
    <2>2. executionCount \in Nat
      BY ThresholdAssumption DEF IInv, TypeOK
    <2>3. type_assumption # None
      BY <2>1, <2>2
    <2> QED BY <1>2, <2>3 DEF EnterAndCompile, Snapshot, node
  <1>3. ASSUME NEW c \in Classes, do_call(c), UNCHANGED function PROVE SiteSeenFirst'
    BY <1>3, DoCallStep DEF IInv
  <1>4. ASSUME NEW c \in Classes, CompiledHit(c) PROVE SiteSeenFirst'
    BY <1>4 DEF CompiledHit, IInv, ModeInv
  <1>5. ASSUME Return PROVE SiteSeenFirst'
    BY <1>5 DEF Return, MayReturn, node
  <1>6. ASSUME ReturnFromResumption PROVE SiteSeenFirst'
    BY <1>6 DEF ReturnFromResumption, Snapshot, node
  <1>7. ASSUME Die PROVE SiteSeenFirst'
    <2>1. /\ activation' \in Dead
          /\ UNCHANGED <<node, executionCount, recompile, function, cur_jit_function, called, history>>
      BY <1>7 DEF Die, NullOwner, GuardFault, NullReceiver, Dead
    <2> QED BY <2>1 DEF Dead, node
  <1>8. ASSUME UNCHANGED vars PROVE SiteSeenFirst'
    BY <1>8 DEF vars, node
  <1> QED
    BY <1>1, <1>2, <1>3, <1>4, <1>5, <1>6, <1>7, <1>8
       DEF Next, Enter, Call, Leave, InterpretedCall, SideExit

\* Between activations the compiled code is specialised for the node's type
\* assumption, provided that every activation reaches the call site and the
\* compiler is not forced: the recompilation at the end of
\* reconstructInterpreterContext leaves no stale code behind, whenever callees
\* set the same flag.
THEOREM CodeStaysCurrent ==
  ASSUME CallOnEveryPath, ~ForceCompiler, CompileThreshold > 1
  PROVE  Spec => []CompiledCodeIsCurrent
  <1>1. Init => SiteSeenFirst
    BY DEF Init, SiteSeenFirst, IsCompiled, Trampoline
  <1>2. IInv /\ SiteSeenFirst /\ [Next]_vars => SiteSeenFirst'
    BY NextSiteSeenFirst
  <1>3. IInv /\ FreshCode /\ SiteSeenFirst => CompiledCodeIsCurrent
    BY DEF FreshCode, SiteSeenFirst, CompiledCodeIsCurrent, Doomed, Dead
  <1> QED
    BY <1>1, <1>2, <1>3, Inductive, AlwaysFreshCode, PTL DEF Spec

-----------------------------------------------------------------------------
(* Dispatch when the receivers come in phases longer than the threshold.   *)

\* The node knows the class of the present phase: as its assumption, or as
\* the alternative it has counted for the whole of the phase so far.
PhaseTracked ==
  /\ seen = None <=> type_assumption = None
  /\ seen # None /\ type_assumption = seen => alternative_type_count = 0
  /\ seen # None /\ type_assumption # seen =>
       alternative_type = seen /\ alternative_type_count = run /\ run <= RECOMPILE_THRESHOLD

\* The cache holds the method of the present phase, and so does compiled code
\* whose guard the present phase passes.
CacheOfPhase ==
  seen # None =>
    /\ cachedMethod = Lookup[seen]
    /\ invoked = Lookup[seen]
    /\ IsCompiled /\ ~Doomed /\ function.assumed = seen => function.target = Lookup[seen]

PhasedInv == PhaseTracked /\ CacheOfPhase

LEMMA PhasedDoCall ==
  ASSUME IInv, FreshCode, PhasedInv, NEW c \in Classes, do_call(c), PhasedReceivers,
         UNCHANGED function, ~IsCompiled \/ (cur_jit_function = This /\ activation' = "resumed")
  PROVE  PhasedInv'
  <1> USE NoneAssumption, ThresholdAssumption
  <1>1. /\ seen' = c
        /\ c # seen => run' = 1
        /\ c = seen => run' = IF run > RECOMPILE_THRESHOLD THEN run ELSE run + 1
    BY DEF do_call, Observe
  <1>2. run \in Nat /\ alternative_type_count \in Nat /\ c # None
    BY DEF IInv, TypeOK
  <1>3. c # seen => seen = None \/ type_assumption = seen
    BY <1>1, <1>2 DEF PhasedReceivers, PhasedInv, PhaseTracked
  <1>4. seen # None \/ type_assumption = None
    BY DEF PhasedInv, PhaseTracked
  <1>5. TypeAccounting(c)
    BY DEF do_call
  <1>6. PhaseTracked'
    <2>1. CASE HitAssumption(c)
      BY <1>1, <1>2, <2>1 DEF HitAssumption, PhaseTracked
    <2>2. CASE FirstType(c)
      BY <1>1, <1>2, <2>2 DEF FirstType, IInv, CountWithinRun, PhaseTracked
    <2>3. CASE CountAlternative(c)
      BY <1>1, <1>2, <1>3, <1>4, <2>3 DEF CountAlternative, PhasedInv, PhaseTracked
    <2>4. CASE SwitchAssumption(c)
      BY <1>1, <1>2, <2>4 DEF SwitchAssumption, Switches, PhaseTracked
    <2>5. CASE NewAlternative(c)
      BY <1>1, <1>2, <1>3, <1>4, <2>5 DEF NewAlternative, PhasedInv, PhaseTracked
    <2> QED BY <1>5, <2>1, <2>2, <2>3, <2>4, <2>5 DEF TypeAccounting
  <1>7. cachedMethod' = Lookup[c] /\ invoked' = Lookup[c]
    <2>1. c = type_assumption => c = seen
      BY <1>2, <1>3, <1>4
    <2> QED BY <1>2, <2>1 DEF do_call, Dispatch, PhasedInv, CacheOfPhase
  <1>8. ASSUME IsCompiled', ~Doomed', function.assumed = c PROVE function.target = Lookup[c]
    <2>0. IsCompiled /\ ~recompile'
      BY <1>8 DEF IsCompiled, Doomed
    <2>1. IsCompiled /\ ~Doomed /\ ~Switches(c)
      BY <2>0, DoCallStep DEF IInv, Doomed
    <2>2. type_assumption = c
      BY <1>2, <1>8, <2>1 DEF FreshCode
    <2>3. c = seen
      BY <1>2, <1>3, <1>4, <2>2
    <2> QED BY <1>2, <1>8, <2>1, <2>3 DEF PhasedInv, CacheOfPhase
  <1>9. CacheOfPhase'
    BY <1>1, <1>7, <1>8 DEF CacheOfPhase
  <1> QED BY <1>6, <1>9 DEF PhasedInv

LEMMA NextPhasedInv ==
  IInv /\ FreshCode /\ PhasedInv /\ [Next /\ PhasedReceivers]_vars => PhasedInv'
  <1> SUFFICES ASSUME IInv, FreshCode, PhasedInv, [Next /\ PhasedReceivers]_vars
               PROVE  PhasedInv'
    OBVIOUS
  <1> USE NoneAssumption
  <1>1. ASSUME NEW c \in Classes, InterpretedCall(c), PhasedReceivers PROVE PhasedInv'
    BY <1>1, PhasedDoCall DEF InterpretedCall, IInv, ModeInv
  <1>2. ASSUME NEW c \in Classes, SideExit(c), PhasedReceivers PROVE PhasedInv'
    BY <1>2, PhasedDoCall DEF SideExit, IInv, ModeInv
  <1>3. ASSUME NEW c \in Classes, CompiledHit(c), PhasedReceivers PROVE PhasedInv'
    <2>1. IsCompiled /\ ~Doomed /\ ~Doomed' /\ function.assumed = c /\ c # None
      BY <1>3 DEF CompiledHit, IInv, ModeInv, Doomed, Dead
    <2>2. type_assumption = c
      BY <2>1 DEF FreshCode
    <2>3. seen' = c /\ (c # seen => seen = None \/ run > RECOMPILE_THRESHOLD)
      BY <1>3 DEF CompiledHit, Observe, PhasedReceivers
    <2>4. run \in Nat /\ RECOMPILE_THRESHOLD \in Nat
      BY ThresholdAssumption DEF IInv, TypeOK
    <2>5. seen = c
      BY <2>1, <2>2, <2>3, <2>4 DEF PhasedInv, PhaseTracked
    <2>6. PhaseTracked'
      BY <1>3, <2>1, <2>2, <2>3 DEF CompiledHit, PhaseTracked
    <2>7. CacheOfPhase'
      BY <1>3, <2>1, <2>3, <2>5 DEF CompiledHit, PhasedInv, CacheOfPhase, IsCompiled
    <2> QED BY <2>6, <2>7 DEF PhasedInv
  <1>4. ASSUME function' = Snapshot, UNCHANGED <<node, history>> PROVE PhasedInv'
    BY <1>4 DEF PhasedInv, PhaseTracked, CacheOfPhase, Snapshot, node, history
  <1>5. ASSUME UNCHANGED <<node, history, function>>, Doomed => Doomed' PROVE PhasedInv'
    BY <1>5 DEF PhasedInv, PhaseTracked, CacheOfPhase, IsCompiled, node, history
  <1>6. ASSUME ReturnFromResumption PROVE PhasedInv'
    <2>1. CASE recompile
      BY <1>4, <1>6, <2>1 DEF ReturnFromResumption
    <2>2. CASE ~recompile
      BY <1>5, <1>6, <2>2 DEF ReturnFromResumption, Doomed
    <2> QED BY <2>1, <2>2
  <1>7. ASSUME EnterAndCompile PROVE PhasedInv'
    BY <1>4, <1>7 DEF EnterAndCompile
  <1>8. ASSUME EnterInterpreter \/ EnterCompiled \/ Return PROVE PhasedInv'
    <2>1. UNCHANGED <<node, history, function>> /\ ~Doomed
      BY <1>8 DEF EnterInterpreter, EnterCompiled, Return, Doomed, Dead
    <2> QED BY <1>5, <2>1
  <1>9. ASSUME Die PROVE PhasedInv'
    <2>1. UNCHANGED <<node, history, function, recompile>> /\ activation' \in Dead
      BY <1>9 DEF Die, NullOwner, GuardFault, NullReceiver, Dead
    <2> QED BY <1>5, <2>1 DEF Doomed
  <1>10. ASSUME UNCHANGED vars PROVE PhasedInv'
    BY <1>5, <1>10 DEF vars, Doomed
  <1> QED
    BY <1>1, <1>2, <1>3, <1>6, <1>7, <1>8, <1>9, <1>10 DEF Next, Enter, Call, Leave

\* If the class of the receivers changes only after more than
\* RECOMPILE_THRESHOLD calls in a row with the old class, every call,
\* interpreted, compiled or resumed, runs the method that lookup finds.
THEOREM PhasedDispatch == PhasedSpec => []DispatchCorrect
  <1>1. PhasedSpec => Spec
    <2>1. [Next /\ PhasedReceivers]_vars => [Next]_vars
      OBVIOUS
    <2> QED BY <2>1, PTL DEF PhasedSpec, Spec
  <1>2. Init => PhasedInv
    BY DEF Init, PhasedInv, PhaseTracked, CacheOfPhase
  <1>3. PhasedInv => DispatchCorrect
    BY DEF PhasedInv, CacheOfPhase, DispatchCorrect
  <1> QED
    BY <1>1, <1>2, <1>3, NextPhasedInv, Inductive, AlwaysFreshCode, PTL DEF PhasedSpec
=============================================================================
