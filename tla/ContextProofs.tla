---------------------------- MODULE ContextProofs ---------------------------
(***************************************************************************)
(* Proofs about Context and TopLevel, for any variables, heap cells, depth *)
(* of calls and number of lines.                                           *)
(***************************************************************************)
EXTENDS TopLevel, SequenceTheorems, TLAPS

\* The collector sees what a global has referred to since it was created, in the
\* holder buffer of its Value.
HoldersAgree ==
  \A n \in Names \ assigned : globals[n] \in Objects => holder[n] = globals[n]

\* Only a return inside a function is under way.
ReturnsInsideFunctions == isReturning /\ symbols = <<>> => TopReturn

ContextInv ==
  /\ TypeOK
  /\ HolderHoldsReturnValue
  /\ HoldersAgree
  /\ ReturnsInsideFunctions

LEMMA SpecialValues ==
  /\ SmallInt \notin Objects /\ None \notin Objects /\ Unbound \notin Objects
<1>1. {SmallInt, None, Unbound} \cap Objects = {}  BY ContextAssumption, Zenon
<1> QED  BY <1>1

LEMMA ContextInvInit == Init => ContextInv
<1> SUFFICES ASSUME Init PROVE ContextInv  OBVIOUS
<1>1. TypeOK  BY EmptySeq DEF Init, TypeOK, Values
<1>2. HolderHoldsReturnValue /\ HoldersAgree /\ ReturnsInsideFunctions
  BY SpecialValues DEF Init, HolderHoldsReturnValue, needsGC, HoldersAgree, ReturnsInsideFunctions
<1> QED  BY <1>1, <1>2 DEF ContextInv

\* What Value::set does to the buffer.
LEMMA HolderValue ==
  ASSUME NEW object, NEW buffer, NEW v,
         buffer = IF needsGC(object) THEN object ELSE None
  PROVE  HolderAfterSet(object, buffer, v) = IF needsGC(v) THEN v ELSE None
<1>1. CASE needsGC(object) /\ needsGC(v)  BY <1>1 DEF HolderAfterSet
<1>2. CASE needsGC(object) /\ ~needsGC(v)  BY <1>2 DEF HolderAfterSet
<1>3. CASE ~needsGC(object) /\ needsGC(v)  BY <1>3 DEF HolderAfterSet
<1>4. CASE ~needsGC(object) /\ ~needsGC(v)  BY <1>4 DEF HolderAfterSet
<1> QED  BY <1>1, <1>2, <1>3, <1>4

\* The tables, and one of their entries.
LEMMA TableEntry ==
  ASSUME NEW t \in Table
  PROVE  /\ t \in [DOMAIN t -> Values] /\ DOMAIN t \subseteq Names
         /\ \A n \in DOMAIN t : t[n] \in Values
         /\ \A n \in DOMAIN t : \A v \in Values : [t EXCEPT ![n] = v] \in Table
<1>1. PICK dom \in SUBSET Names : t \in [dom -> Values]  BY DEF Table
<1>2. dom = DOMAIN t  BY <1>1
<1>3. ASSUME NEW n \in DOMAIN t, NEW v \in Values PROVE [t EXCEPT ![n] = v] \in Table
  <2>1. [t EXCEPT ![n] = v] \in [dom -> Values]  BY <1>1, <1>2
  <2> QED  BY <2>1 DEF Table
<1> QED  BY <1>1, <1>2, <1>3

\* The table lookupSymbol finds a name in, and the value there.
LEMMA LookupFinds ==
  ASSUME TypeOK, NEW n \in Names
  PROVE  /\ TableOf(n) \in 0..Len(symbols)
         /\ TableOf(n) > 0 => /\ symbols # <<>> /\ TableOf(n) = Len(symbols)
                              /\ TableOf(n) \in 1..Len(symbols)
                              /\ n \in DOMAIN symbols[TableOf(n)]
                              /\ symbols[TableOf(n)] \in Table
<1>1. symbols \in Seq(Table)  BY DEF TypeOK
<1>2. Len(symbols) \in Nat /\ (symbols # <<>> => Len(symbols) > 0)  BY <1>1, LenProperties, EmptySeq
<1>3. CASE symbols # <<>> /\ n \in DOMAIN symbols[Len(symbols)]
  <2>1. TableOf(n) = Len(symbols)  BY <1>3, Zenon DEF TableOf
  <2>2. Len(symbols) \in 1..Len(symbols)  BY <1>2, <1>3
  <2>3. symbols[Len(symbols)] \in Table  BY <1>1, <2>2, ElementOfSeq
  <2> QED  BY <1>2, <1>3, <2>1, <2>2, <2>3
<1>4. CASE ~(symbols # <<>> /\ n \in DOMAIN symbols[Len(symbols)])
  <2>1. TableOf(n) = 0  BY <1>4, Zenon DEF TableOf
  <2> QED  BY <1>2, <2>1
<1> QED  BY <1>3, <1>4

\* The tables that are left when the last one is popped.
LEMMA Popped ==
  ASSUME TypeOK, symbols # <<>>, NEW rest, rest = SubSeq(symbols, 1, Len(symbols) - 1)
  PROVE  /\ rest \in Seq(Table) /\ Len(rest) = Len(symbols) - 1 /\ Len(rest) \in Nat
         /\ \A i \in 1..Len(rest) : rest[i] = symbols[i] /\ i \in 1..Len(symbols)
<1>1. symbols \in Seq(Table)  BY DEF TypeOK
<1>2. Len(symbols) \in Nat /\ Len(symbols) > 0  BY <1>1, LenProperties, EmptySeq
<1>3. /\ rest \in Seq(Table) /\ Len(rest) = Len(symbols) - 1
      /\ \A i \in 1..(Len(symbols) - 1) : rest[i] = symbols[i]
  <2> DEFINE n == Len(symbols)
  <2>1. n \in Nat \ {0} /\ n - 1 \in Nat  BY <1>2
  <2>2. \A j \in 1..(n - 1) : 1 + j - 1 = j /\ j \in 1..n  BY <2>1
  <2>3. 1 \in 1..(n + 1) /\ n - 1 \in 0..n /\ (n - 1) - 1 + 1 = n - 1  BY <2>1
  <2> QED  BY <1>1, <2>1, <2>2, <2>3, SubSeqProperties
<1> QED  BY <1>2, <1>3

\* The parts of the invariant that concern globals only.
LEMMA SameGlobals ==
  ASSUME HoldersAgree, UNCHANGED <<globals, holder, assigned>>
  PROVE  HoldersAgree'
  BY DEF HoldersAgree

\* A step of an expression: only the operand and the heap change.
LEMMA OperandStep ==
  ASSUME ContextInv, heap' \subseteq Objects, operand' \in Values,
         UNCHANGED <<globals, holder, symbols, retVal, retHolder, isReturning, assigned>>
  PROVE  ContextInv'
<1>1. TypeOK'  BY DEF ContextInv, TypeOK
<1>2. HolderHoldsReturnValue' /\ ReturnsInsideFunctions'
  BY DEF ContextInv, HolderHoldsReturnValue, needsGC, ReturnsInsideFunctions
<1> QED  BY <1>1, <1>2, SameGlobals DEF ContextInv

LEMMA AllocateInv == ASSUME ContextInv, NEW o \in Objects, Allocate(o) PROVE ContextInv'
<1>1. heap \subseteq Objects  BY DEF ContextInv, TypeOK
<1> QED  BY <1>1, OperandStep DEF Allocate, Values

LEMMA ConstantInv == ASSUME ContextInv, NEW v \in {SmallInt, None}, Constant(v) PROVE ContextInv'
<1>1. heap \subseteq Objects  BY DEF ContextInv, TypeOK
<1> QED  BY <1>1, SpecialValues, OperandStep DEF Constant, Values

LEMMA SetLocalInv == ASSUME ContextInv, NEW n \in Names, SetLocal(n) PROVE ContextInv'
<1> DEFINE i == TableOf(n)
<1>1. TypeOK /\ symbols \in Seq(Table) /\ operand \in Values  BY DEF ContextInv, TypeOK
<1>2. i \in 1..Len(symbols) /\ n \in DOMAIN symbols[i] /\ symbols[i] \in Table /\ symbols # <<>>
  BY <1>1, LookupFinds DEF SetLocal
<1> DEFINE t == [symbols[i] EXCEPT ![n] = operand]
<1>3. t \in Table /\ DOMAIN t = DOMAIN symbols[i]
      /\ \A k \in DOMAIN t : t[k] = IF k = n THEN operand ELSE symbols[i][k]
  BY <1>1, <1>2, TableEntry
<1>4. symbols' = [symbols EXCEPT ![i] = t]  BY DEF SetLocal
<1> HIDE DEF i, t
<1>5. /\ symbols' \in Seq(Table) /\ Len(symbols') = Len(symbols)
      /\ \A j \in 1..Len(symbols) : symbols'[j] = IF j = i THEN t ELSE symbols[j]
  BY <1>1, <1>2, <1>3, <1>4, ExceptSeq
<1>6. TypeOK'  BY <1>1, <1>5 DEF TypeOK, SetLocal
<1>7. HolderHoldsReturnValue'
  BY DEF ContextInv, HolderHoldsReturnValue, needsGC, SetLocal
<1>8. ReturnsInsideFunctions'  BY DEF ReturnsInsideFunctions, SetLocal
<1> QED  BY <1>6, <1>7, <1>8, SameGlobals DEF ContextInv, SetLocal

LEMMA LoadInv == ASSUME ContextInv, NEW n \in Names, Load(n) PROVE ContextInv'
<1>1. TypeOK /\ heap \subseteq Objects /\ None \in Values  BY DEF ContextInv, TypeOK, Values
<1>2. CASE TableOf(n) = 0
  <2>1. lookupSymbol(n) = globals[n]  BY <1>2 DEF lookupSymbol
  <2>2. globals[n] \in Values \cup {Unbound}  BY <1>1 DEF TypeOK
  <2>3. operand' \in Values  BY <1>1, <2>1, <2>2 DEF Load
  <2> QED  BY <1>1, <2>3, OperandStep DEF Load
<1>3. CASE TableOf(n) # 0
  <2> DEFINE i == TableOf(n)
  <2>1. i \in 1..Len(symbols) /\ n \in DOMAIN symbols[i] /\ symbols[i] \in Table
    BY <1>1, <1>3, LookupFinds
  <2>2. lookupSymbol(n) = symbols[i][n]  BY <1>3 DEF lookupSymbol
  <2>3. symbols[i][n] \in Values  BY <2>1, TableEntry
  <2> HIDE DEF i
  <2>4. operand' \in Values  BY <1>1, <2>2, <2>3 DEF Load
  <2> QED  BY <1>1, <2>4, OperandStep DEF Load
<1> QED  BY <1>2, <1>3

\* A new global: its buffer holds the object from the start.
LEMMA NewGlobalInv == ASSUME ContextInv, NEW n \in Names, NewGlobal(n) PROVE ContextInv'
<1>1. TypeOK /\ HoldersAgree /\ operand \in Values  BY DEF ContextInv, TypeOK
<1>2. holder' = [holder EXCEPT ![n] = IF needsGC(operand) THEN operand ELSE None]
  <2>1. None = IF needsGC(None) THEN None ELSE None  OBVIOUS
  <2>2. HolderAfterSet(None, None, operand) = IF needsGC(operand) THEN operand ELSE None
    BY <2>1, HolderValue
  <2> QED  BY <2>2 DEF NewGlobal
<1>3. TypeOK'  BY <1>1, <1>2 DEF TypeOK, NewGlobal, needsGC
<1>4. HolderHoldsReturnValue'
  BY DEF ContextInv, HolderHoldsReturnValue, needsGC, NewGlobal
<1>5. HoldersAgree'
  BY <1>1, <1>2 DEF HoldersAgree, TypeOK, NewGlobal, needsGC
<1>6. ReturnsInsideFunctions'  BY DEF ReturnsInsideFunctions, NewGlobal
<1> QED  BY <1>3, <1>4, <1>5, <1>6 DEF ContextInv

\* A store into an existing global passes by the buffer: from then on the
\* collector need not see what the global refers to.
LEMMA SetGlobalInv == ASSUME ContextInv, NEW n \in Names, SetGlobal(n) PROVE ContextInv'
<1>1. TypeOK /\ HoldersAgree /\ operand \in Values  BY DEF ContextInv, TypeOK
<1>2. TypeOK'  BY <1>1 DEF TypeOK, SetGlobal
<1>3. HolderHoldsReturnValue'
  BY DEF ContextInv, HolderHoldsReturnValue, needsGC, SetGlobal
<1>4. HoldersAgree'  BY <1>1 DEF HoldersAgree, TypeOK, SetGlobal
<1>5. ReturnsInsideFunctions'  BY DEF ReturnsInsideFunctions, SetGlobal
<1> QED  BY <1>2, <1>3, <1>4, <1>5 DEF ContextInv

LEMMA EnterInv ==
  ASSUME ContextInv, NEW params \in SUBSET Names, NEW locals \in SUBSET Names, Enter(params, locals)
  PROVE  ContextInv'
<1> DEFINE t == [n \in params \cup locals |-> IF n \in locals THEN None ELSE operand]
<1>1. TypeOK /\ operand \in Values /\ symbols \in Seq(Table)
  BY DEF ContextInv, TypeOK
<1>2. t \in Table
  <2>1. t \in [params \cup locals -> Values]  BY <1>1 DEF Values
  <2> QED  BY <2>1 DEF Table
<1>3. symbols' = Append(symbols, t)  BY DEF Enter
<1> HIDE DEF t
<1>4. symbols' \in Seq(Table)  BY <1>1, <1>2, <1>3, AppendProperties
<1>5. TypeOK'  BY <1>1, <1>4 DEF TypeOK, Enter
<1>6. HolderHoldsReturnValue'
  BY DEF ContextInv, HolderHoldsReturnValue, needsGC, Enter
<1>7. ReturnsInsideFunctions'  BY DEF ReturnsInsideFunctions, Enter
<1> QED  BY <1>5, <1>6, <1>7, SameGlobals DEF ContextInv, Enter

LEMMA ReturnInv == ASSUME ContextInv, Return PROVE ContextInv'
<1>1. TypeOK /\ operand \in Values  BY DEF ContextInv, TypeOK
<1>2. retHolder' = IF needsGC(operand) THEN operand ELSE None
  <2>1. retHolder = IF needsGC(retVal) THEN retVal ELSE None
    BY DEF ContextInv, HolderHoldsReturnValue
  <2> QED  BY <2>1, HolderValue DEF Return
<1>3. TypeOK'  BY <1>1, <1>2 DEF TypeOK, Return, needsGC
<1>4. HolderHoldsReturnValue'  BY <1>2 DEF HolderHoldsReturnValue, needsGC, Return
<1>5. ReturnsInsideFunctions'  BY DEF ReturnsInsideFunctions, Return
<1> QED  BY <1>3, <1>4, <1>5, SameGlobals DEF ContextInv, Return

\* Leaving a function, with whatever is left in retVal.
LEMMA PopInv ==
  ASSUME ContextInv, symbols # <<>>, isReturning' = FALSE, operand' = retVal,
         symbols' = SubSeq(symbols, 1, Len(symbols) - 1), UNCHANGED <<globals, holder, heap, assigned>>,
         retVal' \in Values, retHolder' = IF needsGC(retVal') THEN retVal' ELSE None
  PROVE  ContextInv'
<1>1. TypeOK  BY DEF ContextInv
<1>2. symbols' \in Seq(Table)  BY <1>1, Popped
<1>3. TypeOK'  BY <1>1, <1>2 DEF TypeOK, needsGC
<1>4. HolderHoldsReturnValue'  BY DEF HolderHoldsReturnValue, needsGC
<1>5. ReturnsInsideFunctions'  BY DEF ReturnsInsideFunctions
<1> QED  BY <1>3, <1>4, <1>5, SameGlobals DEF ContextInv

LEMMA LeaveInv == ASSUME ContextInv, Leave PROVE ContextInv'
<1>1. retHolder = IF needsGC(retVal) THEN retVal ELSE None
  BY DEF ContextInv, HolderHoldsReturnValue
<1>2. retHolder' = IF needsGC(retVal') THEN retVal' ELSE None  BY <1>1, HolderValue DEF Leave
<1>3. retVal' \in Values  BY DEF Leave, Values
<1> QED  BY <1>2, <1>3, PopInv DEF Leave

LEMMA LeaveResumedInv == ASSUME ContextInv, LeaveResumed PROVE ContextInv'
<1>1. retHolder' = IF needsGC(retVal') THEN retVal' ELSE None
  BY DEF ContextInv, HolderHoldsReturnValue, LeaveResumed, needsGC
<1>2. retVal' \in Values  BY DEF ContextInv, TypeOK, LeaveResumed
<1> QED  BY <1>1, <1>2, PopInv DEF LeaveResumed

LEMMA CollectInv == ASSUME ContextInv, Collect PROVE ContextInv'
<1>1. TypeOK'  BY DEF ContextInv, TypeOK, Collect
<1>2. HolderHoldsReturnValue' /\ ReturnsInsideFunctions'
  BY DEF ContextInv, HolderHoldsReturnValue, needsGC, ReturnsInsideFunctions, Collect
<1> QED  BY <1>1, <1>2, SameGlobals DEF ContextInv, Collect

LEMMA ContextInvNext == ASSUME ContextInv, Next PROVE ContextInv'
  BY AllocateInv, ConstantInv, LoadInv, SetLocalInv, NewGlobalInv, SetGlobalInv, EnterInv,
     ReturnInv, LeaveInv, LeaveResumedInv, CollectInv DEF Next

\* What a collection leaves: a global that was only created has its object in
\* the buffer, which is a root.
LEMMA CollectKeepsGlobals ==
  ASSUME ContextInv, Collect, NEW n \in Names \ assigned, globals[n] \in heap
  PROVE  globals[n] \in heap'
<1>1. globals[n] \in Objects  BY DEF ContextInv, TypeOK
<1>2. holder[n] = globals[n]  BY <1>1 DEF ContextInv, HoldersAgree
<1>3. holder[n] \in Roots  BY DEF Roots
<1> QED  BY <1>2, <1>3 DEF Collect

\* No other step takes a cell out of use.
LEMMA OnlyCollectReclaims == ASSUME Next PROVE Collect \/ heap \subseteq heap'
  BY DEF Next, Allocate, Constant, Load, SetLocal, NewGlobal, SetGlobal, Enter, Return, Leave,
         LeaveResumed

-----------------------------------------------------------------------------
(* The top level.                                                          *)

TreesInv ==
  /\ session \in {"start", "executing", "between", "ended"}
  /\ session # "executing" => symbols = <<>>
  /\ session = "start" => heap = {}
  /\ session = "executing" => line \in asts
  /\ CodeIsAlive

TopLevelInv == ContextInv /\ TreesInv

LEMMA TopLevelInvInit == TopLevelInit => TopLevelInv
<1>1. TopLevelInit => TreesInv  BY DEF TopLevelInit, Init, TreesInv, CodeIsAlive
<1> QED  BY <1>1, ContextInvInit DEF TopLevelInit, TopLevelInv

\* A collection makes no cell refer to another tree.
LEMMA CollectedTrees ==
  ASSUME CodeIsAlive, CollectGarbage, asts \subseteq asts', heap \subseteq Objects
  PROVE  CodeIsAlive'
<1>1. heap' \subseteq heap  BY DEF CollectGarbage, Collect
<1>2. \A o \in heap' : madeBy'[o] = madeBy[o]  BY <1>1 DEF CollectGarbage
<1>3. \A o \in heap : madeBy[o] \in asts  BY DEF CodeIsAlive, CollectGarbage
<1> QED  BY <1>1, <1>2, <1>3 DEF CodeIsAlive

\* The context of a step that leaves it alone.
LEMMA ContextUnchanged == ASSUME ContextInv, UNCHANGED vars PROVE ContextInv'
<1>1. TypeOK' /\ HolderHoldsReturnValue' /\ HoldersAgree' /\ ReturnsInsideFunctions'
  BY DEF vars, ContextInv, TypeOK, HolderHoldsReturnValue, needsGC, HoldersAgree,
     ReturnsInsideFunctions
<1> QED  BY <1>1 DEF ContextInv

LEMMA ExecuteInv == ASSUME TopLevelInv, Execute PROVE TopLevelInv'
<1>1. ContextInv /\ TreesInv /\ heap \subseteq Objects
  BY DEF TopLevelInv, ContextInv, TypeOK
<1>2. ContextInv'  BY <1>1, ContextInvNext DEF Execute
<1>3. session = "executing" /\ UNCHANGED <<session, line, asts>> /\ heap' \subseteq Objects
  BY <1>2 DEF Execute, ContextInv, TypeOK
<1>4. PICK tree \in Code :
        madeBy' = [o \in Objects |-> IF o \notin heap' THEN 0
                                     ELSE IF o \in heap THEN madeBy[o] ELSE tree]
  BY DEF Execute
<1>5. \A o \in heap : madeBy[o] \in asts  BY <1>1, <1>3 DEF TreesInv, CodeIsAlive
<1>6. tree \in asts  BY <1>1, <1>3, <1>5 DEF Code, TreesInv
<1>7. \A o \in heap' : madeBy'[o] \in asts  BY <1>3, <1>4, <1>5, <1>6
<1>8. TreesInv'  BY <1>1, <1>3, <1>7 DEF TreesInv, CodeIsAlive
<1> QED  BY <1>2, <1>8 DEF TopLevelInv

LEMMA EndOfTreeInv == ASSUME TopLevelInv, EndOfTree PROVE TopLevelInv'
<1>1. ContextInv /\ TreesInv /\ heap \subseteq Objects
  BY DEF TopLevelInv, ContextInv, TypeOK
<1>2. operand' \in Values  BY DEF EndOfTree, Values
<1>3. ContextInv'  BY <1>1, <1>2, OperandStep DEF EndOfTree
<1>4. TreesInv'  BY <1>1 DEF TreesInv, CodeIsAlive, EndOfTree, TreesKept
<1> QED  BY <1>3, <1>4 DEF TopLevelInv

LEMMA StartInv == ASSUME TopLevelInv, LoadFile \/ NoFile \/ FileSyntaxError PROVE TopLevelInv'
<1>1. ContextInv /\ TreesInv /\ UNCHANGED vars /\ UNCHANGED madeBy /\ session = "start"
  BY DEF TopLevelInv, LoadFile, NoFile, FileSyntaxError
<1>2. ContextInv'  BY <1>1, ContextUnchanged
<1>3. UNCHANGED <<symbols, heap>> /\ symbols = <<>> /\ heap = {}  BY <1>1 DEF vars, TreesInv
<1>4. TreesInv'
  BY <1>1, <1>3 DEF TreesInv, CodeIsAlive, LoadFile, NoFile, FileSyntaxError, Parsed
<1> QED  BY <1>2, <1>4 DEF TopLevelInv

LEMMA BetweenInv == ASSUME TopLevelInv, ReadLine \/ SyntaxError \/ Quit PROVE TopLevelInv'
<1>1. ContextInv /\ TreesInv /\ CodeIsAlive /\ heap \subseteq Objects /\ session = "between"
  BY DEF TopLevelInv, TreesInv, ContextInv, TypeOK, ReadLine, SyntaxError, Quit, CollectGarbage
<1>2. ContextInv'
  BY <1>1, CollectInv, ContextUnchanged DEF ReadLine, SyntaxError, Quit, CollectGarbage
<1>3. symbols' = <<>>
  BY <1>1 DEF TreesInv, ReadLine, SyntaxError, Quit, CollectGarbage, Collect, vars
<1>4. CASE ReadLine
  <2>1. asts \subseteq asts' /\ CollectGarbage /\ session' = "executing" /\ line' \in asts'
    BY <1>4 DEF ReadLine, Parsed
  <2>2. CodeIsAlive'  BY <1>1, <2>1, CollectedTrees
  <2> QED  BY <1>2, <1>3, <2>1, <2>2 DEF TopLevelInv, TreesInv
<1>5. CASE SyntaxError
  <2>1. asts \subseteq asts' /\ CollectGarbage /\ session' = "between"
    BY <1>1, <1>5 DEF SyntaxError
  <2>2. CodeIsAlive'  BY <1>1, <2>1, CollectedTrees
  <2> QED  BY <1>2, <1>3, <2>1, <2>2 DEF TopLevelInv, TreesInv
<1>6. CASE Quit  BY <1>2, <1>3, <1>6 DEF Quit, TopLevelInv, TreesInv, CodeIsAlive
<1> QED  BY <1>4, <1>5, <1>6

LEMMA TopLevelInvNext ==
  ASSUME TopLevelInv, [TopLevelNext]_topVars
  PROVE  TopLevelInv'
<1>1. CASE UNCHANGED topVars
  <2>1. ContextInv'  BY <1>1, ContextUnchanged DEF topVars, TopLevelInv
  <2>2. UNCHANGED <<symbols, heap, session, line, asts, madeBy>>  BY <1>1 DEF topVars, vars
  <2>3. TreesInv'  BY <2>2 DEF TopLevelInv, TreesInv, CodeIsAlive
  <2> QED  BY <2>1, <2>3 DEF TopLevelInv
<1> QED  BY <1>1, ExecuteInv, EndOfTreeInv, StartInv, BetweenInv DEF TopLevelNext

\* The invariant of a session.
THEOREM SessionInvariant == TopLevelSpec => []TopLevelInv
<1>1. TopLevelInit => TopLevelInv  BY TopLevelInvInit
<1>2. TopLevelInv /\ [TopLevelNext]_topVars => TopLevelInv'  BY TopLevelInvNext
<1> QED  BY <1>1, <1>2, PTL DEF TopLevelSpec

\* No collection of a session, between lines or inside one, reclaims a cell that
\* a global has referred to since it was created, for any number of cells,
\* globals, lines and calls and whatever is assigned to other variables.
THEOREM SessionKeepsGlobals == TopLevelSpec => CreatedGlobalsSurvive
<1> DEFINE Kept == \A n \in Names \ assigned : globals[n] \in heap => globals[n] \in heap'
<1>1. TopLevelInv /\ [TopLevelNext]_topVars => [Kept]_vars
  <2> SUFFICES ASSUME TopLevelInv, [TopLevelNext]_topVars PROVE Kept \/ UNCHANGED vars
    OBVIOUS
  <2>1. ContextInv  BY DEF TopLevelInv
  <2>2. CASE Collect  BY <2>1, <2>2, CollectKeepsGlobals
  <2>3. CASE heap \subseteq heap'  BY <2>3
  <2>4. CASE Execute  BY <2>2, <2>3, <2>4, OnlyCollectReclaims DEF Execute
  <2>5. CASE EndOfTree  BY <2>3, <2>5 DEF EndOfTree
  <2>6. CASE LoadFile \/ NoFile \/ FileSyntaxError \/ UNCHANGED topVars
    BY <2>6 DEF LoadFile, NoFile, FileSyntaxError, topVars
  <2>7. CASE ReadLine \/ SyntaxError \/ Quit
    BY <2>2, <2>7 DEF ReadLine, SyntaxError, Quit, CollectGarbage
  <2> QED  BY <2>4, <2>5, <2>6, <2>7 DEF TopLevelNext
<1> QED  BY <1>1, SessionInvariant, PTL DEF TopLevelSpec, CreatedGlobalsSurvive

\* The assertions of Value::set hold for the returned value.
THEOREM SessionReturns == TopLevelSpec => []HolderHoldsReturnValue
<1>1. TopLevelInv => HolderHoldsReturnValue  BY DEF TopLevelInv, ContextInv
<1> QED  BY <1>1, SessionInvariant, PTL

\* No closure outlives the syntax tree that main owns for it.
THEOREM SessionKeepsCode == TopLevelSpec => []CodeIsAlive
<1>1. TopLevelInv => CodeIsAlive  BY DEF TopLevelInv, TreesInv
<1> QED  BY <1>1, SessionInvariant, PTL

\* In a program without return statements outside functions, every line is
\* executed.
THEOREM SessionExecutesLines == TopLevelSpec => []LinesAreExecuted
<1>1. TopLevelInv => LinesAreExecuted
  BY DEF TopLevelInv, ContextInv, TreesInv, LinesAreExecuted, ReturnsInsideFunctions
<1> QED  BY <1>1, SessionInvariant, PTL

\* The types of the context and of the syntax trees it refers to.
THEOREM SessionTypes == TopLevelSpec => []TypeOK
<1>1. TopLevelInv => TypeOK  BY DEF TopLevelInv, ContextInv
<1> QED  BY <1>1, SessionInvariant, PTL
=============================================================================
