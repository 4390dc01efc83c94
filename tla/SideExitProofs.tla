--------------------------- MODULE SideExitProofs ---------------------------
(***************************************************************************)
(* A side exit is invisible.  It loses no variable and no result, for      *)
(* every function, every assignment of registers and every stackmap LLVM   *)
(* may write (Stackmap); and the function that skip_to resumes does what   *)
(* an interpretation of it from the start would have done, for every       *)
(* syntax tree in which the code can be left only where it can be resumed  *)
(* (SkipTo).                                                               *)
(***************************************************************************)
EXTENDS SideExit, SequenceTheorems, WellFoundedInduction, TLAPS

-----------------------------------------------------------------------------
(* Registers.                                                              *)

\* The number in a stackmap stands for the register LLVM chose.
LEMMA NumberOfRegister ==
  ASSUME NEW r \in Registers
  PROVE  Number(r) \in 0..15 /\ Dwarf[Number(r) + 1] = r
<1>1. \E i \in 0..15 : Dwarf[i + 1] = r
  <2>1. PICK j \in 1..16 : Dwarf[j] = r  BY DEF Registers
  <2>2. j - 1 \in 0..15 /\ (j - 1) + 1 = j  OBVIOUS
  <2> QED  BY <2>1, <2>2
<1> QED  BY <1>1 DEF Number

\* The trampoline pushes the registers in the order of their numbers.
LEMMA SavedRegister ==
  ASSUME NEW r \in Registers \ FrameRegisters
  PROVE  saved(Number(r)) = registers[r]
BY NumberOfRegister DEF saved, PushOrder, Dwarf

-----------------------------------------------------------------------------
(* The layout of the stackmap.                                             *)

LEMMA RecordsBase ==
  ASSUME NEW s, s.functions \in Nat, s.constants \in Nat
  PROVE  /\ records_base(s) = FirstRecord(s)
         /\ getNumRecords(s) = Len(s.records)
<1>1. Word(s, 4) = s.functions  BY DEF Word, FirstRecord
<1>2. Word(s, 8) = s.constants  BY DEF Word, FirstRecord
<1>3. Word(s, 12) = Len(s.records)  BY DEF Word, FirstRecord
<1> QED  BY <1>1, <1>2, <1>3 DEF records_base, FirstRecord, getNumRecords

\* The parser finds the number of locations and each location.
LEMMA RecordRead ==
  ASSUME NEW s, s.functions \in Nat, s.constants \in Nat,
         NEW n \in Nat, s.records[1] \in [1..n -> 0..15]
  PROVE  /\ Word(s, records_base(s) + 14) = n
         /\ \A i \in 1..n : Location(s, i) = s.records[1][i]
<1> DEFINE locs == s.records[1]
<1>1. Len(locs) = n
  <2>1. locs \in Seq(0..15)  BY SeqDef
  <2> QED  BY <2>1, LenProperties
<1>2. FirstRecord(s) \in Nat /\ FirstRecord(s) >= 16  BY DEF FirstRecord
<1>3. Word(s, FirstRecord(s) + 14) = n  BY <1>1, <1>2 DEF Word
<1>4. ASSUME NEW i \in 1..n PROVE Location(s, i) = locs[i]
  <2> DEFINE off == FirstRecord(s) + 16 + 12 * (i - 1)
  <2>1. off \in Nat /\ off # 4 /\ off # 8 /\ off # 12 /\ off - FirstRecord(s) # 14
    BY <1>2
  <2>2. \A j \in 1..n : off - FirstRecord(s) = 16 + 12 * (j - 1) <=> j = i  BY <1>2
  <2>3. DOMAIN locs = 1..n  OBVIOUS
  <2>4. (CHOOSE j \in DOMAIN locs : off - FirstRecord(s) = 16 + 12 * (j - 1)) = i
    BY <2>2, <2>3
  <2>5. Word(s, off) = locs[i]  BY <2>1, <2>2, <2>3, <2>4 DEF Word
  <2>6. Location(s, i) = Word(s, off)  BY RecordsBase DEF Location
  <2> QED  BY <2>5, <2>6
<1> QED  BY <1>3, <1>4, RecordsBase

-----------------------------------------------------------------------------
(* What the side exit reads.                                               *)

LEMMA OperandsSequence ==
  ASSUME NEW f \in Functions
  PROVE  /\ Written(f) \in Seq(STRING)
         /\ Len(Operands(f)) = 3 + Len(Written(f))
         /\ DOMAIN Operands(f) = 1..(3 + Len(Written(f)))
<1>1. Written(f) \in Seq(STRING)  BY StackmapAssumption DEF Written
<1>2. Len(Written(f)) \in Nat  BY <1>1
<1> DEFINE n == 3 + Len(Written(f))
           S == {Operands(f)[k] : k \in 1..n}
<1>3. DOMAIN Operands(f) = 1..n  BY DEF Operands
<1>4. Operands(f) \in [1..n -> S]  BY <1>3 DEF Operands
<1>5. Operands(f) \in Seq(S)  BY <1>2, <1>4, SeqDef
<1>6. Len(Operands(f)) = n  BY <1>2, <1>3, <1>5, LenProperties
<1> QED  BY <1>1, <1>3, <1>6

\* The function is compiled and its code is running.
Compiled(f, p, constants) ==
  /\ ~NullOperand(f)
  /\ p \in Placements(Len(Operands(f)))
  /\ constants \in 0..MaxConstants
  /\ section = Recorded(f, p, constants)
  /\ registers = Loaded(f, p)

LEMMA SectionShape ==
  ASSUME NEW f \in Functions, NEW p, NEW constants, Compiled(f, p, constants)
  PROVE  /\ section.functions \in Nat /\ section.constants \in Nat
         /\ Len(section.records) = f.calls
         /\ section.records[1] \in [1..(1 + Len(Operands(f))) -> 0..15]
         /\ \A i \in 1..(1 + Len(Operands(f))) :
              p[i] \in Allocatable /\ section.records[1][i] = Number(p[i])
<1> DEFINE n == 1 + Len(Operands(f))
           loc == [i \in 1..n |-> Number(p[i])]
<1>1. f.calls \in Nat \ {0} /\ MaxConstants \in Nat /\ p \in [1..n -> Allocatable]
       /\ Allocatable \subseteq Registers \ FrameRegisters
  BY StackmapAssumption DEF Compiled
<1>2. section = [functions |-> 1, constants |-> constants, records |-> [c \in 1..f.calls |-> loc]]
  BY DEF Compiled, Recorded
<1>3. loc \in [1..n -> 0..15]  BY <1>1, NumberOfRegister
<1> HIDE DEF loc
<1>4. section.records = [c \in 1..f.calls |-> loc]  BY <1>2
<1>5. section.records \in Seq({loc})  BY <1>1, <1>4, SeqDef
<1>6. Len(section.records) = f.calls  BY <1>1, <1>4, <1>5, LenProperties
<1>7. section.records[1] = loc  BY <1>1, <1>4
<1>8. section.functions \in Nat /\ section.constants \in Nat  BY <1>1, <1>2 DEF Compiled
<1>9. \A i \in 1..n : p[i] \in Allocatable /\ loc[i] = Number(p[i])  BY <1>1 DEF loc
<1> QED  BY <1>3, <1>6, <1>7, <1>8, <1>9

\* next_value returns the operands one after the other, behind the register for
\* the result.
LEMMA ValuesRead ==
  ASSUME NEW f \in Functions, NEW p, NEW constants, Compiled(f, p, constants)
  PROVE  /\ Location(section, 1) = Number(p[1])
         /\ \A k \in 1..Len(Operands(f)) : next_value(section, k + 1) = Operands(f)[k]
<1> DEFINE n == Len(Operands(f))
<1>1. n \in Nat /\ DOMAIN Operands(f) = 1..n  BY OperandsSequence
<1>2. /\ section.functions \in Nat /\ section.constants \in Nat
      /\ section.records[1] \in [1..(1 + n) -> 0..15]
      /\ \A i \in 1..(1 + n) : p[i] \in Allocatable /\ section.records[1][i] = Number(p[i])
  BY SectionShape
<1>3. /\ Word(section, records_base(section) + 14) = 1 + n
      /\ \A i \in 1..(1 + n) : Location(section, i) = Number(p[i])
  <2> DEFINE m == 1 + n
  <2>1. m \in Nat  BY <1>1
  <2>2. section.records[1] \in [1..m -> 0..15]  BY <1>2
  <2> HIDE DEF m
  <2>3. /\ Word(section, records_base(section) + 14) = m
        /\ \A i \in 1..m : Location(section, i) = section.records[1][i]
    BY <1>2, <2>1, <2>2, RecordRead
  <2> QED  BY <1>2, <2>3 DEF m
<1>4. ASSUME NEW k \in 1..n PROVE next_value(section, k + 1) = Operands(f)[k]
  <2>1. p[k + 1] \in Registers \ FrameRegisters  BY <1>1, <1>2, StackmapAssumption
  <2>2. next_value(section, k + 1) = saved(Number(p[k + 1]))
    BY <1>1, <1>3 DEF next_value
  <2>3. saved(Number(p[k + 1])) = registers[p[k + 1]]  BY <2>1, SavedRegister
  <2>4. \A j \in 1..n : p[j + 1] = p[k + 1] => j = k
    <3>1. \A i, j \in 2..(1 + n) : p[i] = p[j] => i = j
      BY StackmapAssumption DEF Compiled
    <3> TAKE j \in 1..n
    <3>2. j + 1 \in 2..(1 + n) /\ k + 1 \in 2..(1 + n)  BY <1>1
    <3> QED  BY <1>1, <3>1, <3>2
  <2>5. (CHOOSE j \in DOMAIN Operands(f) : p[j + 1] = p[k + 1]) = k  BY <1>1, <2>4
  <2>6. registers[p[k + 1]] = Operands(f)[k]
    BY <1>1, <2>1, <2>5 DEF Compiled, Loaded
  <2> QED  BY <2>2, <2>3, <2>6
<1> QED  BY <1>1, <1>3, <1>4

-----------------------------------------------------------------------------
(* The symbol table.                                                       *)

LEMMA LeastNumber ==
  ASSUME NEW T, T \subseteq Nat, T # {}
  PROVE  \E x \in T : \A y \in T : x <= y
<1> DEFINE R == OpToRel(<, Nat)
<1>1. IsWellFoundedOn(R, Nat)  BY NatLessThanWellFounded
<1>2. \A x, y \in Nat : <<y, x>> \in R <=> y < x  BY DEF OpToRel
<1> HIDE DEF R
<1>3. PICK x \in T : \A y \in T : ~ (<<y, x>> \in R)  BY <1>1, WFMin
<1>4. ASSUME NEW y \in T PROVE x <= y
  <2>1. x \in Nat /\ y \in Nat  OBVIOUS
  <2>2. ~(y < x)  BY <1>2, <1>3, <2>1
  <2> QED  BY <2>1, <2>2
<1> QED  BY <1>4

\* A name of a sequence has a last occurrence.
LEMMA LatestIndex ==
  ASSUME NEW names \in Seq(STRING), NEW n \in SetOf(names)
  PROVE  Latest(names, n) \in 1..Len(names) /\ names[Latest(names, n)] = n
<1> DEFINE len == Len(names)
           T == {d \in 0..len : d < len /\ names[len - d] = n}
<1>1. DOMAIN names = 1..len /\ len \in Nat  OBVIOUS
<1>2. PICK k \in 1..len : names[k] = n  BY <1>1 DEF SetOf
<1>3. len - k \in T
  <2>1. len - (len - k) = k /\ len - k \in 0..len /\ len - k < len  BY <1>1
  <2> QED  BY <1>2, <2>1
<1>4. PICK x \in T : \A y \in T : x <= y
  <2>1. T \subseteq Nat /\ T # {}  BY <1>1, <1>3
  <2> HIDE DEF T
  <2> QED  BY <2>1, LeastNumber
<1>5. len - x \in DOMAIN names /\ names[len - x] = n  BY <1>1
<1>6. ASSUME NEW j \in DOMAIN names, names[j] = n PROVE j <= len - x
  <2>1. j \in 1..len  BY <1>1
  <2>2. len - (len - j) = j /\ len - j \in 0..len /\ len - j < len  BY <1>1, <2>1
  <2>3. len - j \in T  BY <1>6, <2>2
  <2>4. x <= len - j  BY <1>4, <2>3
  <2> QED  BY <1>1, <2>1, <2>4
<1> QED  BY <1>1, <1>5, <1>6 DEF Latest

\* self and cmd, and what tells a method from a closure.
LEMMA ReceiverRead ==
  ASSUME NEW f \in Functions, NEW p, NEW constants, Compiled(f, p, constants)
  PROVE  /\ next_value(section, 2) = Node
         /\ next_value(section, 3) = symbols(f, "self")
         /\ next_value(section, 4) = symbols(f, "cmd")
<1>1. Len(Operands(f)) = 3 + Len(Written(f)) /\ Len(Written(f)) \in Nat  BY OperandsSequence
<1>2. 1 \in 1..Len(Operands(f)) /\ 2 \in 1..Len(Operands(f)) /\ 3 \in 1..Len(Operands(f))
  BY <1>1
<1>3. Operands(f)[1] = Node /\ Operands(f)[2] = symbols(f, "self")
        /\ Operands(f)[3] = symbols(f, "cmd")
  BY <1>1 DEF Operands
<1>4. next_value(section, 1 + 1) = Node /\ next_value(section, 2 + 1) = symbols(f, "self")
        /\ next_value(section, 3 + 1) = symbols(f, "cmd")
  BY <1>2, <1>3, ValuesRead
<1> QED  BY <1>4

LEMMA MethodHasReceiver ==
  ASSUME NEW f \in Functions, NEW p, NEW constants, Compiled(f, p, constants),
         f.kind = "method"
  PROVE  IsMethod(section)
<1>1. symbols(f, "self") # NoAddress  BY DEF symbols, NoAddress
<1>2. symbols(f, "cmd") # NoAddress  BY DEF symbols, NoAddress
<1> QED  BY <1>1, <1>2, ReceiverRead DEF IsMethod

\* Each name leads to the address compiled code uses.
LEMMA TableMatches ==
  ASSUME NEW f \in Functions, NEW p, NEW constants, Compiled(f, p, constants),
         NEW n \in SetOf(Written(f)) \cup SetOf(Outer(f)) \cup {"self", "cmd"}
  PROVE  SymbolTable(section, f, IsMethod(section))[n] = symbols(f, n)
<1> DEFINE built == SymbolTable(section, f, IsMethod(section))
<1>1. Read(f) = Written(f)  BY DEF Read, Written
<1>2. f.kind \in {"method", "closure"} /\ (f.kind = "closure" => f.ivars = <<>>)
  BY StackmapAssumption DEF Kinds
<1>3. CASE n \in SetOf(Read(f))
  <2> DEFINE j == Latest(Written(f), n)
  <2>1. j \in 1..Len(Written(f)) /\ Written(f)[j] = n
    BY <1>1, <1>3, OperandsSequence, LatestIndex
  <2>2. Len(Operands(f)) = 3 + Len(Written(f)) /\ Len(Written(f)) \in Nat  BY OperandsSequence
  <2>3. 3 + j \in 1..Len(Operands(f)) /\ 4 + j = (3 + j) + 1 /\ (3 + j) - 3 = j  BY <2>1, <2>2
  <2>4. built[n] = next_value(section, 4 + j)  BY <1>1, <1>3 DEF SymbolTable
  <2>5. next_value(section, (3 + j) + 1) = Operands(f)[3 + j]  BY <2>3, ValuesRead
  <2>6. Operands(f)[3 + j] = symbols(f, Written(f)[(3 + j) - 3])
    <3> HIDE DEF j
    <3>1. 3 + j # 1 /\ 3 + j # 2 /\ 3 + j # 3 /\ 3 + j \in 1..(3 + Len(Written(f)))
      BY <2>1, <2>2
    <3> QED  BY <3>1 DEF Operands
  <2> QED  BY <2>1, <2>3, <2>4, <2>5, <2>6
<1>4. CASE n \notin SetOf(Read(f)) /\ n \in SetOf(Outer(f))
  <2>1. f.kind = "method"
    <3>1. ASSUME f.kind = "closure" PROVE n \in SetOf(Read(f))
      <4>1. Outer(f) = f.bound  BY <3>1 DEF Outer
      <4>2. f.bound \in Seq(STRING) /\ f.params \o f.decls \in Seq(STRING)
        BY StackmapAssumption
      <4>3. PICK i \in 1..Len(f.bound) : f.bound[i] = n  BY <1>4, <4>1, <4>2 DEF SetOf
      <4> DEFINE q == f.params \o f.decls
      <4>4. Len(q) + i \in DOMAIN (q \o f.bound) /\ (q \o f.bound)[Len(q) + i] = f.bound[i]
        <5> HIDE DEF q
        <5> QED  BY <4>2, <4>3
      <4> QED  BY <4>3, <4>4 DEF SetOf, Read
    <3> QED  BY <1>2, <1>4, <3>1
  <2>2. IsMethod(section)  BY <2>1, MethodHasReceiver
  <2>3. Outer(f) = f.ivars  BY <2>1 DEF Outer
  <2>4. built[n] = <<"outer", Latest(f.ivars, n)>>  BY <1>4, <2>2, <2>3 DEF SymbolTable
  <2>5. symbols(f, n) = <<"outer", Latest(f.ivars, n)>>  BY <1>4, <2>3 DEF symbols
  <2> QED  BY <2>4, <2>5
<1>5. CASE n \notin SetOf(Read(f)) /\ n \notin SetOf(Outer(f))
  <2>1. n \in {"self", "cmd"}  BY <1>1, <1>5
  <2>2. ~(IsMethod(section) /\ n \in SetOf(f.ivars))
    <3>1. CASE f.kind = "method"  BY <1>5, <3>1 DEF Outer
    <3>2. CASE f.kind = "closure"  BY <1>2, <3>2 DEF SetOf
    <3> QED  BY <1>2, <3>1, <3>2
  <2>3. built[n] = next_value(section, IF n = "self" THEN 3 ELSE 4)
    BY <1>5, <2>1, <2>2 DEF SymbolTable
  <2> QED  BY <2>1, <2>3, ReceiverRead
<1> QED  BY <1>3, <1>4, <1>5

-----------------------------------------------------------------------------
(* The inductive invariant.                                                *)

\* The interpreter has self and cmd, and knows a method by them.
ReceiverKept ==
  /\ rebuilt.self = symbols(function, "self")
  /\ rebuilt.cmd = symbols(function, "cmd")
  /\ rebuilt.isMethod = (rebuilt.self # NoAddress /\ rebuilt.cmd # NoAddress)

\* While the function runs, its registers and stackmap are those LLVM made; the
\* interpreter has read them, and a single record is not refused.
TransferInv ==
  /\ function \in Functions
  /\ stage \in {"source", "running", "rebuilt", "refused", "returned", "dead"}
  /\ stage \in {"running", "rebuilt", "refused"} =>
       \E p, constants : Compiled(function, p, constants)
  /\ stage = "rebuilt" => return_register = Location(section, 1) /\ ReceiverKept
  /\ SymbolsRebuilt
  /\ stage = "refused" => Len(section.records) # 1
  /\ ResultIsDelivered

LEMMA TransferInvInit == StackmapInit => TransferInv
BY DEF StackmapInit, TransferInv, SymbolsRebuilt, ResultIsDelivered

LEMMA TransferInvNext == TransferInv /\ [StackmapNext]_transferVars => TransferInv'
<1> SUFFICES ASSUME TransferInv, [StackmapNext]_transferVars PROVE TransferInv'
  OBVIOUS
<1>1. CASE Compile
  <2>1. function' = function /\ function \in Functions  BY <1>1 DEF Compile, TransferInv
  <2>2. CASE stage' = "dead"
    BY <2>1, <2>2 DEF TransferInv, SymbolsRebuilt, ResultIsDelivered
  <2>3. CASE stage' = "running"
    <3>1. \E p, constants : Compiled(function, p, constants)'
      BY <1>1, <2>1, <2>3 DEF Compile, Compiled
    <3> QED  BY <2>1, <2>3, <3>1 DEF TransferInv, SymbolsRebuilt, ResultIsDelivered
  <2> QED  BY <1>1, <2>2, <2>3 DEF Compile
<1>2. CASE Rebuild
  <2>1. UNCHANGED <<function, section, registers>> /\ function \in Functions
    BY <1>2 DEF Rebuild, TransferInv
  <2>2. PICK p, constants : Compiled(function, p, constants)
    BY <1>2 DEF Rebuild, TransferInv
  <2>3. \E q, c : Compiled(function, q, c)'  BY <2>1, <2>2 DEF Compiled
  <2>4. getNumRecords(section) = Len(section.records)
    BY <2>1, <2>2, SectionShape, RecordsBase
  <2>5. CASE stage' = "refused"
    <3>1. Len(section'.records) # 1  BY <1>2, <2>1, <2>4, <2>5 DEF Rebuild
    <3> QED  BY <2>1, <2>3, <2>5, <3>1 DEF TransferInv, SymbolsRebuilt, ResultIsDelivered
  <2>6. CASE stage' = "rebuilt"
    <3>1. /\ return_register' = Location(section, 1)
          /\ rebuilt'.node = next_value(section, 2)
          /\ rebuilt'.self = next_value(section, 3)
          /\ rebuilt'.cmd = next_value(section, 4)
          /\ rebuilt'.symtab = SymbolTable(section, function, IsMethod(section))
          /\ rebuilt'.isMethod = IsMethod(section)
      BY <1>2, <2>6 DEF Rebuild
    <3>2. ReceiverKept'
      BY <2>1, <2>2, <3>1, ReceiverRead DEF ReceiverKept, IsMethod
    <3>3. SymbolsRebuilt'
      BY <2>1, <2>2, <3>1, ReceiverRead, TableMatches DEF SymbolsRebuilt
    <3> QED  BY <2>1, <2>3, <2>6, <3>1, <3>2, <3>3 DEF TransferInv, ResultIsDelivered
  <2> QED  BY <1>2, <2>5, <2>6 DEF Rebuild
<1>3. CASE TrampolineReturn
  <2>1. UNCHANGED <<function, section>> /\ function \in Functions /\ stage' = "returned"
    BY <1>3 DEF TrampolineReturn, TransferInv
  <2>2. PICK p, constants : Compiled(function, p, constants)
    BY <1>3 DEF TrampolineReturn, TransferInv
  <2>3. ASSUME Len(section.records) = 1
        PROVE  registers'[Dwarf[section.records[1][1] + 1]] = Result
    <3>1. stage = "rebuilt" /\ return_register = Location(section, 1)
      BY <1>3, <2>3 DEF TrampolineReturn, TransferInv
    <3>2. Location(section, 1) = Number(p[1])  BY <2>1, <2>2, ValuesRead
    <3>3. Len(Operands(function)) \in Nat  BY <2>1, OperandsSequence
    <3>4. p[1] \in Allocatable /\ section.records[1][1] = Number(p[1])
      BY <2>1, <2>2, <3>3, SectionShape
    <3>5. p[1] \in Registers /\ p[1] \notin FrameRegisters  BY <3>4, StackmapAssumption
    <3>6. Dwarf[Number(p[1]) + 1] = p[1]  BY <3>5, NumberOfRegister
    <3>7. registers' = Restored(p[1], Result)  BY <1>3, <3>1, <3>2, <3>6 DEF TrampolineReturn
    <3>8. registers'[p[1]] = Result  BY <3>5, <3>7 DEF Restored
    <3> QED  BY <3>4, <3>6, <3>8
  <2> QED  BY <2>1, <2>3 DEF TransferInv, SymbolsRebuilt, ResultIsDelivered
<1>4. CASE UNCHANGED transferVars
  BY <1>4 DEF transferVars, TransferInv, ReceiverKept, SymbolsRebuilt, ResultIsDelivered, Compiled
<1> QED  BY <1>1, <1>2, <1>3, <1>4 DEF StackmapNext

\* What a side exit relies on between its steps: registers hold the operands of the
\* record, the symbol table is rebuilt from them, and the receiver is kept.
THEOREM TransferInvariant == StackmapSpec => []TransferInv
BY TransferInvInit, TransferInvNext, PTL DEF StackmapSpec

-----------------------------------------------------------------------------
(* Results.                                                                *)

\* A side exit passes every variable of every function on, whichever registers
\* LLVM chose.
THEOREM SideExitKeepsSymbols == StackmapSpec => []SymbolsRebuilt
<1>1. TransferInv => SymbolsRebuilt  BY DEF TransferInv
<1> QED  BY <1>1, TransferInvariant, PTL

\* The interpreter's result arrives in the register compiled code reads.
THEOREM SideExitDeliversResult == StackmapSpec => []ResultIsDelivered
<1>1. TransferInv => ResultIsDelivered  BY DEF TransferInv
<1> QED  BY <1>1, TransferInvariant, PTL

\* New code replaces the code that was left.
THEOREM SideExitRecompilesItself == StackmapSpec => []RecompilesItself
<1>1. TransferInv => RecompilesItself
  <2> SUFFICES ASSUME TransferInv, stage = "rebuilt", NoReservedNames(function)
               PROVE  Recompiled = function.kind
    BY DEF RecompilesItself
  <2>1. function \in Functions /\ function.kind \in {"method", "closure"}
    BY StackmapAssumption DEF TransferInv, Kinds
  <2>3. ReceiverKept  BY DEF TransferInv
  <2>4. \A n \in {"self", "cmd"} :
          n \notin SetOf(Outer(function)) \cup SetOf(function.decls) \cup SetOf(function.params)
    BY DEF NoReservedNames
  <2>5. symbols(function, "self") = <<"self", 1>>  BY <2>4 DEF symbols
  <2>6. symbols(function, "cmd") = IF function.kind = "method" THEN <<"cmd", 1>> ELSE NoAddress
    BY <2>4 DEF symbols
  <2>7. CASE function.kind = "method"
    <3>1. rebuilt.self = <<"self", 1>> /\ rebuilt.cmd = <<"cmd", 1>>
      BY <2>3, <2>5, <2>6, <2>7 DEF ReceiverKept
    <3>2. rebuilt.isMethod
      <4>1. rebuilt.self # NoAddress /\ rebuilt.cmd # NoAddress  BY <3>1 DEF NoAddress
      <4> QED  BY <2>3, <4>1, Zenon DEF ReceiverKept
    <3>3. Holds(function, rebuilt.self) = "receiver"  BY <2>7, <3>1 DEF Holds
    <3>4. Holds(function, rebuilt.cmd) = "selector"  BY <2>7, <3>1 DEF Holds
    <3> QED  BY <2>7, <3>2, <3>3, <3>4 DEF Recompiled
  <2>8. CASE function.kind = "closure"
    <3>1. rebuilt.self = <<"self", 1>> /\ rebuilt.cmd = NoAddress
      BY <2>3, <2>5, <2>6, <2>8 DEF ReceiverKept
    <3>2. ~rebuilt.isMethod  BY <2>3, <3>1 DEF ReceiverKept
    <3>3. Holds(function, rebuilt.self) = "closure"  BY <2>8, <3>1 DEF Holds
    <3> QED  BY <2>8, <3>2, <3>3 DEF Recompiled
  <2> QED  BY <2>1, <2>7, <2>8
<1> QED  BY <1>1, TransferInvariant, PTL

-----------------------------------------------------------------------------
(* Paths.                                                                  *)

LEMMA PathFacts ==
  ASSUME NEW S, NEW p \in Seq(S), NEW i \in S
  PROVE  /\ Append(p, i) \in Seq(S) /\ Append(p, i) # <<>>
         /\ Front(Append(p, i)) = p /\ Last(Append(p, i)) = i
         /\ Len(Append(p, i)) = Len(p) + 1 /\ Append(p, i)[Len(p) + 1] = i
         /\ \A k \in 1..Len(p) : Append(p, i)[k] = p[k]
BY DEF Front, Last

LEMMA PrefixFacts ==
  ASSUME NEW S, NEW p \in Seq(S)
  PROVE  /\ \A k \in 0..Len(p) :
              /\ Prefix(p, k) \in Seq(S) /\ Len(Prefix(p, k)) = k
              /\ \A j \in 1..k : Prefix(p, k)[j] = p[j]
         /\ Prefix(p, Len(p)) = p
BY DEF Prefix

LEMMA FrontIsPrefix ==
  ASSUME NEW S, NEW p \in Seq(S), p # <<>>
  PROVE  Front(p) = Prefix(p, Len(p) - 1)
BY DEF Front, Prefix

LEMMA PathSplit ==
  ASSUME NEW S, NEW p \in Seq(S), p # <<>>
  PROVE  /\ Front(p) \in Seq(S) /\ Last(p) \in S
         /\ p = Append(Front(p), Last(p))
         /\ Len(p) \in Nat /\ Len(p) > 0 /\ Len(Front(p)) = Len(p) - 1
         /\ Last(p) = p[Len(p)]
         /\ \A k \in 1..(Len(p) - 1) : Front(p)[k] = p[k]
<1>1. Len(p) \in Nat /\ Len(p) > 0 /\ Len(p) - 1 \in 0..Len(p)  BY EmptySeq, LenProperties
<1>2. /\ Front(p) \in Seq(S) /\ Len(Front(p)) = Len(p) - 1
      /\ \A k \in 1..(Len(p) - 1) : Front(p)[k] = p[k]
  BY <1>1, PrefixFacts, FrontIsPrefix, SMTT(30)
<1>3. Last(p) = p[Len(p)] /\ Last(p) \in S
  BY <1>1, ElementOfSeq DEF Last
<1>4. p = Append(Front(p), Last(p))
  <2> DEFINE q == Append(Front(p), Last(p))
  <2>1. q \in Seq(S) /\ Len(q) = Len(p)  BY <1>1, <1>2, <1>3
  <2>2. \A k \in 1..Len(p) : p[k] = q[k]  BY <1>1, <1>2, <1>3
  <2>3. QED  BY <2>1, <2>2, SeqEqual
<1>5. QED  BY <1>1, <1>2, <1>3, <1>4

\* Paths that agree have the same prefixes.
LEMMA SamePrefix ==
  ASSUME NEW S, NEW p \in Seq(S), NEW q \in Seq(S), NEW k \in Nat, k <= Len(p), k <= Len(q),
         \A j \in 1..k : p[j] = q[j]
  PROVE  Prefix(p, k) = Prefix(q, k)
<1>1. Len(p) \in Nat /\ Len(q) \in Nat /\ k \in 0..Len(p) /\ k \in 0..Len(q)
  OBVIOUS
<1>2. /\ Prefix(p, k) \in Seq(S) /\ Len(Prefix(p, k)) = k
      /\ Prefix(q, k) \in Seq(S) /\ Len(Prefix(q, k)) = k
      /\ \A j \in 1..k : Prefix(p, k)[j] = p[j] /\ Prefix(q, k)[j] = q[j]
  BY <1>1, PrefixFacts
<1>3. \A j \in 1..k : Prefix(p, k)[j] = Prefix(q, k)[j]
  BY <1>2
<1>4. QED
  BY <1>2, <1>3, SeqEqual

-----------------------------------------------------------------------------
(* Syntax trees.                                                           *)

LEMMA NodeFacts ==
  ASSUME body \in Bodies, NEW p \in DOMAIN body
  PROVE  /\ p \in Seq(Nat) /\ Len(p) \in Nat
         /\ Kids(p) \in Nat /\ Class(p) \in Classes /\ HasKids(Class(p), Kids(p))
         /\ \A i \in 1..Kids(p) : /\ Append(p, i) \in DOMAIN body
                                  /\ Class(Append(p, i)) \in Children(Class(p), i)
         /\ \A k \in 1..Len(p) : /\ Prefix(p, k - 1) \in DOMAIN body
                                 /\ p[k] \in 1..Kids(Prefix(p, k - 1))
<1>1. Tree(body)  BY InterpretationAssumption
<1>2. p \in Seq(Nat) /\ Len(p) \in Nat  BY <1>1 DEF Tree
<1>3. /\ Kids(p) \in Nat /\ Class(p) \in Classes /\ HasKids(Class(p), Kids(p))
      /\ \A i \in 1..Kids(p) : /\ Append(p, i) \in DOMAIN body
                               /\ Class(Append(p, i)) \in Children(Class(p), i)
  BY <1>1 DEF Tree, Kids, Class
<1>4. \A k \in 1..Len(p) : /\ Prefix(p, k - 1) \in DOMAIN body
                           /\ p[k] \in 1..Kids(Prefix(p, k - 1))
  BY <1>1 DEF Tree, Kids
<1>5. QED  BY <1>2, <1>3, <1>4

LEMMA ParentFacts ==
  ASSUME body \in Bodies, at \in DOMAIN body, at # <<>>
  PROVE  /\ Parent \in DOMAIN body /\ Parent \in Seq(Nat) /\ Len(Parent) = Len(at) - 1
         /\ Index \in 1..Kids(Parent) /\ Index = at[Len(at)]
         /\ at = Append(Parent, Index) /\ Class(at) \in Children(Class(Parent), Index)
         /\ \A k \in 1..Len(Parent) : Parent[k] = at[k]
<1>1. at \in Seq(Nat) /\ Len(at) \in Nat  BY NodeFacts
<1>2. /\ Parent \in Seq(Nat) /\ at = Append(Parent, Index) /\ Len(at) > 0
      /\ Len(Parent) = Len(at) - 1 /\ Index = at[Len(at)]
      /\ \A k \in 1..Len(Parent) : Parent[k] = at[k]
  BY <1>1, PathSplit DEF Parent, Index
<1>3. Parent = Prefix(at, Len(at) - 1)  BY <1>1, FrontIsPrefix DEF Parent
<1>4. Len(at) \in 1..Len(at)  BY <1>1, <1>2
<1>5. Parent \in DOMAIN body /\ Index \in 1..Kids(Parent)
  BY <1>2, <1>3, <1>4, NodeFacts
<1>6. Class(at) \in Children(Class(Parent), Index)  BY <1>2, <1>5, NodeFacts
<1>7. QED  BY <1>2, <1>5, <1>6

-----------------------------------------------------------------------------
(* The C++ stack.  Every waiting node has an entry in lhs and in by; one    *)
(* that keeps a left operand is an op that waits for its right operand.     *)

Steps == {"visit", "call", "return", "done", "dead"}

Stack ==
  /\ at \in DOMAIN body /\ step \in Steps
  /\ lhs \in Seq(Int)
  /\ Len(lhs) = IF step \in {"visit", "call"} THEN Len(at) + 1 ELSE Len(at)
  /\ \A k \in 1..Len(lhs) :
       lhs[k] # Null => k <= Len(at) /\ at[k] = 2 /\ Class(Prefix(at, k - 1)) = "op"

\* A returning function is not in an expression and makes no calls.
Unwinding == isReturning => step = "return" /\ Class(at) \in {"return", "block", "if", "while"}

Values ==
  /\ val \in Int /\ input \in Seq(Int)
  /\ step = "call" => Class(at) \in CallNode /\ val = Null
  /\ step = "done" => at = <<>>

InterpretationInv == body \in Bodies /\ Stack /\ Values /\ Unwinding

\* The node whose function is at the top of the stack.
Own(p) ==
  /\ p \in DOMAIN body /\ lhs \in Seq(Int) /\ Len(lhs) = Len(p) + 1
  /\ \A k \in 1..Len(p) : lhs[k] # Null => p[k] = 2 /\ Class(Prefix(p, k - 1)) = "op"

LEMMA OwnAt ==
  ASSUME InterpretationInv, step \in {"visit", "call"}
  PROVE  Own(at) /\ lhs[Len(at) + 1] = Null
<1>1. Len(at) \in Nat  BY NodeFacts DEF InterpretationInv, Stack
<1>2. QED  BY <1>1 DEF InterpretationInv, Stack, Own

LEMMA OwnParent ==
  ASSUME InterpretationInv, step = "return", at # <<>>
  PROVE  /\ Own(Parent)
         /\ lhs[Len(Parent) + 1] # Null => Index = 2 /\ Class(Parent) = "op"
<1> USE DEF InterpretationInv, Stack
<1>1. /\ Parent \in DOMAIN body /\ Parent \in Seq(Nat) /\ Len(Parent) = Len(at) - 1
      /\ Index = at[Len(at)] /\ \A k \in 1..Len(Parent) : Parent[k] = at[k]
  BY ParentFacts
<1>2. at \in Seq(Nat) /\ Len(at) \in Nat /\ Len(at) > 0  BY <1>1, NodeFacts
<1>3. \A k \in 1..Len(at) : Prefix(at, k - 1) = Prefix(Parent, k - 1)
  <2> TAKE k \in 1..Len(at)
  <2>1. k - 1 \in Nat /\ k - 1 <= Len(at) /\ k - 1 <= Len(Parent)  BY <1>1, <1>2
  <2>2. \A j \in 1..(k - 1) : at[j] = Parent[j]  BY <1>1, <1>2
  <2>3. QED  BY <1>1, <1>2, <2>1, <2>2, SamePrefix
<1>4. Prefix(Parent, Len(at) - 1) = Parent  BY <1>1, PrefixFacts
<1>5. \A k \in 1..Len(Parent) : lhs[k] # Null => Parent[k] = 2 /\ Class(Prefix(Parent, k - 1)) = "op"
  <2> TAKE k \in 1..Len(Parent)
  <2>1. k \in 1..Len(lhs) /\ k \in 1..Len(at)  BY <1>1, <1>2
  <2>2. Prefix(at, k - 1) = Prefix(Parent, k - 1) /\ Parent[k] = at[k]  BY <1>1, <1>3, <2>1
  <2>3. lhs[k] # Null => at[k] = 2 /\ Class(Prefix(at, k - 1)) = "op"  BY <2>1
  <2>4. QED  BY <2>2, <2>3
<1>6. lhs[Len(at)] # Null => Index = 2 /\ Class(Parent) = "op"
  <2>1. Len(at) \in 1..Len(lhs) /\ Len(at) \in 1..Len(at)  BY <1>2
  <2>2. QED  BY <1>1, <1>3, <1>4, <2>1
<1>7. QED  BY <1>1, <1>2, <1>5, <1>6 DEF Own

\* A child's function is called.
LEMMA Entered ==
  ASSUME body \in Bodies, body' = body, NEW p, Own(p), NEW i \in 1..Kids(p), NEW v \in Int,
         v # Null => i = 2 /\ Class(p) = "op",
         at' = Append(p, i), step' = "visit",
         lhs' = Append([lhs EXCEPT ![Len(lhs)] = v], Null)
  PROVE  Stack'
<1>1. p \in DOMAIN body /\ p \in Seq(Nat) /\ Len(p) \in Nat /\ Kids(p) \in Nat
  BY NodeFacts DEF Own
<1>2. i \in Nat  BY <1>1
<1>3. /\ at' \in DOMAIN body /\ at' \in Seq(Nat) /\ Len(at') = Len(p) + 1 /\ at'[Len(p) + 1] = i
      /\ \A k \in 1..Len(p) : at'[k] = p[k]
  BY <1>1, <1>2, NodeFacts, PathFacts
<1>4. \A k \in 0..Len(p) : Prefix(at', k) = Prefix(p, k)
  <2> TAKE k \in 0..Len(p)
  <2>1. k \in Nat /\ k <= Len(at') /\ k <= Len(p) /\ \A j \in 1..k : at'[j] = p[j]  BY <1>1, <1>3
  <2>2. QED  BY <1>1, <1>3, <2>1, SamePrefix
<1>5. Prefix(p, Len(p)) = p  BY <1>1, PrefixFacts
<1> DEFINE mid == [lhs EXCEPT ![Len(lhs)] = v]
<1>6. /\ mid \in Seq(Int) /\ Len(mid) = Len(p) + 1 /\ mid[Len(p) + 1] = v
      /\ \A k \in 1..Len(p) : mid[k] = lhs[k]
  <2>1. lhs \in Seq(Int) /\ Len(lhs) = Len(p) + 1  BY DEF Own
  <2>2. Len(lhs) \in 1..Len(lhs)  BY <1>1, <2>1
  <2>3. QED  BY <1>1, <2>1, <2>2, ExceptSeq
<1>7. /\ lhs' \in Seq(Int) /\ Len(lhs') = Len(p) + 2 /\ lhs'[Len(p) + 2] = Null
      /\ lhs'[Len(p) + 1] = v /\ \A k \in 1..Len(p) : lhs'[k] = lhs[k]
  <2>1. Null \in Int  BY DEF Null
  <2> HIDE DEF mid
  <2>2. lhs' = Append(mid, Null)  BY DEF mid
  <2>3. /\ lhs' \in Seq(Int) /\ Len(lhs') = Len(mid) + 1 /\ lhs'[Len(mid) + 1] = Null
        /\ \A k \in 1..Len(mid) : lhs'[k] = mid[k]
    <3>1. mid \in Seq(Int)  BY <1>6
    <3> DEFINE longer == Append(mid, Null)
    <3>2. /\ longer \in Seq(Int) /\ Len(longer) = Len(mid) + 1 /\ longer[Len(mid) + 1] = Null
          /\ \A k \in 1..Len(mid) : longer[k] = mid[k]
      BY <2>1, <3>1, PathFacts
    <3> HIDE DEF longer
    <3>3. lhs' = longer  BY <2>2 DEF longer
    <3>4. QED  BY <3>2, <3>3
  <2>4. QED  BY <1>1, <1>6, <2>3, SMTT(30)
<1>8. \A k \in 1..Len(lhs') :
        lhs'[k] # Null => k <= Len(at') /\ at'[k] = 2 /\ body[Prefix(at', k - 1)].class = "op"
  <2> SUFFICES ASSUME NEW k \in 1..Len(lhs'), lhs'[k] # Null
               PROVE  k <= Len(at') /\ at'[k] = 2 /\ body[Prefix(at', k - 1)].class = "op"
    OBVIOUS
  <2>1. CASE k = Len(p) + 1
    BY <1>1, <1>3, <1>4, <1>5, <1>7, <2>1, SMTT(30) DEF Class
  <2>2. CASE k \in 1..Len(p)
    <3>1. k - 1 \in 0..Len(p) /\ k <= Len(at')  BY <1>1, <1>3, <2>2
    <3>2. lhs'[k] = lhs[k] /\ at'[k] = p[k]  BY <1>3, <1>7, <2>2
    <3>3. p[k] = 2 /\ Class(Prefix(p, k - 1)) = "op"  BY <2>2, <3>2 DEF Own
    <3>4. Prefix(at', k - 1) = Prefix(p, k - 1)  BY <1>4, <3>1
    <3>5. QED  BY <3>1, <3>2, <3>3, <3>4 DEF Class
  <2>3. QED  BY <1>1, <1>7, <2>1, <2>2
<1>9. QED  BY <1>1, <1>3, <1>7, <1>8 DEF Stack, Steps, Class

\* ... without an operand to keep.
LEMMA EnterStack ==
  ASSUME body \in Bodies, body' = body, NEW p, Own(p), NEW i \in 1..Kids(p),
         lhs[Len(p) + 1] # Null => i = 2 /\ Class(p) = "op",
         Enter(p, i)
  PROVE  Stack'
<1>1. lhs \in Seq(Int) /\ Len(lhs) = Len(p) + 1 /\ Len(p) \in Nat  BY NodeFacts DEF Own
<1> DEFINE v == lhs[Len(lhs)]
<1>2. v \in Int /\ Len(lhs) \in 1..Len(lhs)  BY <1>1, ElementOfSeq
<1>3. [lhs EXCEPT ![Len(lhs)] = v] = lhs
  <2>1. lhs \in [1..Len(lhs) -> Int]  BY <1>1, LenProperties
  <2>2. QED  BY <1>2, <2>1
<1>4. lhs' = Append([lhs EXCEPT ![Len(lhs)] = v], Null)  BY <1>3 DEF Enter
<1>5. at' = Append(p, i) /\ step' = "visit"  BY DEF Enter
<1>6. v # Null => i = 2 /\ Class(p) = "op"  BY <1>1
<1> HIDE DEF v
<1>7. QED  BY <1>2, <1>4, <1>5, <1>6, Entered

LEMMA ExitStack ==
  ASSUME body \in Bodies, body' = body, NEW p, Own(p), Exit(p)
  PROVE  Stack'
<1>1. p \in DOMAIN body /\ lhs \in Seq(Int) /\ Len(lhs) = Len(p) + 1 /\ Len(p) \in Nat
  BY NodeFacts DEF Own
<1>2. lhs # <<>>  BY <1>1, EmptySeq
<1>3. lhs' \in Seq(Int) /\ Len(lhs') = Len(p) /\ \A k \in 1..Len(p) : lhs'[k] = lhs[k]
  BY <1>1, <1>2, PathSplit, SMTT(30) DEF Exit
<1>4. at' = p /\ step' = "return"  BY DEF Exit
<1>5. QED  BY <1>1, <1>3, <1>4 DEF Stack, Steps, Class, Own

\* The arguments of the call are there.
LEMMA CallStack ==
  ASSUME body \in Bodies, body' = body, NEW p, Own(p), lhs[Len(p) + 1] = Null,
         at' = p, step' = "call", lhs' = lhs
  PROVE  Stack'
<1>1. p \in DOMAIN body /\ Len(p) \in Nat  BY NodeFacts DEF Own
<1>2. QED  BY <1>1 DEF Stack, Steps, Class, Own

\* What a child has returned to.
LEMMA ReturnSite ==
  ASSUME InterpretationInv, step = "return", at # <<>>
  PROVE  /\ body \in Bodies /\ Own(Parent) /\ Parent \in DOMAIN body
         /\ lhs[Len(Parent) + 1] # Null => Index = 2 /\ Class(Parent) = "op"
         /\ Index \in 1..Kids(Parent) /\ Kids(Parent) \in Nat /\ HasKids(Class(Parent), Kids(Parent))
         /\ at = Append(Parent, Index)
         /\ isReturning => /\ Class(Parent) \in {"block", "if", "while"}
                           /\ Class(Parent) \in {"if", "while"} => Index = 2
<1>1. body \in Bodies /\ at \in DOMAIN body  BY DEF InterpretationInv, Stack
<1>2. /\ Parent \in DOMAIN body /\ Index \in 1..Kids(Parent) /\ at = Append(Parent, Index)
      /\ Class(at) \in Children(Class(Parent), Index)
  BY <1>1, ParentFacts
<1>3. Kids(Parent) \in Nat /\ HasKids(Class(Parent), Kids(Parent)) /\ Class(Parent) \in Classes
  BY <1>1, <1>2, NodeFacts
<1>4. /\ Own(Parent)
      /\ lhs[Len(Parent) + 1] # Null => Index = 2 /\ Class(Parent) = "op"
  BY OwnParent
<1>5. ASSUME isReturning
      PROVE  /\ Class(Parent) \in {"block", "if", "while"}
             /\ Class(Parent) \in {"if", "while"} => Index = 2
  <2>1. Class(at) \notin Expressions
    BY <1>5 DEF InterpretationInv, Unwinding, Expressions, Leaf, CallNode
  <2>2. QED  BY <1>2, <2>1 DEF Children
<1>6. QED  BY <1>1, <1>2, <1>3, <1>4, <1>5

\* The numbers of children, and the cases of two actions.
LEMMA KidsOf ==
  ASSUME NEW n, NEW class, HasKids(class, n)
  PROVE  /\ class \in Leaf => n = 0
         /\ class \in {"assign", "return"} => n = 1
         /\ class \in {"if", "while", "op"} => n = 2
         /\ class \in CallNode => n > 0
<1>1. CASE class \in Leaf  BY <1>1 DEF HasKids, Leaf, CallNode
<1>2. CASE class \in {"assign", "return"}  BY <1>2 DEF HasKids, Leaf, CallNode
<1>3. CASE class \in {"if", "while", "op"}  BY <1>3 DEF HasKids, Leaf, CallNode
<1>4. CASE class \in CallNode  BY <1>4 DEF HasKids, Leaf, CallNode
<1>5. QED  BY <1>1, <1>2, <1>3, <1>4

LEMMA WhileCases ==
  ASSUME InterpretWhile, Index \in 1..2
  PROVE  \/ Index = 1 /\ IsTrue(val) /\ Enter(Parent, 2)
         \/ Index = 1 /\ ~IsTrue(val) /\ Exit(Parent)
         \/ Index = 2 /\ isReturning /\ Exit(Parent)
         \/ Index = 2 /\ ~isReturning /\ Enter(Parent, 1)
<1>1. Index = 1 \/ Index = 2  OBVIOUS
<1>2. CASE Index = 1 /\ IsTrue(val)  BY <1>2 DEF InterpretWhile
<1>3. CASE Index = 1 /\ ~IsTrue(val)  BY <1>3 DEF InterpretWhile
<1>4. CASE Index = 2  BY <1>4 DEF InterpretWhile
<1>5. QED  BY <1>1, <1>2, <1>3, <1>4

LEMMA ArgumentsCases ==
  ASSUME Arguments, Kids(Parent) \in Nat, Index \in 1..Kids(Parent)
  PROVE  \/ Index = 1 /\ val = Null /\ step' = "dead" /\ UNCHANGED <<at, lhs, val>>
         \/ /\ ~(Index = 1 /\ val = Null) /\ Index < Kids(Parent)
            /\ Enter(Parent, Index + 1) /\ UNCHANGED val
         \/ /\ ~(Index = 1 /\ val = Null) /\ Index = Kids(Parent)
            /\ at' = Parent /\ step' = "call" /\ val' = Null /\ UNCHANGED lhs
<1>1. Index < Kids(Parent) \/ (Index = Kids(Parent) /\ ~(Index < Kids(Parent)))  OBVIOUS
<1>2. CASE Index = 1 /\ val = Null  BY <1>2 DEF Arguments
<1>3. CASE ~(Index = 1 /\ val = Null) /\ Index < Kids(Parent)
  <2>1. Index # Kids(Parent)  BY <1>3
  <2>2. QED  BY <1>3, <2>1 DEF Arguments
<1>4. CASE ~(Index = 1 /\ val = Null) /\ Index = Kids(Parent) /\ ~(Index < Kids(Parent))
  BY <1>4 DEF Arguments
<1>5. QED  BY <1>1, <1>2, <1>3, <1>4

\* A step of an execution keeps the stack in order.
LEMMA ExecuteKeepsInv ==
  ASSUME InterpretationInv, Execute
  PROVE  InterpretationInv'
<1>0. body \in Bodies /\ val \in Int /\ input \in Seq(Int) /\ at \in DOMAIN body /\ lhs \in Seq(Int)
  BY DEF InterpretationInv, Values, Stack
<1>a. step = "return" \/ ~isReturning  BY DEF InterpretationInv, Unwinding
<1>1. CASE EvaluateLeaf
  <2>1. Own(at) /\ ~isReturning  BY <1>1, <1>a, OwnAt DEF EvaluateLeaf
  <2>2. body' = body /\ Exit(at) /\ val' = 1 /\ input' = input /\ isReturning' = isReturning
    BY <1>1 DEF EvaluateLeaf, context
  <2>3. Stack'  BY <1>0, <2>1, <2>2, ExitStack
  <2>4. QED  BY <1>0, <2>1, <2>2, <2>3 DEF InterpretationInv, Values, Unwinding, Exit
<1>2. CASE Visit
  <2>1. Own(at) /\ lhs[Len(at) + 1] = Null /\ ~isReturning  BY <1>2, <1>a, OwnAt DEF Visit
  <2>2. body' = body /\ val' = val /\ input' = input /\ isReturning' = isReturning
    BY <1>2 DEF Visit, context
  <2>3. CASE Exit(at)
    <3>1. Stack'  BY <1>0, <2>1, <2>2, <2>3, ExitStack
    <3>2. QED  BY <1>0, <2>1, <2>2, <2>3, <3>1 DEF InterpretationInv, Values, Unwinding, Exit
  <2>4. CASE Kids(at) # 0 /\ Enter(at, 1)
    <3>1. 1 \in 1..Kids(at)  BY <1>0, <2>4, NodeFacts
    <3>2. Stack'  BY <1>0, <2>1, <2>2, <2>4, <3>1, EnterStack
    <3>3. QED  BY <1>0, <2>1, <2>2, <2>4, <3>2 DEF InterpretationInv, Values, Unwinding, Enter
  <2>5. QED  BY <1>2, <2>3, <2>4 DEF Visit
<1>3. CASE InterpretBlock
  <2>1. step = "return" /\ at # <<>> /\ Class(Parent) = "block"  BY <1>3 DEF InterpretBlock, Back
  <2>2. body' = body /\ val' = val /\ input' = input /\ isReturning' = isReturning
    BY <1>3 DEF InterpretBlock, context
  <2>3. CASE Exit(Parent)
    <3>1. Stack'  BY <2>1, <2>2, <2>3, ReturnSite, ExitStack
    <3>2. QED  BY <1>0, <2>1, <2>2, <2>3, <3>1 DEF InterpretationInv, Values, Unwinding, Exit, Class
  <2>4. CASE ~isReturning /\ Index # Kids(Parent) /\ Enter(Parent, Index + 1)
    <3>1. Index + 1 \in 1..Kids(Parent)  BY <2>1, <2>4, ReturnSite
    <3>2. Own(Parent) /\ lhs[Len(Parent) + 1] = Null  BY <2>1, ReturnSite
    <3>3. Stack'  BY <1>0, <2>2, <2>4, <3>1, <3>2, EnterStack
    <3>4. QED  BY <1>0, <2>2, <2>4, <3>3 DEF InterpretationInv, Values, Unwinding, Enter
  <2>5. QED  BY <1>3, <2>3, <2>4 DEF InterpretBlock
<1>4. CASE Assign
  <2>1. step = "return" /\ at # <<>> /\ Class(Parent) = "assign"  BY <1>4 DEF Assign, Back
  <2>2. /\ body' = body /\ val' = val /\ input' = input /\ isReturning' = isReturning
        /\ Exit(Parent) /\ ~isReturning
    BY <1>4, <2>1, ReturnSite DEF Assign, context
  <2>3. Stack'  BY <2>1, <2>2, ReturnSite, ExitStack
  <2>4. QED  BY <1>0, <2>2, <2>3 DEF InterpretationInv, Values, Unwinding, Exit
<1>5. CASE Return
  <2>1. step = "return" /\ at # <<>> /\ Class(Parent) = "return"  BY <1>5 DEF Return, Back
  <2>2. body' = body /\ val' = val /\ input' = input /\ Exit(Parent)
    BY <1>5 DEF Return, context
  <2>3. Stack'  BY <2>1, <2>2, ReturnSite, ExitStack
  <2>4. QED  BY <1>0, <2>1, <2>2, <2>3 DEF InterpretationInv, Values, Unwinding, Exit, Class
<1>6. CASE InterpretIf \/ InterpretWhile
  <2>1. step = "return" /\ at # <<>> /\ Class(Parent) \in {"if", "while"}
    BY <1>6 DEF InterpretIf, InterpretWhile, Back
  <2>2. body' = body /\ val' = val /\ input' = input /\ isReturning' = isReturning
    BY <1>6 DEF InterpretIf, InterpretWhile, context
  <2>3. CASE Exit(Parent)
    <3>1. Stack'  BY <2>1, <2>2, <2>3, ReturnSite, ExitStack
    <3>2. QED  BY <1>0, <2>1, <2>2, <2>3, <3>1 DEF InterpretationInv, Values, Unwinding, Exit, Class
  <2>4. CASE ~isReturning /\ \E i \in {1, 2} : Enter(Parent, i)
    <3>1. PICK i \in {1, 2} : Enter(Parent, i)  BY <2>4
    <3>2. i \in 1..Kids(Parent) /\ Own(Parent) /\ lhs[Len(Parent) + 1] = Null
      BY <2>1, ReturnSite, KidsOf
    <3>3. Stack'  BY <1>0, <2>2, <3>1, <3>2, EnterStack
    <3>4. QED  BY <1>0, <2>2, <2>4, <3>1, <3>3 DEF InterpretationInv, Values, Unwinding, Enter
  <2>5. Exit(Parent) \/ (~isReturning /\ \E i \in {1, 2} : Enter(Parent, i))
    <3>1. Index \in 1..2 /\ (isReturning => Index = 2)  BY <2>1, ReturnSite, KidsOf
    <3>2. CASE InterpretIf  BY <3>1, <3>2 DEF InterpretIf
    <3>3. CASE InterpretWhile  BY <3>1, <3>3, WhileCases
    <3>4. QED  BY <1>6, <3>2, <3>3
  <2>6. QED  BY <2>3, <2>4, <2>5
<1>7. CASE EvaluateLeft
  <2>1. step = "return" /\ at # <<>> /\ Class(Parent) = "op"  BY <1>7 DEF EvaluateLeft, Back
  <2>2. /\ body' = body /\ val' = val /\ input' = input /\ isReturning' = isReturning
        /\ at' = Append(Parent, 2) /\ step' = "visit"
        /\ lhs' = Append([lhs EXCEPT ![Len(lhs)] = val], Null)
    BY <1>7 DEF EvaluateLeft, KeepOperand, context
  <2>3. 2 \in 1..Kids(Parent) /\ Own(Parent) /\ ~isReturning
    BY <2>1, ReturnSite, KidsOf
  <2>4. Stack'  BY <1>0, <2>1, <2>2, <2>3, Entered
  <2>5. QED  BY <1>0, <2>2, <2>3, <2>4 DEF InterpretationInv, Values, Unwinding
<1>8. CASE PerformOp
  <2>1. step = "return" /\ at # <<>> /\ Class(Parent) = "op"  BY <1>8 DEF PerformOp, Back
  <2>2. /\ body' = body /\ input' = input /\ isReturning' = isReturning
        /\ val' = (Last(lhs) + val) % 2 /\ Exit(Parent) /\ ~isReturning
    BY <1>8, <2>1, ReturnSite DEF PerformOp, context
  <2>3. Stack'  BY <2>1, <2>2, ReturnSite, ExitStack
  <2>4. val' \in Int
    <3>1. Len(Parent) \in Nat /\ Len(lhs) = Len(Parent) + 1
      BY <1>0, <2>1, ReturnSite, NodeFacts DEF Own
    <3>2. lhs # <<>>  BY <3>1, EmptySeq
    <3>3. Last(lhs) \in Int  BY <1>0, <3>2, PathSplit
    <3>4. QED  BY <1>0, <2>2, <3>3
  <2>5. QED  BY <1>0, <2>2, <2>3, <2>4 DEF InterpretationInv, Values, Unwinding, Exit
<1>9. CASE Arguments
  <2>1. step = "return" /\ at # <<>> /\ Class(Parent) \in CallNode  BY <1>9 DEF Arguments, Back
  <2>2. body' = body /\ input' = input /\ isReturning' = isReturning /\ ~isReturning
    BY <1>9, <2>1, ReturnSite DEF Arguments, context, CallNode
  <2>3. /\ Own(Parent) /\ Index \in 1..Kids(Parent) /\ Kids(Parent) \in Nat
        /\ lhs[Len(Parent) + 1] = Null
    BY <2>1, ReturnSite DEF CallNode
  <2>4. CASE step' = "dead" /\ UNCHANGED <<at, lhs, val>>
    <3>1. Stack'  BY <1>0, <2>1, <2>2, <2>4 DEF InterpretationInv, Stack, Steps, Class
    <3>2. QED  BY <1>0, <2>2, <2>4, <3>1 DEF InterpretationInv, Values, Unwinding
  <2>5. CASE Index < Kids(Parent) /\ Enter(Parent, Index + 1) /\ UNCHANGED val
    <3>1. Index + 1 \in 1..Kids(Parent)  BY <2>3, <2>5
    <3>2. Stack'  BY <1>0, <2>2, <2>3, <2>5, <3>1, EnterStack
    <3>3. QED  BY <1>0, <2>2, <2>5, <3>2 DEF InterpretationInv, Values, Unwinding, Enter
  <2>6. CASE at' = Parent /\ step' = "call" /\ val' = Null /\ UNCHANGED lhs
    <3>1. Stack'  BY <1>0, <2>2, <2>3, <2>6, CallStack
    <3>2. QED  BY <1>0, <2>1, <2>2, <2>6, <3>1 DEF InterpretationInv, Values, Unwinding, Class, Null
  <2>7. QED  BY <1>9, <2>3, <2>4, <2>5, <2>6, ArgumentsCases
<1>10. CASE Invoke
  <2>1. Own(at) /\ ~isReturning  BY <1>10, <1>a, OwnAt DEF Invoke
  <2>2. body' = body /\ isReturning' = isReturning /\ Exit(at)  BY <1>10 DEF Invoke
  <2>3. val' \in Int /\ input' \in Seq(Int)
    <3>1. CASE input = <<>>  BY <1>0, <1>10, <3>1 DEF Invoke
    <3>2. CASE input # <<>>
      <4>1. Head(input) \in Int /\ Tail(input) \in Seq(Int)  BY <1>0, <3>2
      <4>2. QED  BY <1>10, <3>2, <4>1 DEF Invoke
    <3>3. QED  BY <3>1, <3>2
  <2>4. Stack'  BY <1>0, <2>1, <2>2, ExitStack
  <2>5. QED  BY <1>0, <2>1, <2>2, <2>3, <2>4 DEF InterpretationInv, Values, Unwinding, Exit
<1>11. QED
  BY <1>1, <1>2, <1>3, <1>4, <1>5, <1>6, <1>7, <1>8, <1>9, <1>10 DEF Execute

-----------------------------------------------------------------------------
(* Which functions are on the stack.                                       *)

Doing == {"runs", "searches"}

SkipTypeInv ==
  /\ InterpretationInv
  /\ by \in Seq(Doing) /\ Len(by) = Len(lhs)
  /\ astNodeFound \in BOOLEAN /\ caughtUp \in BOOLEAN
  /\ node \in DOMAIN body /\ phase \in {"compiled", "left", "resumed"}
  /\ phase = "left" => step = "call"

\* The node whose function is at the top of the stack.
Site(p) ==
  \/ p = at /\ step \in {"visit", "call"}
  \/ p = Parent /\ step = "return" /\ at # <<>>

LEMMA SiteFacts ==
  ASSUME InterpretationInv, NEW p, Site(p)
  PROVE  /\ body \in Bodies /\ p \in DOMAIN body /\ p \in Seq(Nat) /\ Len(p) \in Nat
         /\ Own(p) /\ lhs \in Seq(Int) /\ Len(lhs) = Len(p) + 1
         /\ lhs[Len(p) + 1] # Null => step = "return" /\ Index = 2 /\ Class(p) = "op"
         /\ Kids(p) \in Nat /\ HasKids(Class(p), Kids(p))
<1>1. /\ Own(p) /\ body \in Bodies /\ p \in DOMAIN body
      /\ lhs[Len(p) + 1] # Null => step = "return" /\ Index = 2 /\ Class(p) = "op"
  <2>1. CASE p = at /\ step \in {"visit", "call"}
    BY <2>1, OwnAt DEF InterpretationInv, Stack
  <2>2. CASE p = Parent /\ step = "return" /\ at # <<>>  BY <2>2, ReturnSite
  <2>3. QED  BY <2>1, <2>2 DEF Site
<1>2. QED  BY <1>1, NodeFacts DEF Own

\* Calls and returns that have no other effect.
LEMMA EnterKeepsInv ==
  ASSUME InterpretationInv, NEW p, Site(p), NEW i \in 1..Kids(p), Enter(p, i), ~isReturning,
         lhs[Len(p) + 1] = Null,
         body' = body, input' = input, isReturning' = isReturning, val' \in Int
  PROVE  InterpretationInv' /\ Len(lhs') = Len(lhs) + 1
<1>1. Stack'  BY SiteFacts, EnterStack
<1>2. Len(lhs') = Len(lhs) + 1
  <2>1. lhs \in Seq(Int) /\ Null \in Int  BY SiteFacts DEF Null
  <2>2. QED  BY <2>1, PathFacts DEF Enter
<1>3. QED  BY <1>1, <1>2 DEF InterpretationInv, Values, Unwinding, Enter

LEMMA ExitKeepsInv ==
  ASSUME InterpretationInv, NEW p, Site(p), Exit(p), isReturning => step = "return",
         body' = body, input' = input, isReturning' = isReturning, val' \in Int
  PROVE  InterpretationInv' /\ Len(lhs') = Len(lhs) - 1
<1>1. Stack'  BY SiteFacts, ExitStack
<1>2. Len(lhs') = Len(lhs) - 1
  <2>1. lhs \in Seq(Int) /\ Len(lhs) = Len(p) + 1 /\ Len(p) \in Nat  BY SiteFacts
  <2>2. lhs # <<>>  BY <2>1, EmptySeq
  <2>3. QED  BY <2>1, <2>2, PathSplit DEF Exit
<1>3. ASSUME isReturning PROVE Class(p) \in {"return", "block", "if", "while"}
  <2>1. step = "return" /\ p = Parent /\ at # <<>>  BY <1>3 DEF Site
  <2>2. QED  BY <1>3, <2>1, ReturnSite
<1>4. QED  BY <1>1, <1>2, <1>3 DEF InterpretationInv, Values, Unwinding, Exit, Class

\* The ways in which a step leaves the stack of functions.
LEMMA ByFacts ==
  ASSUME NEW n \in Nat, by \in Seq(Doing), Len(by) = n + 1, NEW f \in Doing
  PROVE  /\ by # <<>> /\ Last(by) = by[n + 1]
         /\ LET b == Front(by)
            IN  b \in Seq(Doing) /\ Len(b) = n /\ \A k \in 1..n : b[k] = by[k]
         /\ LET b == Append(by, f)
            IN  /\ b \in Seq(Doing) /\ Len(b) = n + 2 /\ b[n + 2] = f
                /\ \A k \in 1..(n + 1) : b[k] = by[k]
         /\ LET b == Append(Front(by), "runs") \o <<"runs">>
            IN  /\ b \in Seq(Doing) /\ Len(b) = n + 2 /\ b[n + 2] = "runs" /\ b[n + 1] = "runs"
                /\ \A k \in 1..n : b[k] = by[k]
         /\ LET b == Append(Front(by), "runs") \o <<>>
            IN  /\ b \in Seq(Doing) /\ Len(b) = n + 1 /\ b[n + 1] = "runs"
                /\ \A k \in 1..n : b[k] = by[k]
<1>1. by # <<>>  BY EmptySeq
<1> DEFINE front == Front(by)
           again == Append(front, "runs")
<1>2. Last(by) = by[n + 1]  BY <1>1, PathSplit
<1>3. front \in Seq(Doing) /\ Len(front) = n /\ \A k \in 1..n : front[k] = by[k]
  BY <1>1, PathSplit
<1>4. LET b == Append(by, f)
      IN  /\ b \in Seq(Doing) /\ Len(b) = n + 2 /\ b[n + 2] = f
          /\ \A k \in 1..(n + 1) : b[k] = by[k]
  BY PathFacts
<1>5. "runs" \in Doing  BY DEF Doing
<1> HIDE DEF front
<1>6. /\ again \in Seq(Doing) /\ Len(again) = n + 1 /\ again[n + 1] = "runs"
      /\ \A k \in 1..n : again[k] = by[k]
  BY <1>3, <1>5, PathFacts
<1> HIDE DEF again
<1>7. LET b == again \o <<"runs">>
      IN  /\ b \in Seq(Doing) /\ Len(b) = n + 2 /\ b[n + 2] = "runs" /\ b[n + 1] = "runs"
          /\ \A k \in 1..n : b[k] = by[k]
  <2>1. again \o <<"runs">> = Append(again, "runs")  BY <1>5, <1>6, AppendProperties, ConcatProperties
  <2>2. QED  BY <1>5, <1>6, <2>1, PathFacts
<1>8. again \o <<>> = again  BY <1>6, ConcatEmptySeq
<1>9. LET b == again \o <<>>
      IN  /\ b \in Seq(Doing) /\ Len(b) = n + 1 /\ b[n + 1] = "runs"
          /\ \A k \in 1..n : b[k] = by[k]
  BY <1>6, <1>8
<1>10. QED  BY <1>1, <1>2, <1>3, <1>4, <1>7, <1>9 DEF front, again

\* A step of an execution calls a child, returns, or stays.
ToChild(p) == \E i \in 1..Kids(p) : at' = Append(p, i) /\ step' = "visit" /\ Len(lhs') = Len(lhs) + 1
ToReturn(p) == at' = p /\ step' = "return" /\ Len(lhs') = Len(lhs) - 1
ToCall(p) == at' = p /\ step' = "call" /\ Len(lhs') = Len(lhs)
ToDead(p) == at' = at /\ step' = "dead" /\ Len(lhs') = Len(lhs) /\ step = "return"
Moves(p) == Site(p) /\ (ToChild(p) \/ ToReturn(p) \/ ToCall(p) \/ ToDead(p))

LEMMA EnterMoves ==
  ASSUME InterpretationInv, NEW p, Site(p), NEW i \in 1..Kids(p), Enter(p, i)
  PROVE  Moves(p)
<1>1. lhs \in Seq(Int) /\ Null \in Int  BY SiteFacts DEF Null
<1>2. Len(lhs') = Len(lhs) + 1  BY <1>1, PathFacts DEF Enter
<1>3. QED  BY <1>2 DEF Enter, Moves, ToChild

LEMMA ExitMoves ==
  ASSUME InterpretationInv, NEW p, Site(p), Exit(p)
  PROVE  Moves(p)
<1>1. lhs \in Seq(Int) /\ Len(lhs) = Len(p) + 1 /\ Len(p) \in Nat  BY SiteFacts
<1>2. lhs # <<>>  BY <1>1, EmptySeq
<1>3. Len(lhs') = Len(lhs) - 1  BY <1>1, <1>2, PathSplit DEF Exit
<1>4. QED  BY <1>3 DEF Exit, Moves, ToReturn

LEMMA ExecuteMoves ==
  ASSUME InterpretationInv, Execute
  PROVE  \E p : Moves(p)
<1>1. CASE EvaluateLeaf
  <2>1. Site(at) /\ Exit(at)  BY <1>1 DEF EvaluateLeaf, Site
  <2>2. QED  BY <2>1, ExitMoves
<1>2. CASE Visit
  <2>1. Site(at)  BY <1>2 DEF Visit, Site
  <2>2. CASE Exit(at)  BY <2>1, <2>2, ExitMoves
  <2>3. CASE Kids(at) # 0 /\ Enter(at, 1)
    <3>1. 1 \in 1..Kids(at)  BY <2>1, <2>3, SiteFacts
    <3>2. QED  BY <2>1, <2>3, <3>1, EnterMoves
  <2>4. QED  BY <1>2, <2>2, <2>3 DEF Visit
<1>3. CASE InterpretBlock
  <2>1. Site(Parent) /\ step = "return" /\ at # <<>>  BY <1>3 DEF InterpretBlock, Back, Site
  <2>2. CASE Exit(Parent)  BY <2>1, <2>2, ExitMoves
  <2>3. CASE Index # Kids(Parent) /\ Enter(Parent, Index + 1)
    <3>1. Index + 1 \in 1..Kids(Parent)  BY <2>1, <2>3, ReturnSite
    <3>2. QED  BY <2>1, <2>3, <3>1, EnterMoves
  <2>4. QED  BY <1>3, <2>2, <2>3 DEF InterpretBlock
<1>4. CASE Assign \/ Return \/ PerformOp
  <2>1. Site(Parent) /\ Exit(Parent)  BY <1>4 DEF Assign, Return, PerformOp, Back, Site
  <2>2. QED  BY <2>1, ExitMoves
<1>5. CASE InterpretIf \/ InterpretWhile
  <2>1. Site(Parent) /\ Class(Parent) \in {"if", "while"} /\ step = "return" /\ at # <<>>
    BY <1>5 DEF InterpretIf, InterpretWhile, Back, Site
  <2>2. Index \in 1..2 /\ 1 \in 1..Kids(Parent) /\ 2 \in 1..Kids(Parent)
    BY <2>1, ReturnSite, KidsOf
  <2>3. Exit(Parent) \/ Enter(Parent, 1) \/ Enter(Parent, 2)
    BY <1>5, <2>2, WhileCases DEF InterpretIf
  <2>4. QED  BY <2>1, <2>2, <2>3, ExitMoves, EnterMoves
<1>6. CASE EvaluateLeft
  <2>1. Site(Parent) /\ Class(Parent) = "op" /\ step = "return" /\ at # <<>>
    BY <1>6 DEF EvaluateLeft, Back, Site
  <2>2. 2 \in 1..Kids(Parent)  BY <2>1, ReturnSite, KidsOf
  <2>3. Len(lhs') = Len(lhs) + 1
    <3>1. lhs \in Seq(Int) /\ Null \in Int /\ val \in Int /\ Len(lhs) \in 1..Len(lhs)
      BY <2>1, SiteFacts DEF Null, InterpretationInv, Values
    <3>2. [lhs EXCEPT ![Len(lhs)] = val] \in Seq(Int) /\ Len([lhs EXCEPT ![Len(lhs)] = val]) = Len(lhs)
      BY <3>1, ExceptSeq
    <3>3. QED  BY <1>6, <3>1, <3>2, PathFacts DEF EvaluateLeft, KeepOperand
  <2>4. QED  BY <1>6, <2>1, <2>2, <2>3 DEF EvaluateLeft, KeepOperand, Moves, ToChild
<1>7. CASE Arguments
  <2>1. Site(Parent) /\ step = "return" /\ at # <<>>  BY <1>7 DEF Arguments, Back, Site
  <2>2. Kids(Parent) \in Nat /\ Index \in 1..Kids(Parent)  BY <2>1, ReturnSite
  <2>3. CASE step' = "dead" /\ UNCHANGED <<at, lhs, val>>
    BY <2>1, <2>3 DEF Moves, ToDead
  <2>4. CASE Index < Kids(Parent) /\ Enter(Parent, Index + 1)
    <3>1. Index + 1 \in 1..Kids(Parent)  BY <2>2, <2>4
    <3>2. QED  BY <2>1, <2>4, <3>1, EnterMoves
  <2>5. CASE at' = Parent /\ step' = "call" /\ UNCHANGED lhs
    BY <2>1, <2>5 DEF Moves, ToCall
  <2>6. QED  BY <1>7, <2>2, <2>3, <2>4, <2>5, ArgumentsCases
<1>8. CASE Invoke
  <2>1. Site(at) /\ Exit(at)  BY <1>8 DEF Invoke, Site
  <2>2. QED  BY <2>1, ExitMoves
<1>9. QED  BY <1>1, <1>2, <1>3, <1>4, <1>5, <1>6, <1>7, <1>8 DEF Execute

\* What runs calls what runs.
LEMMA RunKeepsFunctions ==
  ASSUME SkipTypeInv, NEW p, Moves(p), Last(by) = "runs", SameFunctions
  PROVE  /\ by' \in Seq(Doing) /\ Len(by') = Len(lhs')
         /\ \A k \in 1..Len(p) : by'[k] = by[k]
         /\ \A k \in (Len(p) + 1)..Len(by') : by'[k] = "runs"
<1>1. Len(p) \in Nat /\ Len(lhs) = Len(p) + 1 /\ Len(by) = Len(p) + 1 /\ by \in Seq(Doing)
  BY SiteFacts DEF SkipTypeInv, Moves
<1>2. "runs" \in Doing  BY DEF Doing
<1>3. by[Len(p) + 1] = "runs"  BY <1>1, <1>2, ByFacts
<1>4. CASE Len(lhs') = Len(lhs) + 1
  <2>1. by' = Append(by, "runs")  BY <1>1, <1>4 DEF SameFunctions
  <2>2. /\ by' \in Seq(Doing) /\ Len(by') = Len(p) + 2 /\ by'[Len(p) + 2] = "runs"
        /\ \A k \in 1..(Len(p) + 1) : by'[k] = by[k]
    BY <1>1, <1>2, <2>1, ByFacts
  <2>3. QED  BY <1>1, <1>3, <1>4, <2>2
<1>5. CASE Len(lhs') = Len(lhs) - 1
  <2>1. by' = Front(by)  BY <1>1, <1>5 DEF SameFunctions
  <2>2. by' \in Seq(Doing) /\ Len(by') = Len(p) /\ \A k \in 1..Len(p) : by'[k] = by[k]
    BY <1>1, <1>2, <2>1, ByFacts
  <2>3. QED  BY <1>1, <1>5, <2>2
<1>6. CASE Len(lhs') = Len(lhs)
  <2>1. by' = by  BY <1>1, <1>6 DEF SameFunctions
  <2>2. QED  BY <1>1, <1>3, <1>6, <2>1
<1>7. QED  BY <1>4, <1>5, <1>6 DEF Moves, ToChild, ToReturn, ToCall, ToDead

\* The functions below the top of the stack stay.
Agrees(p) == by' \in Seq(Doing) /\ Len(by') = Len(lhs') /\ \A k \in 1..Len(p) : by'[k] = by[k]

LEMMA Popped ==
  ASSUME SkipTypeInv, NEW p, Site(p), Exit(p), by' = Front(by)
  PROVE  Agrees(p) /\ Len(by') = Len(p)
<1>1. /\ Len(p) \in Nat /\ Len(lhs) = Len(p) + 1 /\ Len(by) = Len(p) + 1 /\ by \in Seq(Doing)
      /\ lhs \in Seq(Int)
  BY SiteFacts DEF SkipTypeInv
<1>2. lhs # <<>>  BY <1>1, EmptySeq
<1>3. Len(lhs') = Len(p)  BY <1>1, <1>2, PathSplit DEF Exit
<1>4. "runs" \in Doing  BY DEF Doing
<1>5. by' \in Seq(Doing) /\ Len(by') = Len(p) /\ \A k \in 1..Len(p) : by'[k] = by[k]
  BY <1>1, <1>4, ByFacts
<1>6. QED  BY <1>3, <1>5 DEF Agrees

LEMMA Pushed ==
  ASSUME SkipTypeInv, NEW p, Site(p), Len(lhs') = Len(lhs) + 1, NEW f \in Doing,
         \/ by' = Append(by, f)
         \/ by' = Append(Front(by), "runs") \o <<"runs">> /\ f = "runs"
  PROVE  /\ Agrees(p) /\ Len(by') = Len(p) + 2 /\ by'[Len(p) + 2] = f
         /\ by'[Len(p) + 1] \in {by[Len(p) + 1], "runs"}
         /\ by' = Append(by, f) => by'[Len(p) + 1] = by[Len(p) + 1]
<1>1. Len(p) \in Nat /\ Len(lhs) = Len(p) + 1 /\ Len(by) = Len(p) + 1 /\ by \in Seq(Doing)
  BY SiteFacts DEF SkipTypeInv
<1>2. CASE by' = Append(by, f)
  <2>1. /\ by' \in Seq(Doing) /\ Len(by') = Len(p) + 2 /\ by'[Len(p) + 2] = f
        /\ \A k \in 1..(Len(p) + 1) : by'[k] = by[k]
    BY <1>1, <1>2, ByFacts
  <2>2. QED  BY <1>1, <2>1 DEF Agrees
<1>3. CASE by' = Append(Front(by), "runs") \o <<"runs">> /\ f = "runs" /\ by' # Append(by, f)
  <2>1. /\ by' \in Seq(Doing) /\ Len(by') = Len(p) + 2 /\ by'[Len(p) + 2] = f
        /\ by'[Len(p) + 1] = "runs" /\ \A k \in 1..Len(p) : by'[k] = by[k]
    BY <1>1, <1>3, ByFacts
  <2>2. QED  BY <1>1, <1>3, <2>1 DEF Agrees
<1>4. QED  BY <1>2, <1>3

LEMMA Replaced ==
  ASSUME SkipTypeInv, NEW p, Site(p), lhs' = lhs, by' = Append(Front(by), "runs") \o <<>>
  PROVE  Agrees(p) /\ Len(by') = Len(p) + 1 /\ by'[Len(p) + 1] = "runs"
<1>1. Len(p) \in Nat /\ Len(lhs) = Len(p) + 1 /\ Len(by) = Len(p) + 1 /\ by \in Seq(Doing)
  BY SiteFacts DEF SkipTypeInv
<1>2. "runs" \in Doing  BY DEF Doing
<1>3. /\ by' \in Seq(Doing) /\ Len(by') = Len(p) + 1 /\ by'[Len(p) + 1] = "runs"
      /\ \A k \in 1..Len(p) : by'[k] = by[k]
  BY <1>1, <1>2, ByFacts
<1>4. QED  BY <1>1, <1>3 DEF Agrees

\* A step of the search keeps the stack in order.
LEMMA SkipKeepsInv ==
  ASSUME SkipTypeInv, Skip
  PROVE  InterpretationInv' /\ by' \in Seq(Doing) /\ Len(by') = Len(lhs')
<1>0. /\ InterpretationInv /\ val \in Int /\ Null \in Int /\ astNodeFound \in BOOLEAN
      /\ "runs" \in Doing /\ "searches" \in Doing
  BY DEF SkipTypeInv, InterpretationInv, Values, Null, Doing
<1>a. step = "return" \/ ~isReturning  BY DEF SkipTypeInv, InterpretationInv, Unwinding
<1>s. body' = body  BY DEF Skip, SkipLeaf, SkipVisit, SkipBlock, SkipAssign, SkipReturn,
        SkipCondition, SkipIf, SkipWhile, SkipLeft, SkipOp, SkipCall, Searches
<1>x. ASSUME NEW p, Site(p), Exit(p), by' = Front(by), input' = input, isReturning' = isReturning,
             val' \in Int
      PROVE  InterpretationInv' /\ by' \in Seq(Doing) /\ Len(by') = Len(lhs')
  <2>1. isReturning => step = "return"  BY <1>a
  <2>2. InterpretationInv'  BY <1>0, <1>s, <1>x, <2>1, ExitKeepsInv
  <2>3. Agrees(p)  BY <1>x, Popped
  <2>4. QED  BY <2>2, <2>3 DEF Agrees
<1>e. ASSUME NEW p, Site(p), NEW i \in 1..Kids(p), Enter(p, i), ~isReturning,
             lhs[Len(p) + 1] = Null, NEW f \in Doing,
             \/ by' = Append(by, f)
             \/ by' = Append(Front(by), "runs") \o <<"runs">> /\ f = "runs",
             input' = input, isReturning' = isReturning, val' = val
      PROVE  InterpretationInv' /\ by' \in Seq(Doing) /\ Len(by') = Len(lhs')
  <2>1. InterpretationInv' /\ Len(lhs') = Len(lhs) + 1  BY <1>0, <1>s, <1>e, EnterKeepsInv
  <2>2. Agrees(p)  BY <1>e, <2>1, Pushed
  <2>3. QED  BY <2>1, <2>2 DEF Agrees
<1>1. CASE SkipLeaf
  <2>1. Site(at)  BY <1>1 DEF SkipLeaf, Site
  <2>2. /\ Exit(at) /\ by' = Front(by) /\ input' = input /\ isReturning' = isReturning
        /\ val' \in Int
    BY <1>0, <1>1 DEF SkipLeaf, Ascend, context
  <2>3. QED  BY <1>x, <2>1, <2>2
<1>2. CASE SkipVisit
  <2>1. Site(at) /\ ~isReturning /\ lhs[Len(at) + 1] = Null
    <3>1. Site(at) /\ step = "visit"  BY <1>2 DEF SkipVisit, Site
    <3>2. QED  BY <1>0, <1>a, <3>1, SiteFacts
  <2>2. input' = input /\ isReturning' = isReturning /\ val' = val
    BY <1>2 DEF SkipVisit, context
  <2>3. CASE Kids(at) = 0
    <3>1. Exit(at) /\ by' = Front(by)  BY <1>2, <2>3 DEF SkipVisit, Ascend
    <3>2. QED  BY <1>0, <1>x, <2>1, <2>2, <3>1
  <2>4. CASE Kids(at) # 0
    <3>1. 1 \in 1..Kids(at)  BY <1>0, <2>1, <2>4, SiteFacts
    <3>2. Enter(at, 1) /\ \E f \in Doing : by' = Append(by, f)
      BY <1>0, <1>2, <2>4 DEF SkipVisit, Descend
    <3>3. QED  BY <1>e, <2>1, <2>2, <3>1, <3>2
  <2>5. QED  BY <2>3, <2>4
<1>3. CASE SkipBlock
  <2>1. Site(Parent) /\ step = "return" /\ at # <<>> /\ Class(Parent) = "block"
    BY <1>3 DEF SkipBlock, Back, Site
  <2>2. input' = input /\ isReturning' = isReturning /\ val' = val
    BY <1>3 DEF SkipBlock, context
  <2>3. CASE isReturning \/ Index = Kids(Parent)
    <3>1. Exit(Parent) /\ by' = Front(by)  BY <1>3, <2>3 DEF SkipBlock, Ascend
    <3>2. QED  BY <1>0, <1>x, <2>1, <2>2, <3>1
  <2>4. CASE ~(isReturning \/ Index = Kids(Parent))
    <3>1. Index + 1 \in 1..Kids(Parent) /\ lhs[Len(Parent) + 1] = Null
      BY <1>0, <2>1, <2>4, ReturnSite
    <3>2. Enter(Parent, Index + 1) /\ \E f \in Doing : by' = Append(by, f)
      BY <1>0, <1>3, <2>4 DEF SkipBlock, Descend
    <3>3. QED  BY <1>e, <2>1, <2>2, <2>4, <3>1, <3>2
  <2>5. QED  BY <2>3, <2>4
<1>4. CASE SkipAssign \/ SkipReturn \/ SkipOp
  <2>1. /\ Site(Parent) /\ step = "return" /\ at # <<>> /\ Exit(Parent) /\ by' = Front(by)
    BY <1>4 DEF SkipAssign, SkipReturn, SkipOp, Back, Site, Assign, Return, PerformOp
  <2>2. CASE Assign \/ Return \/ PerformOp
    <3>1. InterpretationInv'  BY <1>0, <2>2, ExecuteKeepsInv DEF Execute
    <3>2. Agrees(Parent)  BY <2>1, Popped
    <3>3. QED  BY <3>1, <3>2 DEF Agrees
  <2>3. CASE UNCHANGED context /\ val' \in {val, Null}
    BY <1>0, <1>x, <2>1, <2>3 DEF context
  <2>4. QED  BY <1>4, <2>2, <2>3 DEF SkipAssign, SkipReturn, SkipOp
<1>5. CASE SkipCondition
  <2>1. /\ Site(Parent) /\ step = "return" /\ at # <<>> /\ Class(Parent) \in {"if", "while"}
        /\ Index = 1
    BY <1>5 DEF SkipCondition, Back, Site
  <2>2. /\ input' = input /\ isReturning' = isReturning /\ val' = val
        /\ Enter(Parent, 2) /\ \E f \in Doing : by' = Append(by, f)
    BY <1>0, <1>5 DEF SkipCondition, context
  <2>3. 2 \in 1..Kids(Parent) /\ lhs[Len(Parent) + 1] = Null /\ ~isReturning
    BY <1>0, <2>1, ReturnSite, KidsOf
  <2>4. QED  BY <1>e, <2>1, <2>2, <2>3
<1>6. CASE SkipIf
  <2>1. Site(Parent)  BY <1>6 DEF SkipIf, Back, Site
  <2>2. /\ Exit(Parent) /\ by' = Front(by) /\ input' = input /\ isReturning' = isReturning
        /\ val' = val
    BY <1>6 DEF SkipIf, Ascend, context
  <2>3. QED  BY <1>0, <1>x, <2>1, <2>2
<1>7. CASE SkipWhile
  <2>1. Site(Parent) /\ step = "return" /\ at # <<>> /\ Class(Parent) = "while"
    BY <1>7 DEF SkipWhile, Back, Site
  <2>2. input' = input /\ isReturning' = isReturning /\ val' = val
    BY <1>7 DEF SkipWhile, context
  <2>3. CASE astNodeFound /\ ~isReturning
    <3>1. 1 \in 1..Kids(Parent) /\ lhs[Len(Parent) + 1] = Null
      BY <1>0, <2>1, ReturnSite, KidsOf
    <3>2. Enter(Parent, 1) /\ by' = Append(Front(by), "runs") \o <<"runs">>
      BY <1>7, <2>3 DEF SkipWhile
    <3>3. QED  BY <1>0, <1>e, <2>1, <2>2, <2>3, <3>1, <3>2
  <2>4. CASE ~(astNodeFound /\ ~isReturning)
    <3>1. Exit(Parent) /\ by' = Front(by)  BY <1>7, <2>4 DEF SkipWhile, Ascend
    <3>2. QED  BY <1>0, <1>x, <2>1, <2>2, <3>1
  <2>5. QED  BY <2>3, <2>4
<1>8. CASE SkipLeft
  <2>1. Site(Parent) /\ step = "return" /\ at # <<>> /\ Class(Parent) = "op"
    BY <1>8 DEF SkipLeft, Back, Site
  <2> DEFINE v == IF astNodeFound THEN val ELSE Null
  <2>2. v \in Int /\ KeepOperand(v)  BY <1>0, <1>8 DEF SkipLeft
  <2> HIDE DEF v
  <2>3. /\ body' = body /\ val' = val /\ input' = input /\ isReturning' = isReturning
        /\ at' = Append(Parent, 2) /\ step' = "visit"
        /\ lhs' = Append([lhs EXCEPT ![Len(lhs)] = v], Null)
    BY <2>2 DEF KeepOperand, context
  <2>4. 2 \in 1..Kids(Parent) /\ Own(Parent) /\ ~isReturning /\ body \in Bodies
    BY <1>0, <2>1, ReturnSite, KidsOf
  <2>5. Stack'  BY <2>1, <2>2, <2>3, <2>4, Entered
  <2>6. InterpretationInv'
    BY <1>0, <2>3, <2>4, <2>5 DEF InterpretationInv, Values, Unwinding
  <2>7. Len(lhs') = Len(lhs) + 1
    <3>1. lhs \in Seq(Int) /\ Len(lhs) \in 1..Len(lhs)  BY <1>0, <2>1, SiteFacts
    <3>2. [lhs EXCEPT ![Len(lhs)] = v] \in Seq(Int) /\ Len([lhs EXCEPT ![Len(lhs)] = v]) = Len(lhs)
      BY <2>2, <3>1, ExceptSeq
    <3>3. QED  BY <1>0, <2>3, <3>2, PathFacts
  <2>8. PICK f \in Doing : by' = Append(by, f)  BY <1>0, <1>8 DEF SkipLeft
  <2>9. Agrees(Parent)  BY <2>1, <2>7, <2>8, Pushed
  <2>10. QED  BY <2>6, <2>9 DEF Agrees
<1>9. CASE SkipCall
  <2>1. Site(Parent) /\ step = "return" /\ at # <<>> /\ Class(Parent) \in CallNode
    BY <1>9 DEF SkipCall, Back, Site
  <2>2. CASE astNodeFound \/ Parent = node
    <3>1. /\ Arguments
          /\ by' = Append(Front(by), "runs") \o (IF Len(lhs') > Len(lhs) THEN <<"runs">> ELSE <<>>)
      BY <1>9, <2>2 DEF SkipCall
    <3>2. InterpretationInv'  BY <1>0, <3>1, ExecuteKeepsInv DEF Execute
    <3>3. Kids(Parent) \in Nat /\ Index \in 1..Kids(Parent) /\ lhs \in Seq(Int)
      BY <1>0, <2>1, ReturnSite, SiteFacts
    <3>4. CASE Enter(Parent, Index + 1)
      <4>1. Len(lhs') = Len(lhs) + 1  BY <1>0, <3>3, <3>4, PathFacts DEF Enter
      <4>2. by' = Append(Front(by), "runs") \o <<"runs">>  BY <3>1, <3>3, <4>1
      <4>3. Agrees(Parent)  BY <1>0, <2>1, <4>1, <4>2, Pushed
      <4>4. QED  BY <3>2, <4>3 DEF Agrees
    <3>5. CASE lhs' = lhs
      <4>1. by' = Append(Front(by), "runs") \o <<>>  BY <3>1, <3>3, <3>5
      <4>2. Agrees(Parent)  BY <2>1, <3>5, <4>1, Replaced
      <4>3. QED  BY <3>2, <4>2 DEF Agrees
    <3>6. QED  BY <3>1, <3>3, <3>4, <3>5, ArgumentsCases
  <2>3. CASE ~(astNodeFound \/ Parent = node)
    <3>1. /\ Exit(Parent) /\ by' = Front(by) /\ val' = Null /\ input' = input
          /\ isReturning' = isReturning
      BY <1>9, <2>3 DEF SkipCall, Ascend, context
    <3>2. QED  BY <1>0, <1>x, <2>1, <3>1
  <2>4. QED  BY <2>2, <2>3
<1>10. QED
  BY <1>1, <1>2, <1>3, <1>4, <1>5, <1>6, <1>7, <1>8, <1>9 DEF Skip

LEMMA SkipFrame ==
  ASSUME Skip
  PROVE  /\ phase = "resumed" /\ Last(by) = "searches" /\ step \in {"visit", "return"}
         /\ step = "return" => at # <<>>
         /\ UNCHANGED <<body, node, phase, caughtUp>>
BY DEF Skip, SkipLeaf, SkipVisit, SkipBlock, SkipAssign, SkipReturn, SkipCondition, SkipIf,
       SkipWhile, SkipLeft, SkipOp, SkipCall, Searches, Back

LEMMA FoundStays ==
  ASSUME SkipTypeInv, Skip
  PROVE  astNodeFound' \in BOOLEAN /\ (astNodeFound => astNodeFound')
BY DEF SkipTypeInv, Skip, SkipLeaf, SkipVisit, SkipBlock, SkipAssign, SkipReturn, SkipCondition,
       SkipIf, SkipWhile, SkipLeft, SkipOp, SkipCall

LEMMA ExecuteFrame ==
  ASSUME Execute
  PROVE  /\ body' = body /\ step \in {"visit", "call", "return"}
         /\ step = "return" => at # <<>>
BY DEF Execute, EvaluateLeaf, Visit, InterpretBlock, Assign, Return, InterpretIf, InterpretWhile,
       EvaluateLeft, KeepOperand, PerformOp, Arguments, Invoke, Back

LEMMA SkipTypeInvInit ==
  SkipInit => SkipTypeInv
<1> SUFFICES ASSUME SkipInit PROVE SkipTypeInv  OBVIOUS
<1> USE DEF SkipInit, Init
<1>1. body \in Bodies /\ Tree(body)  BY InterpretationAssumption
<1>2. at \in DOMAIN body /\ node \in DOMAIN body  BY <1>1 DEF Tree
<1>3. val \in Int /\ input \in Seq(Int) /\ Null \in Int
  BY InterpretationAssumption DEF Null
<1>4. lhs \in Seq(Int) /\ Len(lhs) = 1 /\ lhs[1] = Null  BY <1>3
<1>5. by \in Seq(Doing) /\ Len(by) = 1  BY DEF Doing
<1>6. Stack
  <2>1. Len(at) = 0 /\ step = "visit"  BY EmptySeq
  <2>2. QED  BY <1>2, <1>4, <2>1 DEF Stack, Steps
<1>7. Values /\ Unwinding  BY <1>3 DEF Values, Unwinding
<1>8. QED  BY <1>1, <1>2, <1>4, <1>5, <1>6, <1>7 DEF SkipTypeInv, InterpretationInv

LEMMA SkipTypeInvNext ==
  SkipTypeInv /\ [SkipNext]_skipVars => SkipTypeInv'
<1> SUFFICES ASSUME SkipTypeInv, [SkipNext]_skipVars PROVE SkipTypeInv'  OBVIOUS
<1> USE DEF SkipTypeInv
<1>1. CASE Run
  <2>1. InterpretationInv' /\ body' = body
    BY <1>1, ExecuteKeepsInv, ExecuteFrame DEF Run
  <2>2. PICK p : Moves(p)  BY <1>1, ExecuteMoves DEF Run
  <2>3. by' \in Seq(Doing) /\ Len(by') = Len(lhs')
    BY <1>1, <2>2, RunKeepsFunctions DEF Run
  <2>4. QED  BY <1>1, <2>1, <2>3 DEF Run
<1>2. CASE GuardFails
  BY <1>2 DEF GuardFails, vars, context, InterpretationInv, Stack, Values, Unwinding, Class
<1>3. CASE ResumeInInterpreter
  <2>1. ~isReturning /\ body \in Bodies /\ Tree(body)
    BY <1>3, InterpretationAssumption DEF ResumeInInterpreter, InterpretationInv, Unwinding
  <2>2. at' \in DOMAIN body /\ Len(at') = 0 /\ step' = "visit" /\ body' = body
    BY <1>3, <2>1, EmptySeq DEF ResumeInInterpreter, Tree
  <2>3. Null \in Int  BY DEF Null
  <2>4. /\ lhs' \in Seq(Int) /\ Len(lhs') = 1 /\ lhs'[1] = Null
        /\ by' \in Seq(Doing) /\ Len(by') = 1
    BY <1>3, <2>3 DEF ResumeInInterpreter, Doing
  <2>5. Stack'  BY <2>2, <2>4 DEF Stack, Steps
  <2>6. Values' /\ Unwinding'
    BY <1>3, <2>1, <2>3 DEF ResumeInInterpreter, context, InterpretationInv, Values, Unwinding
  <2>7. QED  BY <1>3, <2>1, <2>2, <2>4, <2>5, <2>6 DEF ResumeInInterpreter, InterpretationInv
<1>4. CASE Skip
  BY <1>4, SkipKeepsInv, SkipFrame, FoundStays
<1>5. CASE EndOfBody
  <2>1. Stack'  BY <1>5 DEF EndOfBody, Finish, InterpretationInv, Stack, Steps, Class
  <2>2. Values' /\ Unwinding' /\ body' \in Bodies
    BY <1>5 DEF EndOfBody, Finish, InterpretationInv, Values, Unwinding
  <2>3. QED  BY <1>5, <2>1, <2>2 DEF EndOfBody, Finish, InterpretationInv
<1>6. CASE UNCHANGED skipVars
  BY <1>6 DEF skipVars, walk, vars, context, InterpretationInv, Stack, Values, Unwinding, Class
<1>7. QED  BY <1>1, <1>2, <1>3, <1>4, <1>5, <1>6 DEF SkipNext

-----------------------------------------------------------------------------
(* The order in which a walk of the tree meets its nodes.                  *)

\* p is on the path to q; a walk leaves p before it comes to q.
Leads(p, q) == Len(p) <= Len(q) /\ \A k \in 1..Len(p) : p[k] = q[k]
Precedes(p, q) == \E j \in 1..Len(p) : j <= Len(q) /\ p[j] < q[j] /\ \A k \in 1..(j - 1) : p[k] = q[k]

LEMMA LeadsFacts ==
  ASSUME NEW p \in Seq(Nat), NEW q \in Seq(Nat), Leads(p, q)
  PROVE  /\ Prefix(q, Len(p)) = p
         /\ p # q => Len(p) < Len(q)
<1>1. Len(p) \in Nat /\ Len(q) \in Nat /\ Len(p) <= Len(q)  BY DEF Leads
<1>2. Prefix(q, Len(p)) = Prefix(p, Len(p))  BY <1>1, SamePrefix DEF Leads
<1>3. Prefix(p, Len(p)) = p /\ Prefix(q, Len(q)) = q  BY PrefixFacts
<1>4. QED  BY <1>1, <1>2, <1>3

LEMMA PrecedesFacts ==
  ASSUME NEW p \in Seq(Nat), NEW q \in Seq(Nat)
  PROVE  /\ ~Precedes(p, p) /\ ~Precedes(<<>>, q) /\ Leads(<<>>, q)
<1>1. Len(p) \in Nat /\ Len(q) \in Nat /\ Len(<<>>) = 0  BY EmptySeq
<1>2. \A j \in 1..Len(p) : p[j] \in Nat  BY ElementOfSeq
<1>3. QED  BY <1>1, <1>2 DEF Precedes, Leads

\* The child of a node that precedes q, and of one that leads to q.
LEMMA ChildOnTheWay ==
  ASSUME NEW p \in Seq(Nat), NEW q \in Seq(Nat), NEW i \in Nat
  PROVE  /\ Precedes(p, q) => Precedes(Append(p, i), q)
         /\ Leads(p, q) /\ Len(p) < Len(q) /\ i <= q[Len(p) + 1]
              => Leads(Append(p, i), q) \/ Precedes(Append(p, i), q)
         /\ Precedes(Append(p, i), q) =>
              \/ Precedes(p, q)
              \/ Leads(p, q) /\ Len(p) < Len(q) /\ i < q[Len(p) + 1]
<1> DEFINE c == Append(p, i)
<1>1. Len(p) \in Nat /\ Len(q) \in Nat  OBVIOUS
<1>2. /\ c \in Seq(Nat) /\ Len(c) = Len(p) + 1 /\ c[Len(p) + 1] = i
      /\ \A k \in 1..Len(p) : c[k] = p[k]
  BY PathFacts
<1> HIDE DEF c
<1>3. ASSUME Precedes(p, q) PROVE Precedes(c, q)
  <2>1. PICK j \in 1..Len(p) : j <= Len(q) /\ p[j] < q[j] /\ \A k \in 1..(j - 1) : p[k] = q[k]
    BY <1>3 DEF Precedes
  <2>2. j \in 1..Len(c) /\ c[j] < q[j] /\ \A k \in 1..(j - 1) : c[k] = q[k]
    BY <1>1, <1>2, <2>1
  <2>3. QED  BY <2>1, <2>2 DEF Precedes
<1>4. ASSUME Leads(p, q), Len(p) < Len(q), i <= q[Len(p) + 1]
      PROVE  Leads(c, q) \/ Precedes(c, q)
  <2>1. \A k \in 1..Len(p) : c[k] = q[k]  BY <1>2, <1>4 DEF Leads
  <2>2. q[Len(p) + 1] \in Nat /\ Len(p) + 1 <= Len(q)  BY <1>1, <1>4, ElementOfSeq
  <2>3. CASE i = q[Len(p) + 1]
    <3>1. \A k \in 1..Len(c) : c[k] = q[k]
      <4> TAKE k \in 1..Len(c)
      <4>1. k \in 1..Len(p) \/ k = Len(p) + 1  BY <1>1, <1>2
      <4>2. QED  BY <1>2, <2>1, <2>3, <4>1
    <3>2. QED  BY <1>2, <2>2, <3>1 DEF Leads
  <2>4. CASE i < q[Len(p) + 1]
    <3>1. /\ Len(p) + 1 \in 1..Len(c) /\ c[Len(p) + 1] < q[Len(p) + 1]
          /\ \A k \in 1..((Len(p) + 1) - 1) : c[k] = q[k]
      BY <1>1, <1>2, <2>1, <2>4
    <3>2. QED  BY <2>2, <3>1 DEF Precedes
  <2>5. QED  BY <1>4, <2>2, <2>3, <2>4
<1>5. ASSUME Precedes(c, q)
      PROVE  Precedes(p, q) \/ (Leads(p, q) /\ Len(p) < Len(q) /\ i < q[Len(p) + 1])
  <2>1. PICK j \in 1..Len(c) : j <= Len(q) /\ c[j] < q[j] /\ \A k \in 1..(j - 1) : c[k] = q[k]
    BY <1>5 DEF Precedes
  <2>2. CASE j = Len(p) + 1
    <3>1. Len(p) < Len(q) /\ i < q[Len(p) + 1]  BY <1>1, <1>2, <2>1, <2>2
    <3>2. \A k \in 1..Len(p) : p[k] = q[k]  BY <1>1, <1>2, <2>1, <2>2
    <3>3. QED  BY <1>1, <3>1, <3>2 DEF Leads
  <2>3. CASE j \in 1..Len(p)
    <3>1. p[j] < q[j] /\ \A k \in 1..(j - 1) : p[k] = q[k]  BY <1>1, <1>2, <2>1, <2>3, SMTT(30)
    <3>2. QED  BY <2>1, <2>3, <3>1 DEF Precedes
  <2>4. QED  BY <1>1, <1>2, <2>2, <2>3
<1>6. QED  BY <1>3, <1>4, <1>5 DEF c

\* On the way to a call at which the code can be left.
LEMMA WayFacts ==
  ASSUME body \in Bodies, node \in DOMAIN body, Resumable(node), NEW p \in DOMAIN body,
         Leads(p, node), p # node
  PROVE  /\ Len(p) < Len(node) /\ node[Len(p) + 1] \in 1..Kids(p)
         /\ Class(p) \in {"if", "while"} => node[Len(p) + 1] = 2
         /\ Class(p) \in {"op"} \cup CallNode => node[Len(p) + 1] = 1
<1>1. p \in Seq(Nat) /\ Len(p) \in Nat /\ node \in Seq(Nat) /\ Len(node) \in Nat
  BY NodeFacts
<1>2. Len(p) < Len(node) /\ Prefix(node, Len(p)) = p  BY <1>1, LeadsFacts
<1> DEFINE k == Len(p) + 1
<1>3. k \in 1..Len(node) /\ Prefix(node, k - 1) = p  BY <1>1, <1>2
<1> HIDE DEF k
<1>4. node[k] \in 1..Kids(p)  BY <1>3, NodeFacts
<1>5. CASE Class(p) \in {"if", "while"}
  <2>1. Class(p) \notin {"op"} \cup CallNode  BY <1>5 DEF CallNode
  <2>2. node[k] = 2  BY <1>3, <1>5, <2>1 DEF Resumable
  <2>3. QED  BY <1>2, <1>4, <2>1, <2>2 DEF k
<1>6. CASE Class(p) \in {"op"} \cup CallNode
  <2>1. Class(p) \notin {"if", "while"}  BY <1>6 DEF CallNode
  <2>2. node[k] = 1  BY <1>3, <1>6, <2>1 DEF Resumable
  <2>3. QED  BY <1>2, <1>4, <2>1, <2>2 DEF k
<1>7. QED  BY <1>2, <1>4, <1>5, <1>6 DEF k

-----------------------------------------------------------------------------
(* Where a resumed function is.                                            *)

\* Before the node is found nothing runs, and the walk is on the way to the node
\* or, with it, to its receiver.
Searching ==
  /\ ~isReturning /\ \A k \in 1..Len(by) : by[k] = "searches"
  /\ \/ step = "visit" /\ (Leads(at, node) \/ Precedes(at, node) \/ at = Append(node, 1))
     \/ step = "return" /\ (Precedes(at, node) \/ (at = Append(node, 1) /\ val = 1))

\* The arguments of the call are evaluated again; only what is below the node
\* searches.
AtCall ==
  /\ \/ at = node /\ step = "call"
     \/ \E i \in 2..Kids(node) : at = Append(node, i) /\ step \in {"visit", "return"}
  /\ \A k \in 1..Len(by) : by[k] = IF k <= Len(node) THEN "searches" ELSE "runs"

\* After the call skip_to is left in nodes that wait for a child, and in an if or
\* a while this child is the body.
AfterCall ==
  \A k \in 1..Len(by) :
    by[k] = "searches" => k <= Len(at) /\ (Class(Prefix(at, k - 1)) \in {"if", "while"} => at[k] = 2)

Resumption ==
  /\ phase = "compiled" => caughtUp /\ ~astNodeFound /\ \A k \in 1..Len(by) : by[k] = "runs"
  /\ phase # "compiled" => Class(node) = "method"
  /\ phase = "left" => ~caughtUp /\ ~astNodeFound /\ at = node
  /\ phase = "resumed" /\ step # "done" =>
       \/ ~caughtUp /\ ~astNodeFound /\ Searching
       \/ ~caughtUp /\ astNodeFound /\ AtCall
       \/ caughtUp /\ astNodeFound /\ AfterCall
  /\ step = "done" => caughtUp

SkipInv == SkipTypeInv /\ (Supported => Resumption)

\* The search has no effects and ends at the call.
LEMMA SearchStep ==
  ASSUME SkipTypeInv, Class(node) = "method", Resumable(node), ~astNodeFound, Searching, Skip
  PROVE  /\ UNCHANGED context
         /\ (~astNodeFound' /\ Searching') \/ (astNodeFound' /\ AtCall')
<1>0. /\ InterpretationInv /\ body \in Bodies /\ at \in DOMAIN body /\ at \in Seq(Nat)
      /\ node \in DOMAIN body /\ node \in Seq(Nat) /\ by \in Seq(Doing) /\ Len(by) = Len(lhs)
      /\ "searches" \in Doing /\ "runs" \in Doing /\ val \in Int
  BY NodeFacts DEF SkipTypeInv, InterpretationInv, Stack, Values, Doing
<1>1. /\ Kids(node) \in Nat /\ Kids(node) > 0
      /\ \A i \in 1..Kids(node) : Class(Append(node, i)) = "value"
  <2>1. Kids(node) \in Nat /\ HasKids(Class(node), Kids(node))  BY <1>0, NodeFacts
  <2>2. QED  BY <2>1, KidsOf DEF Resumable, CallNode
<1>2. UNCHANGED <<body, node>> /\ step \in {"visit", "return"} /\ (step = "return" => at # <<>>)
  BY SkipFrame
<1>x. ASSUME NEW p, Site(p), Exit(p), by' = Front(by), UNCHANGED context, ~astNodeFound',
             \/ Precedes(p, node)
             \/ p = Append(node, 1) /\ val' = 1
      PROVE  ~astNodeFound' /\ Searching'
  <2>1. Agrees(p) /\ Len(by') = Len(p)  BY <1>x, Popped
  <2>2. \A k \in 1..Len(by') : by'[k] = "searches"
    <3>1. Len(p) \in Nat /\ Len(by) = Len(p) + 1  BY <1>0, <1>x, SiteFacts
    <3>2. QED  BY <2>1, <3>1 DEF Agrees, Searching
  <2>3. QED  BY <1>2, <1>x, <2>2 DEF Searching, Exit, context, Precedes
<1>e. ASSUME NEW p, Site(p), NEW i \in 1..Kids(p), at' = Append(p, i), step' = "visit",
             by' = Append(by, "searches"), UNCHANGED context, ~astNodeFound',
             \/ Leads(Append(p, i), node)
             \/ Precedes(Append(p, i), node)
             \/ Append(p, i) = Append(node, 1)
      PROVE  ~astNodeFound' /\ Searching'
  <2>1. Len(p) \in Nat /\ Len(by) = Len(p) + 1  BY <1>0, <1>e, SiteFacts
  <2>2. /\ Len(by') = Len(p) + 2 /\ by'[Len(p) + 2] = "searches"
        /\ \A k \in 1..(Len(p) + 1) : by'[k] = by[k]
    BY <1>0, <1>e, <2>1, ByFacts
  <2>3. \A k \in 1..Len(by') : by'[k] = "searches"  BY <2>1, <2>2 DEF Searching
  <2>4. QED  BY <1>2, <1>e, <2>3 DEF Searching, context, Leads, Precedes
<1>v. ASSUME step = "visit", at # Append(node, 1)
      PROVE  \/ Precedes(at, node)
             \/ at = node
             \/ /\ at # node /\ Leads(at, node) /\ Len(at) < Len(node)
                /\ node[Len(at) + 1] \in 1..Kids(at)
  <2>1. Leads(at, node) \/ Precedes(at, node)  BY <1>v DEF Searching
  <2>2. QED  BY <1>0, <2>1, WayFacts
<1>r. ASSUME step = "return", at # Append(node, 1)
      PROVE  /\ Parent # node
             /\ Precedes(Parent, node) \/
                  /\ Leads(Parent, node) /\ Len(Parent) < Len(node)
                  /\ node[Len(Parent) + 1] \in 1..Kids(Parent) /\ Index < node[Len(Parent) + 1]
                  /\ Class(Parent) \in {"if", "while"} => node[Len(Parent) + 1] = 2
                  /\ Class(Parent) \notin {"op"} \cup CallNode
  <2>1. Precedes(at, node)  BY <1>r DEF Searching
  <2>2. /\ Parent \in DOMAIN body /\ Parent \in Seq(Nat) /\ at = Append(Parent, Index)
        /\ Index \in 1..Kids(Parent)
    BY <1>0, <1>2, <1>r, ParentFacts
  <2>3. Index \in Nat /\ Index > 0  BY <1>0, <2>2, NodeFacts
  <2>4. \/ Precedes(Parent, node)
        \/ Leads(Parent, node) /\ Len(Parent) < Len(node) /\ Index < node[Len(Parent) + 1]
    BY <1>0, <2>1, <2>2, <2>3, ChildOnTheWay
  <2>5. Parent # node
    <3>1. Len(node) \in Nat /\ ~(Len(node) < Len(node))  BY <1>0
    <3>2. QED  BY <1>0, <2>4, <3>1, PrecedesFacts
  <2>6. CASE Precedes(Parent, node)  BY <2>5, <2>6
  <2>7. CASE Leads(Parent, node) /\ Len(Parent) < Len(node) /\ Index < node[Len(Parent) + 1]
    <3>1. /\ node[Len(Parent) + 1] \in 1..Kids(Parent)
          /\ Class(Parent) \in {"if", "while"} => node[Len(Parent) + 1] = 2
          /\ Class(Parent) \in {"op"} \cup CallNode => node[Len(Parent) + 1] = 1
      BY <1>0, <2>2, <2>5, <2>7, WayFacts
    <3>2. node[Len(Parent) + 1] # 1  BY <2>3, <2>7
    <3>3. QED  BY <2>5, <2>7, <3>1, <3>2
  <2>8. QED  BY <2>4, <2>6, <2>7
<1>a. at = Append(node, 1) => Class(at) = "value" /\ Parent = node /\ Index = 1
  <2>1. Front(Append(node, 1)) = node /\ Last(Append(node, 1)) = 1
    BY <1>0, PathFacts
  <2>2. QED  BY <1>1, <2>1 DEF Parent, Index
<1>w. step = "visit" => Site(at)  BY DEF Site
<1>p. ASSUME step = "return"
      PROVE  /\ Site(Parent) /\ Parent \in Seq(Nat) /\ Index \in 1..Kids(Parent)
             /\ Index \in Nat /\ Kids(Parent) \in Nat /\ HasKids(Class(Parent), Kids(Parent))
             /\ Class(Parent) # "method" => at # Append(node, 1)
  BY <1>0, <1>2, <1>a, <1>p, ReturnSite, SiteFacts DEF Site
<1>3. CASE SkipLeaf
  <2>1. /\ step = "visit" /\ Class(at) \in Leaf /\ Exit(at) /\ by' = Front(by)
        /\ UNCHANGED context /\ ~astNodeFound' /\ (Class(at) = "value" => val' = 1)
    BY <1>3 DEF SkipLeaf, Ascend
  <2>2. Precedes(at, node) \/ (at = Append(node, 1) /\ val' = 1)
    <3>1. Class(node) \notin Leaf  BY DEF Leaf
    <3>2. Kids(at) = 0  BY <1>0, <2>1, NodeFacts, KidsOf
    <3>3. at # Append(node, 1) => Precedes(at, node)  BY <1>v, <2>1, <3>1, <3>2
    <3>4. QED  BY <1>a, <2>1, <3>3
  <2>3. QED  BY <1>w, <1>x, <2>1, <2>2
<1>4. CASE SkipVisit
  <2>1. /\ step = "visit" /\ Class(at) \notin Leaf /\ UNCHANGED context /\ ~astNodeFound'
        /\ IF Kids(at) = 0 THEN Exit(at) /\ by' = Front(by)
           ELSE at' = Append(at, 1) /\ step' = "visit" /\ by' = Append(by, "searches")
    BY <1>4 DEF SkipVisit, Ascend, Descend, Enter
  <2>2. at # Append(node, 1)  BY <1>a, <2>1 DEF Leaf
  <2>3. CASE Kids(at) = 0
    <3>1. Precedes(at, node)  BY <1>1, <1>v, <2>1, <2>2, <2>3
    <3>2. QED  BY <1>w, <1>x, <2>1, <2>3, <3>1
  <2>4. CASE Kids(at) # 0
    <3>1. 1 \in 1..Kids(at)  BY <1>0, <2>4, NodeFacts
    <3>2. \/ Leads(Append(at, 1), node) \/ Precedes(Append(at, 1), node)
          \/ Append(at, 1) = Append(node, 1)
      BY <1>0, <1>v, <2>1, <2>2, ChildOnTheWay
    <3>3. QED  BY <1>w, <1>e, <2>1, <2>4, <3>1, <3>2
  <2>5. QED  BY <2>3, <2>4
<1>5. CASE SkipBlock
  <2>1. /\ step = "return" /\ Class(Parent) = "block" /\ UNCHANGED context /\ ~astNodeFound'
        /\ IF Index = Kids(Parent) THEN Exit(Parent) /\ by' = Front(by)
           ELSE at' = Append(Parent, Index + 1) /\ step' = "visit" /\ by' = Append(by, "searches")
    BY <1>5 DEF SkipBlock, Back, Ascend, Descend, Enter, Searching
  <2>2. at # Append(node, 1)  BY <1>p, <2>1
  <2>3. CASE Index = Kids(Parent)
    <3>1. Precedes(Parent, node)  BY <1>p, <1>r, <2>1, <2>2, <2>3
    <3>2. QED  BY <1>p, <1>x, <2>1, <2>3, <3>1
  <2>4. CASE Index # Kids(Parent)
    <3>1. Index + 1 \in 1..Kids(Parent) /\ Index + 1 \in Nat  BY <1>p, <2>1, <2>4
    <3>2. Leads(Append(Parent, Index + 1), node) \/ Precedes(Append(Parent, Index + 1), node)
      <4>1. CASE Precedes(Parent, node)  BY <1>0, <1>p, <2>1, <3>1, <4>1, ChildOnTheWay
      <4>2. CASE ~Precedes(Parent, node)
        <5>1. /\ Leads(Parent, node) /\ Len(Parent) < Len(node) /\ Index < node[Len(Parent) + 1]
              /\ node[Len(Parent) + 1] \in 1..Kids(Parent)
          BY <1>r, <2>1, <2>2, <4>2
        <5>2. Index + 1 <= node[Len(Parent) + 1]  BY <1>p, <2>1, <5>1
        <5>3. QED  BY <1>0, <1>p, <2>1, <3>1, <5>1, <5>2, ChildOnTheWay
      <4>3. QED  BY <4>1, <4>2
    <3>3. QED  BY <1>p, <1>e, <2>1, <2>4, <3>1, <3>2
  <2>5. QED  BY <2>3, <2>4
<1>6. CASE SkipAssign \/ SkipReturn
  <2>1. /\ step = "return" /\ Class(Parent) \in {"assign", "return"} /\ UNCHANGED context
        /\ Exit(Parent) /\ by' = Front(by) /\ ~astNodeFound'
    BY <1>6 DEF SkipAssign, SkipReturn, Back
  <2>2. at # Append(node, 1)  BY <1>p, <2>1
  <2>3. Kids(Parent) = 1  BY <1>p, <2>1, KidsOf
  <2>4. Precedes(Parent, node)  BY <1>p, <1>r, <2>1, <2>2, <2>3
  <2>5. QED  BY <1>p, <1>x, <2>1, <2>4
<1>7. CASE SkipCondition
  <2>1. /\ step = "return" /\ Class(Parent) \in {"if", "while"} /\ UNCHANGED context
        /\ at' = Append(Parent, 2) /\ step' = "visit" /\ by' = Append(by, "searches")
        /\ ~astNodeFound'
    BY <1>7 DEF SkipCondition, Back, Enter
  <2>2. at # Append(node, 1)  BY <1>p, <2>1
  <2>3. 2 \in 1..Kids(Parent) /\ 2 \in Nat  BY <1>p, <2>1, KidsOf
  <2>4. Leads(Append(Parent, 2), node) \/ Precedes(Append(Parent, 2), node)
    <3>1. CASE Precedes(Parent, node)  BY <1>0, <1>p, <2>1, <2>3, <3>1, ChildOnTheWay
    <3>2. CASE ~Precedes(Parent, node)
      <4>1. Leads(Parent, node) /\ Len(Parent) < Len(node) /\ node[Len(Parent) + 1] = 2
        BY <1>r, <2>1, <2>2, <3>2
      <4>2. 2 <= node[Len(Parent) + 1]  BY <4>1
      <4>3. QED  BY <1>0, <1>p, <2>1, <2>3, <4>1, <4>2, ChildOnTheWay
    <3>3. QED  BY <3>1, <3>2
  <2>5. QED  BY <1>p, <1>e, <2>1, <2>3, <2>4
<1>8. CASE SkipIf \/ SkipWhile
  <2>1. /\ step = "return" /\ Class(Parent) \in {"if", "while"} /\ UNCHANGED context
        /\ Index = 2 /\ Exit(Parent) /\ by' = Front(by) /\ ~astNodeFound'
    BY <1>8 DEF SkipIf, SkipWhile, Back, Ascend
  <2>2. at # Append(node, 1)  BY <1>p, <2>1
  <2>3. Precedes(Parent, node)  BY <1>r, <2>1, <2>2
  <2>4. QED  BY <1>p, <1>x, <2>1, <2>3
<1>9. CASE SkipLeft
  <2>1. /\ step = "return" /\ Class(Parent) = "op" /\ UNCHANGED context
        /\ at' = Append(Parent, 2) /\ step' = "visit" /\ by' = Append(by, "searches")
        /\ ~astNodeFound'
    BY <1>9 DEF SkipLeft, Back, KeepOperand
  <2>2. at # Append(node, 1)  BY <1>p, <2>1
  <2>3. 2 \in 1..Kids(Parent) /\ 2 \in Nat  BY <1>p, <2>1, KidsOf
  <2>4. Precedes(Parent, node)  BY <1>r, <2>1, <2>2
  <2>5. Precedes(Append(Parent, 2), node)  BY <1>0, <1>p, <2>1, <2>3, <2>4, ChildOnTheWay
  <2>6. QED  BY <1>p, <1>e, <2>1, <2>3, <2>5
<1>10. CASE SkipOp
  <2>1. /\ step = "return" /\ Class(Parent) = "op" /\ UNCHANGED context
        /\ Exit(Parent) /\ by' = Front(by) /\ ~astNodeFound'
    BY <1>10 DEF SkipOp, Back
  <2>2. at # Append(node, 1)  BY <1>p, <2>1
  <2>3. Precedes(Parent, node)  BY <1>r, <2>1, <2>2
  <2>4. QED  BY <1>p, <1>x, <2>1, <2>3
<1>11. CASE SkipCall /\ at # Append(node, 1)
  <2>1. step = "return" /\ Class(Parent) \in CallNode  BY <1>11 DEF SkipCall, Back
  <2>2. Parent # node /\ Precedes(Parent, node)  BY <1>11, <1>r, <2>1
  <2>3. UNCHANGED context /\ Exit(Parent) /\ by' = Front(by) /\ ~astNodeFound'
    BY <1>11, <2>2 DEF SkipCall, Ascend
  <2>4. QED  BY <1>p, <1>x, <2>1, <2>2, <2>3
<1>12. CASE SkipCall /\ at = Append(node, 1)
  <2>1. step = "return" /\ Parent = node /\ Index = 1 /\ val = 1
    BY <1>0, <1>12, <1>a, PrecedesFacts, ChildOnTheWay DEF SkipCall, Back, Searching, Leads
  <2>2. /\ astNodeFound' = TRUE /\ Arguments
        /\ by' = Append(Front(by), "runs") \o (IF Len(lhs') > Len(lhs) THEN <<"runs">> ELSE <<>>)
    BY <1>12, <2>1 DEF SkipCall
  <2>3. UNCHANGED context  BY <2>2 DEF Arguments
  <2>4. val # Null  BY <2>1 DEF Null
  <2>5. Site(node) /\ lhs \in Seq(Int) /\ Len(lhs) \in Nat  BY <1>0, <1>p, <2>1, SiteFacts
  <2>6. Len(node) \in Nat /\ Len(by) = Len(node) + 1  BY <1>0, <2>5, SiteFacts
  <2>7. CASE Index < Kids(Parent) /\ Enter(Parent, Index + 1)
    <3>1. 2 \in 2..Kids(node) /\ at' = Append(node, 2) /\ step' = "visit"
      BY <1>1, <2>1, <2>7 DEF Enter
    <3>2. Len(lhs') = Len(lhs) + 1
      <4>1. Null \in Int  BY DEF Null
      <4>2. QED  BY <2>5, <2>7, <4>1, PathFacts DEF Enter
    <3>3. by' = Append(Front(by), "runs") \o <<"runs">>  BY <2>2, <2>5, <3>2
    <3>4. /\ Len(by') = Len(node) + 2 /\ by'[Len(node) + 2] = "runs" /\ by'[Len(node) + 1] = "runs"
          /\ \A k \in 1..Len(node) : by'[k] = by[k]
      BY <1>0, <2>6, <3>3, ByFacts
    <3>5. \A k \in 1..Len(by') : by'[k] = IF k <= Len(node) THEN "searches" ELSE "runs"
      <4> TAKE k \in 1..Len(by')
      <4>1. CASE k \in 1..Len(node)  BY <2>6, <3>4, <4>1 DEF Searching
      <4>2. CASE k \in {Len(node) + 1, Len(node) + 2}  BY <2>6, <3>4, <4>2
      <4>3. QED  BY <2>6, <3>4, <4>1, <4>2
    <3>6. Kids(node)' = Kids(node)  BY <1>2 DEF Kids
    <3>7. AtCall'  BY <1>2, <3>1, <3>5, <3>6 DEF AtCall
    <3>8. QED  BY <2>2, <2>3, <3>7
  <2>8. CASE at' = Parent /\ step' = "call" /\ UNCHANGED lhs
    <3>1. by' = Append(Front(by), "runs") \o <<>>  BY <2>2, <2>5, <2>8
    <3>2. /\ Len(by') = Len(node) + 1 /\ by'[Len(node) + 1] = "runs"
          /\ \A k \in 1..Len(node) : by'[k] = by[k]
      BY <1>0, <2>6, <3>1, ByFacts
    <3>3. \A k \in 1..Len(by') : by'[k] = IF k <= Len(node) THEN "searches" ELSE "runs"
      <4> TAKE k \in 1..Len(by')
      <4>1. CASE k \in 1..Len(node)  BY <2>6, <3>2, <4>1 DEF Searching
      <4>2. CASE k = Len(node) + 1  BY <2>6, <3>2, <4>2
      <4>3. QED  BY <2>6, <3>2, <4>1, <4>2
    <3>4. AtCall'  BY <1>2, <2>1, <2>8, <3>3 DEF AtCall
    <3>5. QED  BY <2>2, <2>3, <3>4
  <2>9. QED  BY <1>p, <2>1, <2>2, <2>4, <2>7, <2>8, ArgumentsCases
<1>13. QED
  BY <1>3, <1>4, <1>5, <1>6, <1>7, <1>8, <1>9, <1>10, <1>11, <1>12 DEF Skip

\* The top of the stack is on the path.
LEMMA SiteLeads ==
  ASSUME InterpretationInv, NEW p, Site(p)
  PROVE  at \in Seq(Nat) /\ Leads(p, at)
<1>1. body \in Bodies /\ at \in DOMAIN body /\ at \in Seq(Nat) /\ Len(at) \in Nat
  BY NodeFacts DEF InterpretationInv, Stack
<1>2. CASE p = at  BY <1>1, <1>2 DEF Leads
<1>3. CASE p = Parent /\ at # <<>>
  <2>1. Len(Parent) = Len(at) - 1 /\ \A k \in 1..Len(Parent) : Parent[k] = at[k]
    BY <1>1, <1>3, ParentFacts
  <2>2. QED  BY <1>1, <1>3, <2>1 DEF Leads
<1>4. QED  BY <1>1, <1>2, <1>3 DEF Site

LEMMA LeadsPrefix ==
  ASSUME NEW p \in Seq(Nat), NEW q \in Seq(Nat), Leads(p, q), NEW k \in 1..Len(p)
  PROVE  Prefix(p, k - 1) = Prefix(q, k - 1) /\ p[k] = q[k] /\ k <= Len(q)
<1>1. Len(p) \in Nat /\ Len(q) \in Nat /\ Len(p) <= Len(q)  BY DEF Leads
<1>2. k - 1 \in Nat /\ k - 1 <= Len(p) /\ k - 1 <= Len(q) /\ k <= Len(q)  BY <1>1
<1>3. \A j \in 1..(k - 1) : p[j] = q[j]  BY <1>1 DEF Leads
<1>4. QED  BY <1>2, <1>3, SamePrefix DEF Leads

LEMMA AfterCallKept ==
  ASSUME SkipTypeInv, AfterCall, NEW p, Site(p), Agrees(p), body' = body,
         at' \in Seq(Nat), Leads(p, at'),
         \A k \in (Len(p) + 1)..Len(by') :
           by'[k] = "searches" =>
             k <= Len(at') /\ (Class(Prefix(at', k - 1)) \in {"if", "while"} => at'[k] = 2)
  PROVE  AfterCall'
<1>1. p \in Seq(Nat) /\ Len(p) \in Nat /\ Len(by) = Len(p) + 1 /\ InterpretationInv
  BY SiteFacts DEF SkipTypeInv
<1>2. at \in Seq(Nat) /\ Leads(p, at)  BY <1>1, SiteLeads
<1>3. Len(by') \in Nat  BY DEF Agrees
<1>4. SUFFICES ASSUME NEW k \in 1..Len(by'), by'[k] = "searches"
               PROVE  k <= Len(at') /\ (Class(Prefix(at', k - 1)) \in {"if", "while"} => at'[k] = 2)
  BY DEF AfterCall, Class
<1>5. CASE k \in 1..Len(p)
  <2>1. k \in 1..Len(by) /\ by[k] = "searches"  BY <1>1, <1>4, <1>5 DEF Agrees
  <2>2. Class(Prefix(at, k - 1)) \in {"if", "while"} => at[k] = 2  BY <2>1 DEF AfterCall
  <2>3. /\ Prefix(p, k - 1) = Prefix(at, k - 1) /\ p[k] = at[k]
        /\ Prefix(p, k - 1) = Prefix(at', k - 1) /\ p[k] = at'[k] /\ k <= Len(at')
    BY <1>1, <1>2, <1>5, LeadsPrefix
  <2>4. QED  BY <2>2, <2>3
<1>6. CASE k \in (Len(p) + 1)..Len(by')  BY <1>4, <1>6
<1>7. QED  BY <1>1, <1>3, <1>5, <1>6

LEMMA LeadsToChild ==
  ASSUME NEW p \in Seq(Nat), NEW i \in Nat
  PROVE  /\ Append(p, i) \in Seq(Nat) /\ Leads(p, Append(p, i)) /\ Leads(p, p)
         /\ Len(Append(p, i)) = Len(p) + 1 /\ Append(p, i)[Len(p) + 1] = i
         /\ Prefix(Append(p, i), Len(p)) = p
<1>1. /\ Append(p, i) \in Seq(Nat) /\ Len(Append(p, i)) = Len(p) + 1 /\ Append(p, i)[Len(p) + 1] = i
      /\ \A k \in 1..Len(p) : Append(p, i)[k] = p[k]
  BY PathFacts
<1>2. Len(p) \in Nat  OBVIOUS
<1>3. Leads(p, Append(p, i)) /\ Leads(p, p)  BY <1>1, <1>2 DEF Leads
<1>4. QED  BY <1>1, <1>3, LeadsFacts

\* What runs after the call leaves skip_to in the same nodes.
LEMMA AfterCallRun ==
  ASSUME SkipTypeInv, AfterCall, Execute, Last(by) = "runs", SameFunctions
  PROVE  AfterCall'
<1>1. InterpretationInv /\ body' = body  BY ExecuteFrame DEF SkipTypeInv
<1>2. PICK p : Moves(p)  BY <1>1, ExecuteMoves
<1>3. /\ by' \in Seq(Doing) /\ Len(by') = Len(lhs')
      /\ \A k \in 1..Len(p) : by'[k] = by[k]
      /\ \A k \in (Len(p) + 1)..Len(by') : by'[k] = "runs"
  BY <1>2, RunKeepsFunctions
<1>4. Site(p) /\ p \in Seq(Nat) /\ Kids(p) \in Nat  BY <1>1, <1>2, SiteFacts DEF Moves
<1>5. at' \in Seq(Nat) /\ Leads(p, at')
  <2>1. CASE at' = p  BY <1>4, <2>1, LeadsToChild
  <2>2. CASE \E i \in 1..Kids(p) : at' = Append(p, i)
    <3>1. PICK i \in 1..Kids(p) : at' = Append(p, i)  BY <2>2
    <3>2. i \in Nat  BY <1>4
    <3>3. QED  BY <1>4, <3>1, <3>2, LeadsToChild
  <2>3. CASE at' = at  BY <1>1, <1>4, <2>3, SiteLeads
  <2>4. QED  BY <1>2, <2>1, <2>2, <2>3 DEF Moves, ToChild, ToReturn, ToCall, ToDead
<1>6. Agrees(p)  BY <1>3 DEF Agrees
<1>7. QED  BY <1>1, <1>3, <1>4, <1>5, <1>6, AfterCallKept

\* What is left of skip_to after the call does what interpret would do.
LEMMA AfterCallSkip ==
  ASSUME SkipTypeInv, AfterCall, astNodeFound, Skip
  PROVE  Execute /\ AfterCall' /\ astNodeFound'
<1>0. /\ InterpretationInv /\ body' = body /\ "runs" \in Doing /\ Null \in Int
      /\ Last(by) = "searches" /\ step \in {"visit", "return"} /\ (step = "return" => at # <<>>)
  BY SkipFrame DEF SkipTypeInv, Doing, Null
<1>1. step = "return" /\ at # <<>>
  <2>1. SUFFICES ASSUME step = "visit" PROVE FALSE  BY <1>0
  <2>2. Site(at)  BY <2>1 DEF Site
  <2>3. Len(at) \in Nat /\ Len(by) = Len(at) + 1 /\ by \in Seq(Doing)
    BY <1>0, <2>2, SiteFacts DEF SkipTypeInv
  <2>4. by[Len(at) + 1] = "searches" /\ Len(at) + 1 \in 1..Len(by)
    BY <1>0, <2>3, ByFacts
  <2>5. QED  BY <2>3, <2>4 DEF AfterCall
<1>2. /\ Site(Parent) /\ Parent \in Seq(Nat) /\ Len(Parent) \in Nat /\ lhs \in Seq(Int)
      /\ Kids(Parent) \in Nat /\ Index \in 1..Kids(Parent) /\ Index \in Nat
      /\ HasKids(Class(Parent), Kids(Parent))
  BY <1>0, <1>1, SiteFacts, ReturnSite DEF Site
<1>3. Class(Parent) \in {"if", "while"} => Index = 2
  <2>1. Len(at) \in Nat /\ Len(Parent) = Len(at) - 1 /\ Index = at[Len(at)] /\ at # <<>>
    BY <1>0, <1>1, ParentFacts, NodeFacts DEF InterpretationInv, Stack
  <2>2. at \in Seq(Nat) /\ Parent = Prefix(at, Len(at) - 1)
    BY <1>0, <2>1, NodeFacts, FrontIsPrefix DEF InterpretationInv, Stack, Parent
  <2>3. Len(by) = Len(Parent) + 1 /\ by \in Seq(Doing)
    BY <1>0, <1>2, SiteFacts DEF SkipTypeInv
  <2>4. by[Len(at)] = "searches" /\ Len(at) \in 1..Len(by)
    BY <1>0, <1>2, <2>1, <2>3, ByFacts
  <2>5. QED  BY <2>1, <2>2, <2>4 DEF AfterCall
<1>x. ASSUME Exit(Parent), by' = Front(by)
      PROVE  AfterCall'
  <2>1. Agrees(Parent) /\ Len(by') = Len(Parent)  BY <1>2, <1>x, Popped
  <2>2. at' \in Seq(Nat) /\ Leads(Parent, at')
    BY <1>2, <1>x, LeadsToChild DEF Exit
  <2>3. QED  BY <1>0, <1>2, <2>1, <2>2, AfterCallKept
<1>e. ASSUME NEW i \in Nat, at' = Append(Parent, i), Len(lhs') = Len(lhs) + 1,
             \/ by' = Append(by, "runs") /\ Class(Parent) \notin {"if", "while"}
             \/ by' = Append(Front(by), "runs") \o <<"runs">>
      PROVE  AfterCall'
  <2>1. /\ Agrees(Parent) /\ Len(by') = Len(Parent) + 2 /\ by'[Len(Parent) + 2] = "runs"
    BY <1>0, <1>2, <1>e, Pushed
  <2>2. by'[Len(Parent) + 1] = "searches" => Class(Parent) \notin {"if", "while"}
    <3>1. CASE by' = Append(by, "runs") /\ Class(Parent) \notin {"if", "while"}  BY <3>1
    <3>2. CASE by' = Append(Front(by), "runs") \o <<"runs">>
      <4>1. Len(by) = Len(Parent) + 1 /\ by \in Seq(Doing)
        BY <1>0, <1>2, SiteFacts DEF SkipTypeInv
      <4>2. by'[Len(Parent) + 1] = "runs"  BY <1>0, <1>2, <3>2, <4>1, ByFacts
      <4>3. QED  BY <4>2
    <3>3. QED  BY <1>e, <3>1, <3>2
  <2>3. /\ at' \in Seq(Nat) /\ Leads(Parent, at') /\ Len(at') = Len(Parent) + 1
        /\ Prefix(at', Len(Parent)) = Parent
    BY <1>2, <1>e, LeadsToChild
  <2>4. \A k \in (Len(Parent) + 1)..Len(by') :
          by'[k] = "searches" =>
            k <= Len(at') /\ (Class(Prefix(at', k - 1)) \in {"if", "while"} => at'[k] = 2)
    <3> SUFFICES ASSUME NEW k \in (Len(Parent) + 1)..Len(by'), by'[k] = "searches"
                 PROVE  k <= Len(at') /\ Class(Prefix(at', k - 1)) \notin {"if", "while"}
      OBVIOUS
    <3>1. Len(Parent) \in Nat  BY <1>2
    <3>2. k \in {Len(Parent) + 1, Len(Parent) + 2}  BY <2>1, <3>1
    <3>3. k = Len(Parent) + 1 /\ k - 1 = Len(Parent)  BY <2>1, <3>1, <3>2
    <3>4. QED  BY <2>2, <2>3, <3>3
  <2>5. QED  BY <1>0, <1>2, <2>1, <2>3, <2>4, AfterCallKept
<1>4. ASSUME NEW i, Enter(Parent, i) PROVE Len(lhs') = Len(lhs) + 1
  BY <1>0, <1>2, <1>4, PathFacts DEF Enter
<1>5. astNodeFound'  BY FoundStays
<1>6. ~SkipLeaf /\ ~SkipVisit /\ ~SkipCondition
  <2>1. ~SkipLeaf /\ ~SkipVisit  BY <1>1 DEF SkipLeaf, SkipVisit
  <2>2. ASSUME SkipCondition PROVE FALSE
    <3>1. Class(Parent) \in {"if", "while"} /\ Index = 1  BY <2>2 DEF SkipCondition, Back
    <3>2. QED  BY <1>3, <3>1
  <2>3. QED  BY <2>1, <2>2
<1>7. CASE SkipBlock
  <2>1. Class(Parent) = "block"  BY <1>7 DEF SkipBlock, Back
  <2>2. InterpretBlock
    BY <1>0, <1>7 DEF SkipBlock, InterpretBlock, Ascend, Descend
  <2>3. AfterCall'
    <3>1. CASE Exit(Parent) /\ by' = Front(by)  BY <1>x, <3>1
    <3>2. CASE Enter(Parent, Index + 1) /\ by' = Append(by, "runs")
      BY <1>2, <1>4, <1>e, <2>1, <3>2 DEF Enter
    <3>3. QED  BY <1>7, <3>1, <3>2 DEF SkipBlock, Ascend, Descend
  <2>4. QED  BY <1>5, <2>2, <2>3 DEF Execute
<1>8. CASE SkipAssign \/ SkipReturn \/ SkipOp
  <2>1. Assign \/ Return \/ PerformOp  BY <1>8 DEF SkipAssign, SkipReturn, SkipOp
  <2>2. Exit(Parent) /\ by' = Front(by)
    BY <1>8, <2>1 DEF SkipAssign, SkipReturn, SkipOp, Assign, Return, PerformOp
  <2>3. QED  BY <1>5, <1>x, <2>1, <2>2 DEF Execute
<1>9. CASE SkipIf
  <2>1. InterpretIf /\ Exit(Parent) /\ by' = Front(by)
    BY <1>0, <1>9 DEF SkipIf, InterpretIf, Ascend
  <2>2. QED  BY <1>5, <1>x, <2>1 DEF Execute
<1>10. CASE SkipWhile
  <2>1. InterpretWhile
    BY <1>0, <1>10 DEF SkipWhile, InterpretWhile, Ascend
  <2>2. AfterCall'
    <3>1. CASE Exit(Parent) /\ by' = Front(by)  BY <1>x, <3>1
    <3>2. CASE Enter(Parent, 1) /\ by' = Append(Front(by), "runs") \o <<"runs">>
      BY <1>4, <1>e, <3>2 DEF Enter
    <3>3. QED  BY <1>10, <3>1, <3>2 DEF SkipWhile, Ascend
  <2>3. QED  BY <1>5, <2>1, <2>2 DEF Execute
<1>11. CASE SkipLeft
  <2>1. EvaluateLeft /\ by' = Append(by, "runs") /\ Class(Parent) = "op"
    BY <1>11 DEF SkipLeft, EvaluateLeft, Back
  <2>2. at' = Append(Parent, 2) /\ lhs' = Append([lhs EXCEPT ![Len(lhs)] = val], Null)
    BY <2>1 DEF EvaluateLeft, KeepOperand
  <2>3. Len(lhs') = Len(lhs) + 1
    <3>1. val \in Int /\ Len(lhs) \in 1..Len(lhs)
      BY <1>0, <1>2, SiteFacts DEF InterpretationInv, Values
    <3>2. [lhs EXCEPT ![Len(lhs)] = val] \in Seq(Int) /\ Len([lhs EXCEPT ![Len(lhs)] = val]) = Len(lhs)
      BY <1>2, <3>1, ExceptSeq
    <3>3. QED  BY <1>0, <2>2, <3>2, PathFacts
  <2>4. AfterCall'  BY <1>e, <2>1, <2>2, <2>3
  <2>5. QED  BY <1>5, <2>1, <2>4 DEF Execute
<1>12. CASE SkipCall
  <2>1. /\ Arguments
        /\ by' = Append(Front(by), "runs") \o (IF Len(lhs') > Len(lhs) THEN <<"runs">> ELSE <<>>)
    BY <1>12 DEF SkipCall
  <2>2. CASE Enter(Parent, Index + 1)
    <3>1. Len(lhs') = Len(lhs) + 1  BY <1>4, <2>2
    <3>2. by' = Append(Front(by), "runs") \o <<"runs">>
      <4>1. Len(lhs') > Len(lhs)  BY <1>2, <3>1
      <4>2. QED  BY <2>1, <4>1
    <3>3. AfterCall'  BY <1>2, <1>e, <2>2, <3>1, <3>2 DEF Enter
    <3>4. QED  BY <1>5, <2>1, <3>3 DEF Execute
  <2>3. CASE lhs' = lhs /\ at' \in {at, Parent}
    <3>1. by' = Append(Front(by), "runs") \o <<>>  BY <1>2, <2>1, <2>3
    <3>2. Agrees(Parent) /\ Len(by') = Len(Parent) + 1 /\ by'[Len(Parent) + 1] = "runs"
      BY <1>2, <2>3, <3>1, Replaced
    <3>3. \A k \in (Len(Parent) + 1)..Len(by') : by'[k] = "runs"  BY <1>2, <3>2
    <3>4. at' \in Seq(Nat) /\ Leads(Parent, at')
      BY <1>0, <1>2, <2>3, SiteLeads, LeadsToChild
    <3>5. AfterCall'  BY <1>0, <1>2, <3>2, <3>3, <3>4, AfterCallKept
    <3>6. QED  BY <1>5, <2>1, <3>5 DEF Execute
  <2>4. QED  BY <1>2, <2>1, <2>2, <2>3, ArgumentsCases
<1>13. QED  BY <1>6, <1>7, <1>8, <1>9, <1>10, <1>11, <1>12 DEF Skip

LEMMA ResumableFacts ==
  ASSUME NEW p, Resumable(p), NEW k \in 1..Len(p)
  PROVE  /\ Class(Prefix(p, k - 1)) \in {"if", "while"} => p[k] = 2
         /\ Class(Prefix(p, k - 1)) = "op" => p[k] = 1
<1> DEFINE class == Class(Prefix(p, k - 1))
<1>1. CASE class \in {"if", "while"}
  <2>1. class \notin {"op"} \cup CallNode  BY <1>1 DEF CallNode
  <2>2. QED  BY <1>1, <2>1 DEF Resumable
<1>2. CASE class = "op"
  <2>1. class \notin {"if", "while"} /\ class \in {"op"} \cup CallNode  BY <1>2
  <2>2. QED  BY <1>2, <2>1 DEF Resumable
<1>3. QED  BY <1>1, <1>2

\* The arguments are variables and literals; then the call is made.
LEMMA AtCallStep ==
  ASSUME SkipTypeInv, Class(node) = "method", Resumable(node), AtCall, Run
  PROVE  \/ UNCHANGED context /\ caughtUp' = caughtUp /\ AtCall'
         \/ Invoke /\ at = node /\ caughtUp' = TRUE /\ AfterCall'
<1>0. /\ InterpretationInv /\ body \in Bodies /\ at \in DOMAIN body /\ at \in Seq(Nat)
      /\ node \in DOMAIN body /\ node \in Seq(Nat) /\ Len(node) \in Nat
      /\ by \in Seq(Doing) /\ Len(by) = Len(lhs) /\ caughtUp \in BOOLEAN /\ Kids(node) \in Nat
  BY NodeFacts DEF SkipTypeInv, InterpretationInv, Stack
<1>n. node \in Seq(Nat) /\ Len(node) \in Nat  BY <1>0
<1>1. /\ Execute /\ Last(by) = "runs" /\ SameFunctions
      /\ caughtUp' = (caughtUp \/ (step = "call" /\ at = node))
      /\ UNCHANGED <<body, node>>
  BY ExecuteFrame DEF Run
<1>f. ASSUME NEW p, Moves(p), Leads(node, p),
             \/ at' = node /\ step' = "call"
             \/ \E i \in 2..Kids(node) : at' = Append(node, i) /\ step' \in {"visit", "return"}
      PROVE  AtCall'
  <2>1. /\ by' \in Seq(Doing)
        /\ \A k \in 1..Len(p) : by'[k] = by[k]
        /\ \A k \in (Len(p) + 1)..Len(by') : by'[k] = "runs"
    BY <1>1, <1>f, RunKeepsFunctions
  <2>2. Len(p) \in Nat /\ Len(by) = Len(p) + 1 /\ Len(by') \in Nat
    BY <1>0, <1>f, <2>1, SiteFacts DEF Moves
  <2>3. Len(node) <= Len(p)  BY <1>f DEF Leads
  <2>4. \A k \in 1..Len(by') : by'[k] = IF k <= Len(node) THEN "searches" ELSE "runs"
    <3> TAKE k \in 1..Len(by')
    <3>1. CASE k \in 1..Len(p)
      <4>1. k \in 1..Len(by) /\ by'[k] = by[k]  BY <2>1, <2>2, <3>1
      <4>2. QED  BY <4>1 DEF AtCall
    <3>2. CASE k \in (Len(p) + 1)..Len(by')  BY <1>0, <2>1, <2>2, <2>3, <3>2
    <3>3. QED  BY <2>2, <3>1, <3>2
  <2>5. QED  BY <1>1, <1>f, <2>4 DEF AtCall, Kids
<1>2. CASE at = node /\ step = "call"
  <2>1. Invoke
    BY <1>1, <1>2 DEF Execute, EvaluateLeaf, Visit, InterpretBlock, Assign, Return, InterpretIf,
      InterpretWhile, EvaluateLeft, PerformOp, Arguments, Back
  <2>2. Site(node) /\ Exit(node)  BY <1>2, <2>1 DEF Site, Invoke
  <2>3. Moves(node)  BY <1>0, <2>2, ExitMoves
  <2>4. by' \in Seq(Doing) /\ Len(by') = Len(lhs')  BY <1>1, <2>3, RunKeepsFunctions
  <2>5. Len(lhs') = Len(node)
    <3>1. lhs \in Seq(Int) /\ Len(lhs) = Len(node) + 1  BY <1>0, <2>2, SiteFacts
    <3>2. lhs # <<>>  BY <1>0, <3>1, EmptySeq
    <3>3. Len(Front(lhs)) = Len(lhs) - 1  BY <3>1, <3>2, PathSplit
    <3>4. QED  BY <1>n, <2>2, <3>1, <3>3 DEF Exit
  <2>6. AfterCall'
    BY <1>1, <2>2, <2>4, <2>5, ResumableFacts DEF AfterCall, Exit, Class
  <2>7. QED  BY <1>0, <1>1, <1>2, <2>1, <2>6
<1>3. ASSUME NEW i \in 2..Kids(node), at = Append(node, i), step = "visit"
      PROVE  UNCHANGED context /\ caughtUp' = caughtUp /\ AtCall'
  <2>1. i \in Nat /\ i \in 1..Kids(node) /\ Class(at) = "value"
    BY <1>0, <1>3 DEF Resumable
  <2>2. EvaluateLeaf
    BY <1>1, <1>3, <2>1 DEF Execute, Visit, InterpretBlock, Assign, Return, InterpretIf,
      InterpretWhile, EvaluateLeft, PerformOp, Arguments, Invoke, Back, Leaf
  <2>3. Site(at) /\ Exit(at) /\ UNCHANGED context  BY <1>3, <2>2 DEF Site, EvaluateLeaf
  <2>4. Moves(at)  BY <1>0, <2>3, ExitMoves
  <2>5. Leads(node, at)  BY <1>0, <1>3, <2>1, LeadsToChild
  <2>6. AtCall'  BY <1>3, <1>f, <2>3, <2>4, <2>5 DEF Exit
  <2>7. QED  BY <1>0, <1>1, <1>3, <2>3, <2>6
<1>4. ASSUME NEW i \in 2..Kids(node), at = Append(node, i), step = "return"
      PROVE  UNCHANGED context /\ caughtUp' = caughtUp /\ AtCall'
  <2>1. i \in Nat /\ Parent = node /\ Index = i /\ at # <<>> /\ Index # 1
    <3>1. i \in Nat  BY <1>0
    <3>2. Append(node, i) # <<>> /\ Front(Append(node, i)) = node /\ Last(Append(node, i)) = i
      BY <1>n, <3>1, PathFacts
    <3>3. QED  BY <1>4, <3>1, <3>2 DEF Parent, Index
  <2>2. Arguments
    BY <1>1, <1>4, <2>1 DEF Execute, EvaluateLeaf, Visit, InterpretBlock, Assign, Return,
      InterpretIf, InterpretWhile, EvaluateLeft, PerformOp, Invoke, Back
  <2>3. Site(node) /\ UNCHANGED context  BY <1>4, <2>1, <2>2 DEF Site, Arguments
  <2>4. Leads(node, node)  BY <1>0, <2>1, LeadsToChild
  <2>5. CASE Index < Kids(Parent) /\ Enter(Parent, Index + 1)
    <3>1. i + 1 \in 1..Kids(node) /\ i + 1 \in 2..Kids(node) /\ Enter(node, i + 1)
      BY <1>0, <2>1, <2>5
    <3>2. Moves(node)  BY <1>0, <2>3, <3>1, EnterMoves
    <3>3. AtCall'  BY <1>f, <2>4, <3>1, <3>2 DEF Enter
    <3>4. QED  BY <1>0, <1>1, <1>4, <2>3, <3>3
  <2>6. CASE at' = Parent /\ step' = "call" /\ UNCHANGED lhs
    <3>1. Moves(node)  BY <2>1, <2>3, <2>6 DEF Moves, ToCall
    <3>2. AtCall'  BY <1>f, <2>1, <2>4, <2>6, <3>1
    <3>3. QED  BY <1>0, <1>1, <1>4, <2>3, <3>2
  <2>7. QED  BY <1>0, <1>4, <2>1, <2>2, <2>5, <2>6, ReturnSite, ArgumentsCases
<1>5. QED  BY <1>2, <1>3, <1>4 DEF AtCall

\* A function runs at the node.
LEMMA RunsAtCall ==
  ASSUME SkipTypeInv, AtCall
  PROVE  Last(by) = "runs"
<1>0. InterpretationInv /\ node \in Seq(Nat) /\ Len(node) \in Nat /\ "runs" \in Doing
  BY NodeFacts DEF SkipTypeInv, InterpretationInv, Doing
<1>1. \E p : Site(p) /\ p \in Seq(Nat) /\ Len(p) \in Nat /\ Len(node) <= Len(p)
  <2>1. CASE at = node /\ step = "call"
    <3>1. Site(node)  BY <2>1 DEF Site
    <3>2. QED  BY <1>0, <3>1
  <2>2. ASSUME NEW i \in 2..Kids(node), at = Append(node, i), step \in {"visit", "return"}
        PROVE  \E p : Site(p) /\ p \in Seq(Nat) /\ Len(p) \in Nat /\ Len(node) <= Len(p)
    <3>0. i \in Nat
      <4>1. Kids(node) \in Nat  BY NodeFacts DEF SkipTypeInv, InterpretationInv
      <4>2. QED  BY <4>1
    <3>1. /\ Append(node, i) \in Seq(Nat) /\ Append(node, i) # <<>>
          /\ Front(Append(node, i)) = node /\ Len(Append(node, i)) = Len(node) + 1
      BY <1>0, <3>0, PathFacts
    <3>2. CASE step = "visit"
      <4>1. Site(at)  BY <3>2 DEF Site
      <4>2. at \in Seq(Nat) /\ Len(at) \in Nat /\ Len(node) <= Len(at)  BY <1>0, <2>2, <3>1
      <4>3. QED  BY <4>1, <4>2
    <3>3. CASE step = "return"
      <4>1. Site(node)  BY <2>2, <3>1, <3>3 DEF Site, Parent
      <4>2. QED  BY <1>0, <4>1
    <3>4. QED  BY <2>2, <3>2, <3>3
  <2>3. QED  BY <2>1, <2>2 DEF AtCall
<1>2. PICK p : Site(p) /\ p \in Seq(Nat) /\ Len(p) \in Nat /\ Len(node) <= Len(p)  BY <1>1
<1>3. Len(by) = Len(p) + 1 /\ by \in Seq(Doing)  BY <1>0, <1>2, SiteFacts DEF SkipTypeInv
<1>4. Last(by) = by[Len(p) + 1] /\ Len(p) + 1 \in 1..Len(by)  BY <1>0, <1>2, <1>3, ByFacts
<1>5. QED  BY <1>0, <1>2, <1>4 DEF AtCall

\* No function runs during the search.
LEMMA SearchesOnly ==
  ASSUME SkipTypeInv, Searching, NEW p, Site(p)
  PROVE  Last(by) = "searches"
<1>1. Len(p) \in Nat /\ Len(by) = Len(p) + 1 /\ by \in Seq(Doing)
  BY SiteFacts DEF SkipTypeInv
<1>2. "runs" \in Doing  BY DEF Doing
<1>3. Last(by) = by[Len(p) + 1] /\ Len(p) + 1 \in 1..Len(by)  BY <1>1, <1>2, ByFacts
<1>4. QED  BY <1>3 DEF Searching

\* The end of the body is not on the way to the node.
LEMMA NotAtTheEnd ==
  ASSUME SkipTypeInv, step = "return", at = <<>>
  PROVE  ~Searching /\ ~AtCall
<1>1. node \in Seq(Nat) /\ Kids(node) \in Nat
  BY NodeFacts DEF SkipTypeInv, InterpretationInv
<1>2. ~Precedes(<<>>, node) /\ \A i \in Nat : Append(node, i) # <<>>
  BY <1>1, PrecedesFacts, PathFacts
<1>3. ~Searching  BY <1>2 DEF Searching
<1>4. ~AtCall
  <2>1. \A i \in 2..Kids(node) : i \in Nat  BY <1>1
  <2>2. QED  BY <1>2, <2>1 DEF AtCall
<1>5. QED  BY <1>3, <1>4

\* Every step of a supported function, and how it is seen.
LEMMA ResumptionStep ==
  ASSUME SkipTypeInv, Supported, Resumption, [SkipNext]_skipVars
  PROVE  /\ Resumption'
         /\ \/ caughtUp /\ caughtUp' /\ (Execute \/ Finish)
            \/ ~caughtUp /\ ~caughtUp' /\ UNCHANGED <<body, node, context>>
            \/ caughtUp /\ GuardFails
            \/ ~caughtUp /\ caughtUp' /\ AtCall /\ at = node /\ Invoke
            \/ UNCHANGED skipVars
<1>0. InterpretationInv /\ node \in DOMAIN body /\ caughtUp \in BOOLEAN /\ astNodeFound \in BOOLEAN
  BY DEF SkipTypeInv
<1>1. phase # "compiled" => Class(node) = "method" /\ Resumable(node)
  BY <1>0 DEF Resumption, Supported
<1>2. CASE Run
  <2>1. /\ Execute /\ Last(by) = "runs" /\ SameFunctions /\ body' = body
        /\ step \in {"visit", "call", "return"}
        /\ phase \in {"compiled", "resumed"} /\ UNCHANGED <<astNodeFound, node, phase>>
        /\ caughtUp => caughtUp' = TRUE
    BY <1>2, ExecuteFrame DEF Run
  <2>2. PICK p : Moves(p)  BY <1>0, <2>1, ExecuteMoves
  <2>3. CASE phase = "compiled"
    <3>1. /\ by' \in Seq(Doing) /\ \A k \in 1..Len(p) : by'[k] = by[k]
          /\ \A k \in (Len(p) + 1)..Len(by') : by'[k] = "runs"
      BY <2>1, <2>2, RunKeepsFunctions
    <3>2. Len(p) \in Nat /\ Len(by) = Len(p) + 1 /\ Len(by') \in Nat
      BY <1>0, <2>2, <3>1, SiteFacts DEF Moves, SkipTypeInv
    <3>3. \A k \in 1..Len(by') : by'[k] = "runs"
      <4> TAKE k \in 1..Len(by')
      <4>1. CASE k \in 1..Len(p)
        <5>1. k \in 1..Len(by) /\ by'[k] = by[k]  BY <3>1, <3>2, <4>1
        <5>2. QED  BY <2>3, <5>1 DEF Resumption
      <4>2. CASE k \in (Len(p) + 1)..Len(by')  BY <3>1, <4>2
      <4>3. QED  BY <3>2, <4>1, <4>2
    <3>4. caughtUp /\ caughtUp' = TRUE /\ ~astNodeFound  BY <2>1, <2>3 DEF Resumption
    <3>5. QED  BY <2>1, <2>3, <3>3, <3>4 DEF Resumption
  <2>4. CASE phase = "resumed" /\ ~caughtUp
    <3>1. ~Searching
      <4>1. Site(p)  BY <2>2 DEF Moves
      <4>2. QED  BY <2>1, <4>1, SearchesOnly
    <3>2. astNodeFound /\ AtCall  BY <2>1, <2>4, <3>1 DEF Resumption
    <3>3. CASE UNCHANGED context /\ caughtUp' = caughtUp /\ AtCall'
      <4>1. step' # "done"  BY <3>3 DEF AtCall
      <4>2. Class(node)' = "method"  BY <1>1, <2>1, <2>4 DEF Class
      <4>3. QED  BY <2>1, <2>4, <3>2, <3>3, <4>1, <4>2 DEF Resumption
    <3>4. CASE Invoke /\ at = node /\ caughtUp' = TRUE /\ AfterCall'
      <4>1. Class(node)' = "method"  BY <1>1, <2>1, <2>4 DEF Class
      <4>2. QED  BY <2>1, <2>4, <3>2, <3>4, <4>1 DEF Resumption
    <3>5. QED  BY <1>1, <1>2, <2>4, <3>2, <3>3, <3>4, AtCallStep
  <2>5. CASE phase = "resumed" /\ caughtUp
    <3>1. astNodeFound /\ AfterCall  BY <2>1, <2>5 DEF Resumption
    <3>2. AfterCall'  BY <2>1, <3>1, AfterCallRun
    <3>3. Class(node)' = "method"  BY <1>1, <2>1, <2>5 DEF Class
    <3>4. QED  BY <2>1, <2>5, <3>1, <3>2, <3>3 DEF Resumption
  <2>6. QED  BY <2>1, <2>3, <2>4, <2>5
<1>3. CASE GuardFails
  <2>1. caughtUp /\ ~astNodeFound  BY <1>3 DEF GuardFails, Resumption
  <2>2. /\ phase' = "left" /\ node' = at /\ at' = at /\ caughtUp' = FALSE /\ astNodeFound' = astNodeFound
        /\ step' = "call" /\ body' = body /\ Class(at) = "method"
    BY <1>3 DEF GuardFails, vars
  <2>3. Class(node)' = "method"  BY <2>2 DEF Class
  <2>4. Resumption'  BY <2>1, <2>2, <2>3 DEF Resumption
  <2>5. QED  BY <1>3, <2>1, <2>4
<1>4. CASE ResumeInInterpreter
  <2>1. /\ ~caughtUp /\ ~astNodeFound /\ ~isReturning /\ Class(node) = "method"
    BY <1>4 DEF ResumeInInterpreter, Resumption, SkipTypeInv, InterpretationInv, Unwinding
  <2>2. /\ phase' = "resumed" /\ at' = <<>> /\ step' = "visit" /\ by' = <<"searches">>
        /\ UNCHANGED <<body, context, astNodeFound, node, caughtUp>>
    BY <1>4 DEF ResumeInInterpreter
  <2>3. node' \in Seq(Nat) /\ Leads(<<>>, node')
    <3>1. node \in Seq(Nat)  BY <1>0, NodeFacts DEF InterpretationInv
    <3>2. QED  BY <2>2, <3>1, PrecedesFacts
  <2>4. Searching'
    <3>1. \A k \in 1..Len(by') : by'[k] = "searches"  BY <2>2
    <3>2. QED  BY <2>1, <2>2, <2>3, <3>1 DEF Searching, Leads, context
  <2>5. Class(node)' = "method"  BY <2>1, <2>2 DEF Class
  <2>6. Resumption'  BY <2>1, <2>2, <2>4, <2>5 DEF Resumption
  <2>7. QED  BY <2>1, <2>2, <2>6
<1>5. CASE Skip
  <2>1. /\ phase = "resumed" /\ Last(by) = "searches" /\ step \in {"visit", "return"}
        /\ UNCHANGED <<body, node, phase, caughtUp>>
    BY <1>5, SkipFrame
  <2>2. Class(node)' = "method"  BY <1>1, <2>1 DEF Class
  <2>3. CASE ~caughtUp
    <3>1. ~astNodeFound /\ Searching
      <4>1. ~AtCall  BY <2>1, RunsAtCall
      <4>2. QED  BY <2>1, <2>3, <4>1 DEF Resumption
    <3>2. /\ UNCHANGED context
          /\ (~astNodeFound' /\ Searching') \/ (astNodeFound' /\ AtCall')
      BY <1>1, <1>5, <2>1, <3>1, SearchStep
    <3>3. step' # "done"  BY <3>2 DEF Searching, AtCall
    <3>4. QED  BY <2>1, <2>2, <2>3, <3>2, <3>3 DEF Resumption
  <2>4. CASE caughtUp
    <3>1. astNodeFound /\ AfterCall  BY <2>1, <2>4 DEF Resumption
    <3>2. Execute /\ AfterCall' /\ astNodeFound'  BY <1>5, <3>1, AfterCallSkip
    <3>3. QED  BY <2>1, <2>2, <2>4, <3>2 DEF Resumption
  <2>5. QED  BY <2>3, <2>4
<1>6. CASE EndOfBody
  <2>1. /\ step = "return" /\ at = <<>> /\ phase \in {"compiled", "resumed"} /\ Finish
        /\ step' = "done" /\ astNodeFound' = FALSE /\ UNCHANGED <<body, by, node, phase, caughtUp>>
    BY <1>6 DEF EndOfBody, Finish
  <2>2. caughtUp
    BY <2>1, NotAtTheEnd DEF Resumption
  <2>3. Class(node)' = Class(node)  BY <2>1 DEF Class
  <2>4. QED  BY <2>1, <2>2, <2>3 DEF Resumption
<1>7. CASE UNCHANGED skipVars
  <2>1. Resumption'
    BY <1>7 DEF Resumption, skipVars, walk, vars, context, Searching, AtCall, AfterCall, Class, Kids,
      Leads, Precedes
  <2>2. QED  BY <1>7, <2>1
<1>8. QED  BY <1>2, <1>3, <1>4, <1>5, <1>6, <1>7 DEF SkipNext

-----------------------------------------------------------------------------
(* What is seen of a resumed function.                                     *)

\* A function that can be left at a node keeps no operands there.
LEMMA NoOperands ==
  ASSUME SkipTypeInv, step = "call", Resumable(at)
  PROVE  lhs = [k \in 1..(Len(at) + 1) |-> Null]
<1>1. Site(at) /\ InterpretationInv  BY DEF Site, SkipTypeInv
<1>2. /\ Len(at) \in Nat /\ lhs \in Seq(Int) /\ Len(lhs) = Len(at) + 1
      /\ lhs[Len(at) + 1] = Null /\ Own(at)
  BY <1>1, SiteFacts
<1>3. \A k \in 1..Len(at) : lhs[k] = Null
  <2> SUFFICES ASSUME NEW k \in 1..Len(at), lhs[k] # Null PROVE FALSE  OBVIOUS
  <2>1. at[k] = 2 /\ Class(Prefix(at, k - 1)) = "op"  BY <1>2 DEF Own
  <2>2. at[k] = 1  BY <2>1, ResumableFacts
  <2>3. QED  BY <2>1, <2>2
<1>4. lhs \in [1..(Len(at) + 1) -> Int]  BY <1>2, LenProperties
<1>5. \A k \in 1..(Len(at) + 1) : lhs[k] = Null
  <2> TAKE k \in 1..(Len(at) + 1)
  <2>1. k \in 1..Len(at) \/ k = Len(at) + 1  BY <1>2
  <2>2. QED  BY <1>2, <1>3, <2>1
<1>6. QED  BY <1>4, <1>5

\* A step that is seen as it is.
LEMMA SeenExecute ==
  ASSUME Execute,
         SeenAt = at, SeenStep = step, SeenLhs = lhs, SeenVal = val,
         SeenAt' = at', SeenStep' = step', SeenLhs' = lhs', SeenVal' = val'
  PROVE  Reference!Execute
<1> USE DEF Front, Last, Reference!Front, Reference!Last
<1>1. CASE EvaluateLeaf
  BY <1>1 DEF EvaluateLeaf, Exit, Class, context, Reference!Execute, Reference!EvaluateLeaf,
    Reference!Exit, Reference!Class, Reference!context, Leaf, Reference!Leaf
<1>2. CASE Visit
  BY <1>2 DEF Visit, Enter, Exit, Class, Kids, context, Null, Leaf, Reference!Execute,
    Reference!Visit, Reference!Enter, Reference!Exit, Reference!Class, Reference!Kids,
    Reference!context, Reference!Null, Reference!Leaf
<1>3. CASE InterpretBlock
  BY <1>3 DEF InterpretBlock, Back, Parent, Index, Enter, Exit, Class, Kids, context, Null,
    Reference!Execute, Reference!InterpretBlock, Reference!Back, Reference!Parent, Reference!Index,
    Reference!Enter, Reference!Exit, Reference!Class, Reference!Kids, Reference!context, Reference!Null
<1>4. CASE Assign
  BY <1>4 DEF Assign, Back, Parent, Exit, Class, Reference!Execute, Reference!Assign,
    Reference!Back, Reference!Parent, Reference!Exit, Reference!Class
<1>5. CASE Return
  BY <1>5 DEF Return, Back, Parent, Exit, Class, Reference!Execute, Reference!Return,
    Reference!Back, Reference!Parent, Reference!Exit, Reference!Class
<1>6. CASE InterpretIf
  BY <1>6 DEF InterpretIf, Back, Parent, Index, IsTrue, Enter, Exit, Class, context, Null,
    Reference!Execute, Reference!InterpretIf, Reference!Back, Reference!Parent, Reference!Index,
    Reference!IsTrue, Reference!Enter, Reference!Exit, Reference!Class, Reference!context,
    Reference!Null
<1>7. CASE InterpretWhile
  BY <1>7 DEF InterpretWhile, Back, Parent, Index, IsTrue, Enter, Exit, Class, context, Null,
    Reference!Execute, Reference!InterpretWhile, Reference!Back, Reference!Parent, Reference!Index,
    Reference!IsTrue, Reference!Enter, Reference!Exit, Reference!Class, Reference!context,
    Reference!Null
<1>8. CASE EvaluateLeft
  BY <1>8 DEF EvaluateLeft, KeepOperand, Back, Parent, Index, Class, context, Null,
    Reference!Execute, Reference!EvaluateLeft, Reference!KeepOperand, Reference!Back,
    Reference!Parent, Reference!Index, Reference!Class, Reference!context, Reference!Null
<1>9. CASE PerformOp
  BY <1>9 DEF PerformOp, Back, Parent, Index, Exit, Class, Reference!Execute, Reference!PerformOp,
    Reference!Back, Reference!Parent, Reference!Index, Reference!Exit, Reference!Class
<1>10. CASE Arguments
  BY <1>10 DEF Arguments, Back, Parent, Index, Enter, Class, Kids, context, Null, CallNode,
    Reference!Execute, Reference!Arguments, Reference!Back, Reference!Parent, Reference!Index,
    Reference!Enter, Reference!Class, Reference!Kids, Reference!context, Reference!Null,
    Reference!CallNode
<1>11. CASE Invoke
  BY <1>11 DEF Invoke, Exit, Class, Reference!Execute, Reference!Invoke, Reference!Exit,
    Reference!Class
<1>12. QED
  BY <1>1, <1>2, <1>3, <1>4, <1>5, <1>6, <1>7, <1>8, <1>9, <1>10, <1>11 DEF Execute

LEMMA SeenNext ==
  ASSUME SkipTypeInv, Supported, Resumption, [SkipNext]_skipVars
  PROVE  [Reference!Next]_(Reference!vars)
<1>1. \/ caughtUp /\ caughtUp' /\ (Execute \/ Finish)
      \/ ~caughtUp /\ ~caughtUp' /\ UNCHANGED <<body, node, context>>
      \/ caughtUp /\ GuardFails
      \/ ~caughtUp /\ caughtUp' /\ AtCall /\ at = node /\ Invoke
      \/ UNCHANGED skipVars
  BY ResumptionStep
<1> USE DEF SeenAt, SeenStep, SeenLhs, SeenVal
<1>2. CASE caughtUp /\ caughtUp' /\ Execute
  <2>1. /\ SeenAt = at /\ SeenStep = step /\ SeenLhs = lhs /\ SeenVal = val
        /\ SeenAt' = at' /\ SeenStep' = step' /\ SeenLhs' = lhs' /\ SeenVal' = val'
    BY <1>2
  <2>2. Reference!Execute  BY <1>2, <2>1, SeenExecute
  <2>3. QED  BY <2>2 DEF Reference!Next
<1>3. CASE caughtUp /\ caughtUp' /\ Finish
  BY <1>3 DEF Finish, Reference!Next, Reference!Finish
<1>4. CASE ~caughtUp /\ ~caughtUp' /\ UNCHANGED <<body, node, context>>
  BY <1>4 DEF Reference!vars, Reference!context, context
<1>5. CASE caughtUp /\ GuardFails
  <2>1. /\ node' = at /\ step = "call" /\ Class(at) = "method" /\ ~caughtUp'
        /\ UNCHANGED <<body, context>>
    BY <1>5 DEF GuardFails, vars
  <2>2. Resumable(at) /\ val = Null
    BY <2>1 DEF Supported, SkipTypeInv, InterpretationInv, Stack, Values
  <2>3. lhs = [k \in 1..(Len(at) + 1) |-> Null]  BY <2>1, <2>2, NoOperands
  <2>4. /\ SeenAt' = SeenAt /\ SeenStep' = SeenStep /\ SeenVal' = SeenVal /\ SeenLhs' = SeenLhs
    BY <1>5, <2>1, <2>2, <2>3 DEF Null
  <2> HIDE DEF SeenAt, SeenStep, SeenLhs, SeenVal
  <2>5. QED  BY <2>1, <2>4 DEF Reference!vars, Reference!context, context
<1>6. CASE ~caughtUp /\ caughtUp' /\ AtCall /\ at = node /\ Invoke
  <2>1. step = "call" /\ val = Null /\ Resumable(at)
    <3>1. step = "call"  BY <1>6 DEF Invoke
    <3>2. phase # "compiled"  BY <1>6 DEF Resumption
    <3>3. QED
      BY <1>6, <3>1, <3>2 DEF Resumption, Supported, SkipTypeInv, InterpretationInv, Stack, Values
  <2>2. lhs = [k \in 1..(Len(at) + 1) |-> Null]  BY <2>1, NoOperands
  <2>3. /\ SeenAt = at /\ SeenStep = step /\ SeenLhs = lhs /\ SeenVal = val
        /\ SeenAt' = at' /\ SeenStep' = step' /\ SeenLhs' = lhs' /\ SeenVal' = val'
    BY <1>6, <2>1, <2>2
  <2>4. Reference!Execute  BY <1>6, <2>3, SeenExecute DEF Execute
  <2>5. QED  BY <2>4 DEF Reference!Next
<1>7. CASE UNCHANGED skipVars
  BY <1>7 DEF skipVars, walk, vars, context, Reference!vars, Reference!context
<1>8. QED  BY <1>1, <1>2, <1>3, <1>4, <1>5, <1>6, <1>7

LEMMA SeenInit ==
  SkipInit => Reference!Init
BY DEF SkipInit, Init, Reference!Init, Null, Reference!Null, SeenAt, SeenStep, SeenLhs, SeenVal

LEMMA BodyStays ==
  ASSUME [SkipNext]_skipVars
  PROVE  body' = body /\ (Supported' => Supported)
<1>1. body' = body
  BY ExecuteFrame, SkipFrame DEF SkipNext, Run, GuardFails, ResumeInInterpreter, EndOfBody, Finish,
    skipVars, vars
<1>2. Supported' => Supported  BY <1>1 DEF Supported, Resumable, Class, Kids
<1>3. QED  BY <1>1, <1>2

-----------------------------------------------------------------------------
(* Theorems.                                                               *)

\* The stack of a function that is executed, left and resumed stays in order; one
\* in which the code can be left only where it can be resumed searches until it is
\* back at the call, and afterwards does what interpret would do.
THEOREM SkipToInvariant ==
  SkipSpec => []SkipInv
<1>1. SkipInit => SkipInv
  <2> SUFFICES ASSUME SkipInit PROVE SkipInv  OBVIOUS
  <2>1. SkipTypeInv  BY SkipTypeInvInit
  <2>2. Resumption
    <3>1. by = <<"runs">> /\ phase = "compiled" /\ caughtUp = TRUE /\ astNodeFound = FALSE
          /\ step = "visit"
      BY DEF SkipInit, Init
    <3>2. \A k \in 1..Len(by) : by[k] = "runs"  BY <3>1
    <3>3. QED  BY <3>1, <3>2 DEF Resumption
  <2>3. QED  BY <2>1, <2>2 DEF SkipInv
<1>2. SkipInv /\ [SkipNext]_skipVars => SkipInv'
  <2> SUFFICES ASSUME SkipInv, [SkipNext]_skipVars PROVE SkipInv'  OBVIOUS
  <2>1. SkipTypeInv'  BY SkipTypeInvNext DEF SkipInv
  <2>2. ASSUME Supported' PROVE Resumption'
    BY <2>2, BodyStays, ResumptionStep DEF SkipInv
  <2>3. QED  BY <2>1, <2>2 DEF SkipInv
<1>3. QED  BY <1>1, <1>2, PTL DEF SkipSpec

\* Leaving a function at a method call and resuming it in the interpreter is
\* invisible, for every body in which the code can be left only where it can be
\* resumed and for whatever its calls return.
THEOREM ResumptionIsInvisible ==
  SkipSpec => ResumptionMatchesInterpretation
<1>1. SkipInit => Reference!Init  BY SeenInit
<1>2. SkipInv /\ [SkipNext]_skipVars => [Supported => Reference!Next]_(Reference!vars)
  <2> SUFFICES ASSUME SkipInv, [SkipNext]_skipVars, Supported
               PROVE  [Reference!Next]_(Reference!vars)
    OBVIOUS
  <2>1. QED  BY SeenNext DEF SkipInv
<1>3. QED  BY <1>1, <1>2, SkipToInvariant, PTL DEF SkipSpec, ResumptionMatchesInterpretation

\* A function all of whose method calls can be resumed implements Interpretation.
THEOREM ResumptionRefines ==
  SkipSpec /\ []Supported => Reference!Spec
<1>1. SkipInit => Reference!Init  BY SeenInit
<1>2. SkipInv /\ Supported /\ [SkipNext]_skipVars => [Reference!Next]_(Reference!vars)
  BY SeenNext DEF SkipInv
<1>3. QED  BY <1>1, <1>2, SkipToInvariant, PTL DEF SkipSpec, Reference!Spec

\* The search meets the call at which the code was left.
THEOREM NodeFound ==
  SkipSpec => []NodeIsFound
<1>1. SkipInv => NodeIsFound  BY DEF SkipInv, Resumption, NodeIsFound
<1>2. QED  BY <1>1, SkipToInvariant, PTL

-----------------------------------------------------------------------------
(* A side exit from beginning to end.                                      *)

\* The whole transfer is a run of SkipTo and, at the same time, of Stackmap.
THEOREM SideExitImplementsParts ==
  SideExitSpec => SkipSpec /\ StackmapSpec
<1>1. SideExitInit => SkipInit /\ StackmapInit  BY DEF SideExitInit
<1>2. [SideExitNext]_allVars => [SkipNext]_skipVars /\ [StackmapNext]_transferVars
  BY DEF SideExitNext, allVars, SkipNext, StackmapNext, RunCode, Leave, ResumeAtNode, Interpret,
    ReturnToCode
<1>3. QED  BY <1>1, <1>2, PTL DEF SideExitSpec, SkipSpec, StackmapSpec

\* Whatever registers LLVM chose and wherever in the tree the function was left,
\* the interpreter resumes with the variables of the code, at its node, without
\* visible effect; the node is found, and the result arrives.
THEOREM SideExitIsInvisible ==
  SideExitSpec => /\ ResumptionMatchesInterpretation /\ []NodeIsFound
                  /\ []SymbolsRebuilt /\ []RecompilesItself /\ []ResultIsDelivered
BY SideExitImplementsParts, ResumptionIsInvisible, NodeFound, SideExitKeepsSymbols,
   SideExitRecompilesItself, SideExitDeliversResult, PTL

\* Control comes back to the code only when the interpreter has come to the end of
\* the function and, in it, has made the call that the code was left at.
ReturnsAtTheEnd ==
  stage = "returned" /\ Len(section.records) = 1 =>
    phase = "resumed" /\ step = "done" /\ (Supported => caughtUp)

\* ReturnsAtTheEnd is an invariant of the whole side exit: reconstructInterpreterContext
\* gives control back only after resumeInInterpreter.
THEOREM SideExitReturnsAtTheEnd ==
  SideExitSpec => []ReturnsAtTheEnd
<1> DEFINE Inv == stage = "returned" /\ Len(section.records) = 1 => phase = "resumed" /\ step = "done"
<1>1. SideExitInit => Inv  BY DEF SideExitInit, StackmapInit
<1>2. Inv /\ TransferInv /\ [SideExitNext]_allVars => Inv'
  <2> SUFFICES ASSUME Inv, TransferInv, [SideExitNext]_allVars,
                      stage' = "returned", Len(section'.records) = 1
               PROVE  phase' = "resumed" /\ step' = "done"
    OBVIOUS
  <2>1. ASSUME stage = "returned", section' = section, UNCHANGED transferVars,
               Run \/ Skip \/ EndOfBody \/ GuardFails
        PROVE  FALSE
    <3>1. step = "done"  BY <2>1
    <3>2. step \in {"visit", "call", "return"}
      BY <2>1, ExecuteFrame, SkipFrame DEF Run, EndOfBody, Finish, GuardFails
    <3>3. QED  BY <3>1, <3>2
  <2>2. CASE RunCode \/ Interpret
    BY <2>1, <2>2 DEF RunCode, Interpret, transferVars
  <2>3. CASE Leave  BY <2>3 DEF Leave, Rebuild
  <2>4. CASE ResumeAtNode  BY <2>4 DEF ResumeAtNode, transferVars
  <2>5. CASE ReturnToCode
    <3>1. stage # "refused" /\ section' = section
      BY <2>5 DEF ReturnToCode, TrampolineReturn, TransferInv
    <3>2. QED  BY <2>5, <3>1 DEF ReturnToCode, skipVars, vars, walk
  <2>6. CASE Compile /\ UNCHANGED skipVars  BY <2>6 DEF Compile
  <2>7. CASE UNCHANGED allVars
    BY <2>7 DEF allVars, transferVars, skipVars, vars, walk
  <2>8. QED  BY <2>2, <2>3, <2>4, <2>5, <2>6, <2>7 DEF SideExitNext
<1>3. Inv /\ SkipInv => ReturnsAtTheEnd
  BY DEF SkipInv, Resumption, ReturnsAtTheEnd
<1>4. SideExitSpec => []TransferInv /\ []SkipInv
  BY SideExitImplementsParts, TransferInvariant, SkipToInvariant, PTL
<1>5. QED  BY <1>1, <1>2, <1>3, <1>4, PTL DEF SideExitSpec
=============================================================================
