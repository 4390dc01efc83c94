------------------------------ MODULE Stackmap ------------------------------
(***************************************************************************)
(* How a side exit carries a function's variables from compiled code into  *)
(* the interpreter.  The code generator lists the addresses of the         *)
(* variables as operands of a patchpoint; LLVM keeps them in registers of  *)
(* its choice and writes a stackmap that says which; the trampoline pushes *)
(* all registers; reconstructInterpreterContext finds the record, reads    *)
(* the saved registers and builds a symbol table; the result travels back  *)
(* in the register that the record names.                                  *)
(*                                                                         *)
(* One function with one or more method calls is compiled, left at a call  *)
(* and returned from.                                                      *)
(***************************************************************************)
EXTENDS Naturals, Sequences

CONSTANTS
  Functions,      \* [kind, params, decls, bound, ivars, calls]; the names are
                  \* sequences, in the order in which all loops over them run
  Allocatable,    \* the registers LLVM puts values into
  Placements(_),  \* the ways it assigns registers to the result and so many
                  \* operands, the result first
  Previous,       \* the registers an earlier side exit may have returned in
  MaxConstants    \* bound: large constants in a stackmap

\* The order in which the trampoline pushes the registers ...
PushOrder == <<"rax", "rdx", "rcx", "rbx", "rsi", "rdi", "rbp", "rsp",
               "r8", "r9", "r10", "r11", "r12", "r13", "r14", "r15">>

\* ... and DWARF's numbering, from 0, which stackmaps use.
Dwarf == <<"rax", "rdx", "rcx", "rbx", "rsi", "rdi", "rbp", "rsp",
           "r8", "r9", "r10", "r11", "r12", "r13", "r14", "r15">>

Registers == {Dwarf[i] : i \in 1..16}

\* The trampoline's own frame occupies these two before it saves them.
FrameRegisters == {"rbp", "rsp"}

Kinds == {"method", "closure"}

VARIABLES
  function,         \* the function
  section,          \* its stackmap: [functions, constants, records]
  registers,        \* the registers of compiled code
  return_register,  \* static of the trampoline
  rebuilt,          \* the interpreter's view: [node, self, cmd, symtab, isMethod]
  stage             \* "source", "running", "rebuilt", "refused", "returned", "dead"

transferVars == <<function, section, registers, return_register, rebuilt, stage>>

-----------------------------------------------------------------------------
(* Addresses, and what compiled code knows.                                *)

NoAddress == <<"null", 0>>
Node == <<"call", 0>>     \* the Call node
Result == <<"result", 0>> \* what the interpreter returns
Other == <<"other", 0>>   \* anything else

SetOf(names) == {names[i] : i \in DOMAIN names}

\* A later assignment to the symbol table replaces an earlier one.
Latest(names, n) ==
  CHOOSE i \in DOMAIN names : names[i] = n /\ \A j \in DOMAIN names : names[j] = n => j <= i

\* The variables of the object the code runs on: they enter the table last.
Outer(f) == IF f.kind = "method" THEN f.ivars ELSE f.bound

\* c.symbols of compileMethod and compileClosure: the address of a variable.
symbols(f, n) ==
  CASE n \in SetOf(Outer(f)) -> <<"outer", Latest(Outer(f), n)>>
    [] n \notin SetOf(Outer(f)) /\ n \in SetOf(f.decls) -> <<"local", Latest(f.decls, n)>>
    [] n \notin SetOf(Outer(f)) \cup SetOf(f.decls) /\ n \in SetOf(f.params) -> <<"param", Latest(f.params, n)>>
    [] n \notin SetOf(Outer(f)) \cup SetOf(f.decls) \cup SetOf(f.params) ->
         IF n = "self" THEN <<"self", 1>>
         ELSE IF n = "cmd" /\ f.kind = "method" THEN <<"cmd", 1>> ELSE NoAddress

\* Mutant: local variables are written before parameters.
WrittenLocalsFirst(f) == f.decls \o f.params \o f.bound

\* Names in the order in which Call::compileExpression passes their addresses.
Written(f) == f.params \o f.decls \o f.bound

\* The operands of the patchpoint.
Operands(f) ==
  [k \in 1..(3 + Len(Written(f))) |->
     IF k = 1 THEN Node
     ELSE IF k = 2 THEN symbols(f, "self")
     ELSE IF k = 3 THEN symbols(f, "cmd")
     ELSE symbols(f, Written(f)[k - 3])]

\* No address is known for a name: a null operand, on which LLVM dies.
NullOperand(f) == \E n \in SetOf(Written(f)) : symbols(f, n) = NoAddress

\* LLVM keeps operands in different registers (the result may share one), and
\* neither in the registers of the stack frame.
ASSUME StackmapAssumption ==
  /\ \A f \in Functions :
       /\ f.kind \in Kinds
       /\ f.params \in Seq(STRING) /\ f.decls \in Seq(STRING)
       /\ f.bound \in Seq(STRING) /\ f.ivars \in Seq(STRING)
       /\ f.kind = "closure" => f.ivars = <<>>
       /\ f.calls \in Nat \ {0}
       /\ \A p \in Placements(Len(Operands(f))) :
            /\ p \in [1..(1 + Len(Operands(f))) -> Allocatable]
            /\ \A i, j \in 2..(1 + Len(Operands(f))) : p[i] = p[j] => i = j
  /\ Allocatable \subseteq Registers \ FrameRegisters
  /\ Previous \subseteq 0..15
  /\ MaxConstants \in Nat

-----------------------------------------------------------------------------
(* The stackmap, as LLVM lays it out and as StackMapParser and             *)
(* SMRecordParser read it.                                                 *)

FirstRecord(s) == 16 + 24 * s.functions + 8 * s.constants

\* What stands at an offset: a count or a location (the number of a register).
Word(s, off) ==
  LET locs == s.records[1]
      at == off - FirstRecord(s)
  IN CASE off = 4 -> s.functions
       [] off = 8 -> s.constants
       [] off = 12 -> Len(s.records)
       [] off >= FirstRecord(s) /\ at = 14 -> Len(locs)
       [] OTHER -> IF \E i \in DOMAIN locs : at = 16 + 12 * (i - 1)
                   THEN locs[CHOOSE i \in DOMAIN locs : at = 16 + 12 * (i - 1)] ELSE 0

\* StackMapParser::StackMapParser.
records_base(s) == 16 + Word(s, 4) * 24 + Word(s, 8) * 8

\* Mutant: the word before the number of records is read.
getNumRecordsShort(s) == Word(s, 8)

getNumRecords(s) == Word(s, 12)

\* The register that the n-th call of next_value looks at.
Location(s, n) == Word(s, records_base(s) + 16 + 12 * (n - 1))

\* The trampoline's copy of a register: *(registers_start - regnum).
saved(regnum) ==
  IF PushOrder[regnum + 1] \in FrameRegisters THEN Other ELSE registers[PushOrder[regnum + 1]]

\* The n-th call of next_value; -1 when there are no more locations.
next_value(s, n) ==
  IF n > Word(s, records_base(s) + 14) THEN Other ELSE saved(Location(s, n))

-----------------------------------------------------------------------------
Empty == [functions |-> 0, constants |-> 0, records |-> <<>>]
Nothing == [node |-> NoAddress, self |-> NoAddress, cmd |-> NoAddress, symtab |-> <<>>, isMethod |-> FALSE]

StackmapInit ==
  /\ function \in Functions
  /\ section = Empty
  /\ registers = [r \in Registers |-> Other]
  /\ return_register \in Previous
  /\ rebuilt = Nothing
  /\ stage = "source"

Number(r) == CHOOSE i \in 0..15 : Dwarf[i + 1] = r

\* What the registers hold at the patchpoint.
Loaded(f, p) ==
  [r \in Registers |->
     IF \E k \in DOMAIN Operands(f) : p[k + 1] = r
     THEN Operands(f)[CHOOSE k \in DOMAIN Operands(f) : p[k + 1] = r] ELSE Other]

\* LLVM writes one record per method call; what the records of other calls say
\* does not matter.
Recorded(f, p, constants) ==
  [functions |-> 1, constants |-> constants,
   records |-> [c \in 1..f.calls |-> [i \in 1..(1 + Len(Operands(f))) |-> Number(p[i])]]]

\* The function is compiled.
Compile ==
  /\ stage = "source"
  /\ \/ /\ NullOperand(function) \/ Placements(Len(Operands(function))) = {}
        /\ stage' = "dead"
        /\ UNCHANGED <<section, registers>>
     \/ /\ ~NullOperand(function)
        /\ \E p \in Placements(Len(Operands(function))), constants \in 0..MaxConstants :
             /\ section' = Recorded(function, p, constants)
             /\ registers' = Loaded(function, p)
        /\ stage' = "running"
  /\ UNCHANGED <<function, return_register, rebuilt>>

\* Names in the order in which reconstructInterpreterContext reads addresses.
Read(f) == f.params \o f.decls \o f.bound

\* The last of the values that were read for a name; instance variables are
\* found from the receiver and come first.
SymbolTable(s, f, isMethod) ==
  LET names == {"self", "cmd"} \cup SetOf(Read(f)) \cup (IF isMethod THEN SetOf(f.ivars) ELSE {})
  IN [n \in names |->
        CASE n \in SetOf(Read(f)) -> next_value(s, 4 + Latest(Read(f), n))
          [] n \notin SetOf(Read(f)) /\ isMethod /\ n \in SetOf(f.ivars) -> <<"outer", Latest(f.ivars, n)>>
          [] OTHER -> next_value(s, IF n = "self" THEN 3 ELSE 4)]

\* Mutant: a function with a receiver is taken for a method.
IsMethodBySelf(s) == next_value(s, 3) # NoAddress

\* A function with a self and a selector is a method.
IsMethod(s) == next_value(s, 3) # NoAddress /\ next_value(s, 4) # NoAddress

\* A guard fails; reconstructInterpreterContext, up to pushSymbols.  Several
\* records are not supported: nothing is read and null goes back.
Rebuild ==
  /\ stage = "running"
  /\ \/ /\ getNumRecords(section) # 1
        /\ stage' = "refused"
        /\ UNCHANGED <<return_register, rebuilt>>
     \/ /\ getNumRecords(section) = 1
        /\ return_register' = Location(section, 1)
        /\ rebuilt' = [node |-> next_value(section, 2),
                       self |-> next_value(section, 3), cmd |-> next_value(section, 4),
                       symtab |-> SymbolTable(section, function, IsMethod(section)),
                       isMethod |-> IsMethod(section)]
        /\ stage' = "rebuilt"
  /\ UNCHANGED <<function, section, registers>>

\* Mutant: the registers are popped after the result has been written.
RestoredLast(target, value) ==
  [r \in Registers |-> IF r \in {"rax", "rcx"} THEN Other ELSE registers[r]]

\* The registers at the end of the trampoline: they come back but for its
\* scratch registers rax and rcx, and then the result is written.
Restored(target, value) ==
  [r \in Registers |->
     CASE r = target /\ r \notin FrameRegisters -> value
       [] r # target /\ r \in {"rax", "rcx"} -> Other
       [] OTHER -> registers[r]]

TrampolineReturn ==
  /\ stage \in {"rebuilt", "refused"}
  /\ registers' = Restored(Dwarf[return_register + 1],
                           IF stage = "rebuilt" THEN Result ELSE NoAddress)
  /\ stage' = "returned"
  /\ UNCHANGED <<function, section, return_register, rebuilt>>

StackmapNext == Compile \/ Rebuild \/ TrampolineReturn

StackmapSpec == StackmapInit /\ [][StackmapNext]_transferVars

-----------------------------------------------------------------------------
(* Recompilation.                                                          *)

\* What the variable at an address holds.
Holds(f, address) ==
  CASE address = <<"self", 1>> -> IF f.kind = "method" THEN "receiver" ELSE "closure"
    [] address = <<"cmd", 1>> -> "selector"
    [] OTHER -> "value"

\* What the new code is attached to when the resumed function is to be compiled
\* again: the method that the selector finds from the receiver, or the closure.
Recompiled ==
  LET self == Holds(function, rebuilt.self)
      cmd == Holds(function, rebuilt.cmd)
  IN CASE rebuilt.isMethod /\ self = "receiver" /\ cmd = "selector" -> "method"
       [] ~rebuilt.isMethod /\ self = "closure" -> "closure"
       [] OTHER -> "memory that is no code pointer"

-----------------------------------------------------------------------------
(* Properties.                                                             *)

\* After a side exit every variable of the function is where compiled code had
\* it, parameters, locals, bound and instance variables that hide each other
\* included, and the interpreter resumes at the call that was left, whichever
\* registers LLVM chose.
SymbolsRebuilt ==
  stage = "rebuilt" =>
    /\ rebuilt.node = Node
    /\ \A n \in SetOf(Written(function)) \cup SetOf(Outer(function)) \cup {"self", "cmd"} :
         rebuilt.symtab[n] = symbols(function, n)

\* No variable of the function is called self or cmd.
NoReservedNames(f) ==
  {"self", "cmd"} \cap (SetOf(f.params) \cup SetOf(f.decls) \cup SetOf(Outer(f))) = {}

\* Code that a resumption compiles again is attached to the function that was
\* left: a method to the slot its receiver and selector find, a closure to its
\* closure object.  (Not when variables are called self or cmd: see the
\* README's deviations.)
RecompilesItself ==
  stage = "rebuilt" /\ NoReservedNames(function) => Recompiled = function.kind

\* Compiled code finds the interpreter's result in the register that its
\* stackmap names, whatever the static held before.
ResultIsDelivered ==
  stage = "returned" /\ Len(section.records) = 1 =>
    registers[Dwarf[section.records[1][1] + 1]] = Result
=============================================================================
