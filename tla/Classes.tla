------------------------------- MODULE Classes ------------------------------
(***************************************************************************)
(* The class table, the objects' layouts and the code of methods.  A class *)
(* declaration builds a Class structure and registers it under its name; a *)
(* name may be declared again, and the old structure lives on in its       *)
(* objects and subclasses.  A method is compiled for the layout of the     *)
(* receiver that made it hot, and the code serves all later receivers.     *)
(*                                                                         *)
(* A method stands for its one access to a variable; heat is               *)
(* nondeterministic (module Tiering).                                      *)
(***************************************************************************)
EXTENDS Naturals, Sequences, FiniteSets

CONSTANTS
  ClassDecls,     \* ClassDecl nodes
  Names,          \* class names
  NameOf,         \* the name each declares
  SuperOf,        \* the name of its superclass, or None
  IVarsOf,        \* the instance variables it adds, in order
  Uses,           \* its methods: the variable each one uses, by selector
  None,           \* no name
  MaxClasses,     \* bound: Class structures
  MaxObjects      \* bound: objects

Selectors == UNION {DOMAIN Uses[d] : d \in ClassDecls}

ASSUME ClassesAssumption ==
  /\ None \notin Names
  /\ NameOf \in [ClassDecls -> Names]
  /\ SuperOf \in [ClassDecls -> Names \cup {None}]
  /\ IVarsOf \in [ClassDecls -> Seq(STRING)]
  /\ DOMAIN Uses = ClassDecls
  /\ MaxClasses \in Nat /\ MaxObjects \in Nat

VARIABLES
  classes,         \* Class structures in order of creation; 0 is the null pointer
  classTable,      \* the structure a name stands for
  objects,         \* the isa pointer of each object
  function,        \* Method::function: by class and selector, the class it was compiled
                   \* for, 0 for the trampoline
  compiledClosure, \* the same for the AST node of the method
  access           \* the last use of a variable: the receiver's class, the layout
                   \* that found the slot, the variable

vars == <<classes, classTable, objects, function, compiledClosure, access>>

Class == [decl : ClassDecls, superclass : Nat, ivars : Seq(STRING)]
CodeTable == UNION {[DOMAIN Uses[d] -> 0..MaxClasses] : d \in ClassDecls}
NoAccess == [class |-> 0, layout |-> 0, var |-> ""]

TypeOK ==
  /\ classes \in Seq(Class) /\ Len(classes) <= MaxClasses
  /\ \A c \in 1..Len(classes) : classes[c].superclass < c
  /\ classTable \in [Names -> 0..Len(classes)]
  /\ objects \in Seq(1..Len(classes))
  /\ function \in Seq(CodeTable) /\ Len(function) = Len(classes)
  /\ \A c \in 1..Len(classes) :
       function[c] \in [DOMAIN Uses[classes[c].decl] -> 0..Len(classes)]
  /\ compiledClosure \in [ClassDecls -> [Selectors -> 0..Len(classes)]]
  /\ access.class \in 0..Len(classes) /\ access.layout \in 0..Len(classes)

Init ==
  /\ classes = <<>>
  /\ classTable = [n \in Names |-> 0]
  /\ objects = <<>>
  /\ function = <<>>
  /\ compiledClosure = [d \in ClassDecls |-> [s \in Selectors |-> 0]]
  /\ access = NoAccess

-----------------------------------------------------------------------------
lookupClass(n) == IF n = None THEN 0 ELSE classTable[n]

\* The class, from c upwards, that has the method; 0 when there is none.
methodForSelector(c, s) ==
  LET from[k \in 0..Len(classes)] ==
        IF k = 0 \/ s \in DOMAIN Uses[classes[k].decl] THEN k ELSE from[classes[k].superclass]
  IN from[c]

\* Where a layout puts the variable: the last slot of that name, or 0 (a global).
SlotOf(c, v) ==
  LET slots == {i \in DOMAIN classes[c].ivars : classes[c].ivars[i] = v}
  IN IF slots = {} THEN 0 ELSE CHOOSE i \in slots : \A j \in slots : j <= i

\* Mutant: a class's own instance variables come before the inherited ones.
LayoutOwnFirst(d) ==
  IVarsOf[d] \o (IF lookupClass(SuperOf[d]) = 0 THEN <<>> ELSE classes[lookupClass(SuperOf[d])].ivars)

\* The instance variables: the superclass's, then the class's own.
Layout(d) ==
  (IF lookupClass(SuperOf[d]) = 0 THEN <<>> ELSE classes[lookupClass(SuperOf[d])].ivars) \o IVarsOf[d]

\* Mutant: a second declaration of a name changes the class in place.
DeclareInPlace(d) ==
  /\ Len(classes) < MaxClasses
  /\ LET old == classTable[NameOf[d]]
         new == [decl |-> d, superclass |-> 0, ivars |-> IVarsOf[d]]
         trampolines == [s \in DOMAIN Uses[d] |-> 0]
     IN IF old = 0
        THEN /\ classes' = Append(classes, new)
             /\ function' = Append(function, trampolines)
             /\ classTable' = [classTable EXCEPT ![NameOf[d]] = Len(classes) + 1]
        ELSE /\ classes' = [classes EXCEPT ![old] = new]
             /\ function' = [function EXCEPT ![old] = trampolines]
             /\ UNCHANGED classTable
  /\ UNCHANGED <<objects, compiledClosure, access>>

\* Mutant: the class is registered before its superclass is looked up.
DeclareRegisteredFirst(d) ==
  /\ Len(classes) < MaxClasses
  /\ classTable' = [classTable EXCEPT ![NameOf[d]] = Len(classes) + 1]
  /\ classes' = Append(classes, [decl |-> d, ivars |-> Layout(d),
                                 superclass |-> IF SuperOf[d] = None THEN 0 ELSE classTable'[SuperOf[d]]])
  /\ function' = Append(function, [s \in DOMAIN Uses[d] |-> 0])
  /\ UNCHANGED <<objects, compiledClosure, access>>

\* ClassDecl::interpret: a new Class with trampolines for methods, registered
\* under its name.  A superclass that is not declared is silently none.
Declare(d) ==
  /\ Len(classes) < MaxClasses
  /\ classes' = Append(classes, [decl |-> d, superclass |-> lookupClass(SuperOf[d]),
                                 ivars |-> Layout(d)])
  /\ function' = Append(function, [s \in DOMAIN Uses[d] |-> 0])
  /\ classTable' = [classTable EXCEPT ![NameOf[d]] = Len(classes) + 1]
  /\ UNCHANGED <<objects, compiledClosure, access>>

\* NewExpr::evaluateExpr; with no such class newObject would follow null.
New(n) ==
  /\ Len(objects) < MaxObjects
  /\ lookupClass(n) # 0
  /\ objects' = Append(objects, lookupClass(n))
  /\ UNCHANGED <<classes, classTable, function, compiledClosure, access>>

\* Compiled code has the class as a constant, from when the code was made: any
\* class that has been registered under the name.
NewInCode(n) ==
  /\ Len(objects) < MaxObjects
  /\ \E c \in 1..Len(classes) :
       /\ NameOf[classes[c].decl] = n
       /\ objects' = Append(objects, c)
  /\ UNCHANGED <<classes, classTable, function, compiledClosure, access>>

-----------------------------------------------------------------------------
\* Object o gets a message that its class or an ancestor understands; m is the
\* class whose method list has the method.
Receives(o, s, m) == m = methodForSelector(objects[o], s) /\ m # 0

Accesses(o, m, s, layout) ==
  access' = [class |-> objects[o], layout |-> layout, var |-> Uses[classes[m].decl][s]]

\* The method table holds compiled code.
RunCode(o, s) ==
  /\ \E m \in 1..Len(classes) :
       /\ Receives(o, s, m) /\ function[m][s] # 0
       /\ Accesses(o, m, s, function[m][s])
  /\ UNCHANGED <<classes, classTable, objects, function, compiledClosure>>

\* interpretMethod finds the method hot: compileMethod for the receiver's class.
CompileAndRun(o, s) ==
  /\ \E m \in 1..Len(classes) :
       /\ Receives(o, s, m) /\ function[m][s] = 0
       /\ function' = [function EXCEPT ![m][s] = objects[o]]
       /\ compiledClosure' = [compiledClosure EXCEPT ![classes[m].decl][s] = objects[o]]
       /\ Accesses(o, m, s, objects[o])
  /\ UNCHANGED <<classes, classTable, objects>>

\* interpretMethod finds code of another class made from the same declaration.
RunSharedCode(o, s) ==
  /\ \E m \in 1..Len(classes) :
       /\ Receives(o, s, m) /\ function[m][s] = 0 /\ compiledClosure[classes[m].decl][s] # 0
       /\ Accesses(o, m, s, compiledClosure[classes[m].decl][s])
  /\ UNCHANGED <<classes, classTable, objects, function, compiledClosure>>

\* interpretMethod interprets the body with the layout of the receiver.
Interpret(o, s) ==
  /\ \E m \in 1..Len(classes) :
       /\ Receives(o, s, m) /\ function[m][s] = 0 /\ compiledClosure[classes[m].decl][s] = 0
       /\ Accesses(o, m, s, objects[o])
  /\ UNCHANGED <<classes, classTable, objects, function, compiledClosure>>

\* reconstructInterpreterContext recompiles a method that a side exit left:
\* for the receiver's class, into the method table only.
Recompile(o, s) ==
  /\ \E m \in 1..Len(classes) :
       /\ Receives(o, s, m) /\ function[m][s] # 0
       /\ function' = [function EXCEPT ![m][s] = objects[o]]
  /\ UNCHANGED <<classes, classTable, objects, compiledClosure, access>>

Call(o, s) ==
  RunCode(o, s) \/ CompileAndRun(o, s) \/ RunSharedCode(o, s) \/ Interpret(o, s) \/ Recompile(o, s)

Next ==
  \/ \E d \in ClassDecls : Declare(d)
  \/ \E n \in Names : New(n) \/ NewInCode(n)
  \/ \E o \in 1..Len(objects), s \in Selectors : Call(o, s)

Spec == Init /\ [][Next]_vars

-----------------------------------------------------------------------------
(* Properties.                                                             *)

\* Whatever is declared or declared again, the method that a selector finds
\* from an existing class stays the same: a lookup done once is good forever.
LookupIsStable ==
  [][\A c \in 1..Len(classes), s \in Selectors :
       methodForSelector(c, s)' = methodForSelector(c, s)]_vars

\* A declaration has given all the classes made from it the same layout; it does
\* not when its superclass was declared anew between two of its executions.
OneLayoutPerDecl ==
  \A c, e \in 1..Len(classes) :
    classes[c].decl = classes[e].decl => classes[c].ivars = classes[e].ivars

\* Whichever receiver a method was compiled for, and through whichever of the
\* classes made from its declaration, its code finds the variable it uses where
\* the interpreter would, in the layout of the present receiver.
TiersFindTheSameSlot ==
  access # NoAccess /\ OneLayoutPerDecl
    => SlotOf(access.layout, access.var) = SlotOf(access.class, access.var)

\* A method never touches a slot that its receiver does not have.  (The code
\* does not keep this when a method names a variable that only a subclass has:
\* see the README's deviations.)
SlotInObject ==
  access # NoAccess => SlotOf(access.layout, access.var) <= Len(classes[access.class].ivars)
=============================================================================
