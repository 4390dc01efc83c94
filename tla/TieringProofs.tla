---------------------------- MODULE TieringProofs ---------------------------
(***************************************************************************)
(* For every program, types are kept, the top level has no owner, and code *)
(* is compiled again only on request.  The runtime knows which compiled    *)
(* function is running in every top-level statement until compiled code    *)
(* applies an overloaded operator in it.  The invariant needs no induction *)
(* over the stack: each activation remembers in "saved" the owner of the   *)
(* activations below it.                                                   *)
(***************************************************************************)
EXTENDS Tiering, SequenceTheorems, TLAPS

WeakFrame ==
  [entry : Entries, decl : Decls, version : Nat, saved : Decls \cup {None},
   mode : {"interpreted", "compiled", "resumed", "lost"}, kind : {"call", "operator", "trampolined"}]

\* The part of the typing the argument needs; versions are not bounded.
WeakType ==
  /\ invoke \in [Entries -> Nat]
  /\ compiledClosure \in [Decls -> Nat]
  /\ versions \in [Decls -> Nat]
  /\ cur_jit_function \in Decls \cup {None}
  /\ stack \in Seq(WeakFrame)

\* Every activation saved the owner of the activations below it.
SavedIsOwnerBelow ==
  \A k \in 1..Len(stack) : InnermostOwner(stack, k - 1, stack[k].saved)

OnlyCalls == \A k \in 1..Len(stack) : stack[k].kind = "call"

NeverLost == \A k \in 1..Len(stack) : stack[k].mode # "lost"

OwnerNow == InnermostOwner(stack, Len(stack), cur_jit_function)

OwnerInv ==
  /\ WeakType
  /\ OwnerNow
  /\ SavedIsOwnerBelow
  /\ OnlyCalls
  /\ NeverLost

-----------------------------------------------------------------------------
\* The owner depends only on the modes and declarations below.
LEMMA OwnerOfPrefix ==
  ASSUME NEW s, NEW t, NEW k \in Nat, NEW x,
         \A j \in 1..k : (s[j].mode = "interpreted") <=> (t[j].mode = "interpreted"),
         \A j \in 1..k : s[j].decl = t[j].decl,
         InnermostOwner(s, k, x)
  PROVE  InnermostOwner(t, k, x)
<1>1. CASE x = None /\ \A j \in 1..k : s[j].mode = "interpreted"
  BY <1>1 DEF InnermostOwner
<1>2. CASE \E i \in 1..k : /\ s[i].mode # "interpreted" /\ x = s[i].decl
                           /\ \A j \in (i + 1)..k : s[j].mode = "interpreted"
  <2>1. PICK i \in 1..k : /\ s[i].mode # "interpreted" /\ x = s[i].decl
                          /\ \A j \in (i + 1)..k : s[j].mode = "interpreted"
    BY <1>2
  <2>2. t[i].mode # "interpreted" /\ x = t[i].decl
    BY <2>1
  <2>3. \A j \in (i + 1)..k : t[j].mode = "interpreted"
    BY <2>1
  <2>4. QED
    BY <2>2, <2>3 DEF InnermostOwner
<1>3. QED
  BY <1>1, <1>2 DEF InnermostOwner

\* An activation that is not interpreted owns the stack it is on top of.
LEMMA OwnerOfTop ==
  ASSUME NEW s, NEW k \in Nat \ {0}, s[k].mode # "interpreted"
  PROVE  /\ InnermostOwner(s, k, s[k].decl)
         /\ \A x : InnermostOwner(s, k, x) => x = s[k].decl
<1>1. InnermostOwner(s, k, s[k].decl)
  BY DEF InnermostOwner
<1>2. ASSUME NEW x, InnermostOwner(s, k, x)
      PROVE  x = s[k].decl
  <2>1. k \in 1..k
    OBVIOUS
  <2>2. PICK i \in 1..k : /\ x = s[i].decl
                          /\ \A j \in (i + 1)..k : s[j].mode = "interpreted"
    BY <1>2, <2>1 DEF InnermostOwner
  <2>3. i = k
    BY <2>2
  <2>4. QED
    BY <2>2, <2>3
<1>3. QED
  BY <1>1, <1>2

\* An interpreted activation leaves the owner as it was.
LEMMA OwnerUnderInterpreted ==
  ASSUME NEW s, NEW k \in Nat \ {0}, NEW x, s[k].mode = "interpreted",
         InnermostOwner(s, k - 1, x)
  PROVE  InnermostOwner(s, k, x)
<1>1. CASE x = None /\ \A j \in 1..(k - 1) : s[j].mode = "interpreted"
  BY <1>1 DEF InnermostOwner
<1>2. CASE \E i \in 1..(k - 1) : /\ s[i].mode # "interpreted" /\ x = s[i].decl
                                 /\ \A j \in (i + 1)..(k - 1) : s[j].mode = "interpreted"
  <2>1. PICK i \in 1..(k - 1) : /\ s[i].mode # "interpreted" /\ x = s[i].decl
                                /\ \A j \in (i + 1)..(k - 1) : s[j].mode = "interpreted"
    BY <1>2
  <2>2. \A j \in (i + 1)..k : s[j].mode = "interpreted"
    BY <2>1
  <2>3. i \in 1..k
    OBVIOUS
  <2>4. QED
    BY <2>1, <2>2, <2>3 DEF InnermostOwner
<1>3. QED
  BY <1>1, <1>2 DEF InnermostOwner

\* An interpreted activation on top has the owner of what is below it.
LEMMA OwnerBelowInterpreted ==
  ASSUME NEW s, NEW k \in Nat \ {0}, NEW x, s[k].mode = "interpreted",
         InnermostOwner(s, k, x)
  PROVE  InnermostOwner(s, k - 1, x)
<1>1. CASE x = None /\ \A j \in 1..k : s[j].mode = "interpreted"
  BY <1>1 DEF InnermostOwner
<1>2. CASE \E i \in 1..k : /\ s[i].mode # "interpreted" /\ x = s[i].decl
                           /\ \A j \in (i + 1)..k : s[j].mode = "interpreted"
  <2>1. PICK i \in 1..k : /\ s[i].mode # "interpreted" /\ x = s[i].decl
                          /\ \A j \in (i + 1)..k : s[j].mode = "interpreted"
    BY <1>2
  <2>2. i \in 1..(k - 1)
    BY <2>1
  <2>3. \A j \in (i + 1)..(k - 1) : s[j].mode = "interpreted"
    BY <2>1
  <2>4. QED
    BY <2>1, <2>2, <2>3 DEF InnermostOwner
<1>3. QED
  BY <1>1, <1>2 DEF InnermostOwner

-----------------------------------------------------------------------------
LEMMA InitOwnerInv == Init => OwnerInv
<1>1. SUFFICES ASSUME Init PROVE OwnerInv
  OBVIOUS
<1>2. stack = <<>> /\ Len(stack) = 0 /\ cur_jit_function = None
  BY <1>1 DEF Init
<1>3. WeakType
  BY <1>1 DEF Init, WeakType
<1>4. OwnerNow
  BY <1>2 DEF OwnerNow, InnermostOwner
<1>5. SavedIsOwnerBelow /\ OnlyCalls /\ NeverLost
  BY <1>2 DEF SavedIsOwnerBelow, OnlyCalls, NeverLost
<1>6. QED
  BY <1>3, <1>4, <1>5 DEF OwnerInv

\* A call pushes an activation that remembers the owner; compiled code becomes
\* the owner and interpreted code leaves it alone.
LEMMA PushKeepsOwner ==
  ASSUME OwnerInv, NEW e \in Entries, NEW mode \in {"interpreted", "compiled"},
         NEW v \in Nat, Push(e, mode, v, "call"),
         cur_jit_function' = IF mode = "compiled" THEN DeclOf[e] ELSE cur_jit_function
  PROVE  /\ stack' \in Seq(WeakFrame)
         /\ cur_jit_function' \in Decls \cup {None}
         /\ OwnerNow' /\ SavedIsOwnerBelow' /\ OnlyCalls' /\ NeverLost'
<1> DEFINE f == [entry |-> e, decl |-> DeclOf[e], version |-> v,
                 saved |-> cur_jit_function, mode |-> mode, kind |-> "call"]
           n == Len(stack)
<1>1. /\ stack \in Seq(WeakFrame) /\ cur_jit_function \in Decls \cup {None}
      /\ DeclOf[e] \in Decls
  BY TieringAssumption DEF OwnerInv, WeakType
<1>2. stack' = Append(stack, f)
  BY DEF Push
<1>3. f \in WeakFrame
  BY <1>1 DEF WeakFrame
<1>4. f.mode = mode /\ f.decl = DeclOf[e] /\ f.saved = cur_jit_function /\ f.kind = "call"
  OBVIOUS
<1> HIDE DEF f
<1>5. /\ stack' \in Seq(WeakFrame) /\ Len(stack') = n + 1 /\ n \in Nat
      /\ stack'[n + 1] = f /\ \A j \in 1..n : stack'[j] = stack[j]
  BY <1>1, <1>2, <1>3
<1>6. cur_jit_function' \in Decls \cup {None}
  BY <1>1
<1>7. ASSUME NEW k \in Nat, k <= n, NEW x, InnermostOwner(stack, k, x)
      PROVE  InnermostOwner(stack', k, x)
  <2>1. \A j \in 1..k : stack'[j] = stack[j]
    BY <1>5, <1>7
  <2>2. QED
    BY <2>1, <1>7, OwnerOfPrefix
<1>8. InnermostOwner(stack', n, cur_jit_function)
  BY <1>5, <1>7 DEF OwnerInv, OwnerNow
<1>9. OwnerNow'
  <2>1. CASE mode = "compiled"
    <3>1. stack'[n + 1].mode # "interpreted" /\ cur_jit_function' = stack'[n + 1].decl
      BY <1>4, <1>5, <2>1
    <3>2. n + 1 \in Nat \ {0}
      BY <1>5
    <3>3. InnermostOwner(stack', n + 1, cur_jit_function')
      BY <3>1, <3>2, OwnerOfTop
    <3>4. QED
      BY <3>3, <1>5 DEF OwnerNow
  <2>2. CASE mode = "interpreted"
    <3>1. stack'[n + 1].mode = "interpreted" /\ cur_jit_function' = cur_jit_function
      BY <1>4, <1>5, <2>2
    <3>2. n + 1 \in Nat \ {0} /\ (n + 1) - 1 = n
      BY <1>5
    <3>3. InnermostOwner(stack', n + 1, cur_jit_function)
      BY <3>1, <3>2, <1>8, OwnerUnderInterpreted
    <3>4. QED
      BY <3>1, <3>3, <1>5 DEF OwnerNow
  <2>3. QED
    BY <2>1, <2>2
<1>10. SavedIsOwnerBelow'
  <2>1. SUFFICES ASSUME NEW k \in 1..(n + 1)
                 PROVE  InnermostOwner(stack', k - 1, stack'[k].saved)
    BY <1>5 DEF SavedIsOwnerBelow
  <2>2. CASE k = n + 1
    <3>1. k - 1 = n /\ stack'[k].saved = cur_jit_function
      BY <2>2, <1>4, <1>5
    <3>2. QED
      BY <3>1, <1>8
  <2>3. CASE k \in 1..n
    <3>1. InnermostOwner(stack, k - 1, stack[k].saved)
      BY <2>3 DEF OwnerInv, SavedIsOwnerBelow
    <3>2. k - 1 \in Nat /\ k - 1 <= n /\ stack'[k] = stack[k]
      BY <2>3, <1>5
    <3>3. QED
      BY <3>1, <3>2, <1>7
  <2>4. QED
    BY <1>5, <2>1, <2>2, <2>3
<1>11. OnlyCalls' /\ NeverLost'
  <2>1. ASSUME NEW k \in 1..(n + 1)
        PROVE  stack'[k].kind = "call" /\ stack'[k].mode # "lost"
    <3>1. CASE k = n + 1
      BY <3>1, <1>4, <1>5
    <3>2. CASE k \in 1..n
      BY <3>2, <1>5 DEF OwnerInv, OnlyCalls, NeverLost
    <3>3. QED
      BY <1>5, <3>1, <3>2
  <2>2. QED
    BY <2>1, <1>5 DEF OnlyCalls, NeverLost
<1>12. QED
  BY <1>5, <1>6, <1>9, <1>10, <1>11

\* A return hands the owner back: the interpreter the one it saved, compiled
\* code its own declaration.
LEMMA PopKeepsOwner ==
  ASSUME OwnerInv, stack # <<>>, Pop, Restore
  PROVE  /\ stack' \in Seq(WeakFrame)
         /\ cur_jit_function' \in Decls \cup {None}
         /\ OwnerNow' /\ SavedIsOwnerBelow' /\ OnlyCalls' /\ NeverLost'
<1> DEFINE n == Len(stack)
<1>1. stack \in Seq(WeakFrame) /\ n \in Nat \ {0} /\ n - 1 \in Nat
  BY DEF OwnerInv, WeakType
<1>2. /\ stack' \in Seq(WeakFrame) /\ Len(stack') = n - 1
      /\ \A j \in 1..(n - 1) : stack'[j] = stack[j]
  <2>1. stack' = SubSeq(stack, 1, n - 1)
    BY DEF Pop
  <2>2. \A j \in 1..(n - 1) : 1 + j - 1 = j /\ j \in 1..n
    BY <1>1
  <2>3. 1 \in 1..(n + 1) /\ n - 1 \in 0..n /\ (n - 1) - 1 + 1 = n - 1
    BY <1>1
  <2>4. QED
    BY <1>1, <2>1, <2>2, <2>3, SubSeqProperties
<1>3. ASSUME NEW k \in Nat, k <= n - 1, NEW x, InnermostOwner(stack, k, x)
      PROVE  InnermostOwner(stack', k, x)
  <2>1. \A j \in 1..k : stack'[j] = stack[j]
    BY <1>1, <1>2, <1>3
  <2>2. QED
    BY <2>1, <1>3, OwnerOfPrefix
<1>4. \A j \in 1..n : stack[j] \in WeakFrame
  BY <1>1
<1>5. Top = stack[n] /\ Top.saved \in Decls \cup {None} /\ Top.kind = "call"
  BY <1>1, <1>4 DEF Top, WeakFrame, OwnerInv, OnlyCalls
<1>6. InnermostOwner(stack, n - 1, Top.saved)
  BY <1>1, <1>5 DEF OwnerInv, SavedIsOwnerBelow
<1>7. /\ cur_jit_function' \in Decls \cup {None}
      /\ InnermostOwner(stack, n - 1, cur_jit_function')
  <2>1. CASE n = 1 \/ stack[n - 1].mode # "compiled"
    <3>1. cur_jit_function' = Top.saved
      BY <2>1 DEF Restore
    <3>2. QED
      BY <3>1, <1>5, <1>6
  <2>2. CASE n # 1 /\ stack[n - 1].mode = "compiled"
    <3>1. cur_jit_function' = stack[n - 1].decl
      BY <2>2, <1>5 DEF Restore
    <3>2. n - 1 \in 1..n /\ n - 1 \in Nat \ {0}
      <4>1. \A a \in Nat \ {0} : a # 1 => a - 1 \in 1..a /\ a - 1 \in Nat \ {0}
        OBVIOUS
      <4>2. QED
        BY <4>1, <1>1, <2>2
    <3>3. stack[n - 1].decl \in Decls
      BY <3>2, <1>4 DEF WeakFrame
    <3>4. InnermostOwner(stack, n - 1, stack[n - 1].decl)
      BY <2>2, <3>2, OwnerOfTop
    <3>5. QED
      BY <3>1, <3>3, <3>4
  <2>3. QED
    BY <2>1, <2>2
<1>8. OwnerNow'
  BY <1>1, <1>2, <1>3, <1>7 DEF OwnerNow
<1>9. SavedIsOwnerBelow'
  <2>1. SUFFICES ASSUME NEW k \in 1..(n - 1)
                 PROVE  InnermostOwner(stack', k - 1, stack'[k].saved)
    BY <1>2 DEF SavedIsOwnerBelow
  <2>2. InnermostOwner(stack, k - 1, stack[k].saved)
    BY <1>1 DEF OwnerInv, SavedIsOwnerBelow
  <2>3. k - 1 \in Nat /\ k - 1 <= n - 1 /\ stack'[k] = stack[k]
    BY <1>1, <1>2
  <2>4. QED
    BY <2>2, <2>3, <1>3
<1>10. OnlyCalls' /\ NeverLost'
  BY <1>1, <1>2 DEF OwnerInv, OnlyCalls, NeverLost
<1>11. QED
  BY <1>2, <1>7, <1>8, <1>9, <1>10

\* A failed guard leaves the function the runtime takes to be running, so the
\* activation is resumed and none is lost.
LEMMA SideExitKeepsOwner ==
  ASSUME OwnerInv, SideExit
  PROVE  /\ stack' \in Seq(WeakFrame)
         /\ OwnerNow' /\ SavedIsOwnerBelow' /\ OnlyCalls' /\ NeverLost'
<1> DEFINE n == Len(stack)
<1>1. stack \in Seq(WeakFrame) /\ n \in Nat
  BY DEF OwnerInv, WeakType
<1>2. stack # <<>> /\ Top = stack[n] /\ stack[n].mode = "compiled"
  BY DEF SideExit, InCompiledCode, TopMode, Top
<1>3. n \in Nat \ {0} /\ n \in 1..n
  BY <1>1, <1>2
<1>4. cur_jit_function = stack[n].decl
  <2>1. InnermostOwner(stack, n, cur_jit_function)
    BY DEF OwnerInv, OwnerNow
  <2>2. QED
    BY <2>1, <1>2, <1>3, OwnerOfTop
<1>5. stack' = [stack EXCEPT ![n].mode = "resumed"] /\ cur_jit_function' = cur_jit_function
  BY <1>2, <1>4 DEF SideExit
<1>6. stack[n] \in WeakFrame
  BY <1>1, <1>3
<1>7. [stack[n] EXCEPT !.mode = "resumed"] \in WeakFrame
  BY <1>6 DEF WeakFrame
<1>8. /\ stack' \in Seq(WeakFrame) /\ Len(stack') = n
      /\ stack'[n] = [stack[n] EXCEPT !.mode = "resumed"]
      /\ \A j \in 1..n : j # n => stack'[j] = stack[j]
  BY <1>1, <1>3, <1>5, <1>7
<1>9. /\ stack'[n].mode = "resumed" /\ stack'[n].decl = stack[n].decl
      /\ stack'[n].saved = stack[n].saved /\ stack'[n].kind = stack[n].kind
  BY <1>6, <1>8 DEF WeakFrame
<1>10. ASSUME NEW j \in 1..n
       PROVE  /\ (stack[j].mode = "interpreted") <=> (stack'[j].mode = "interpreted")
              /\ stack'[j].decl = stack[j].decl /\ stack'[j].saved = stack[j].saved
              /\ stack'[j].kind = stack[j].kind
              /\ stack[j].mode # "lost" => stack'[j].mode # "lost"
  <2>1. CASE j = n
    BY <2>1, <1>2, <1>9
  <2>2. CASE j # n
    BY <2>2, <1>8
  <2>3. QED
    BY <2>1, <2>2
<1>11. ASSUME NEW k \in Nat, k <= n, NEW x, InnermostOwner(stack, k, x)
       PROVE  InnermostOwner(stack', k, x)
  <2>1. \A j \in 1..k : j \in 1..n
    BY <1>1, <1>11
  <2>2. \A j \in 1..k : /\ (stack[j].mode = "interpreted") <=> (stack'[j].mode = "interpreted")
                        /\ stack[j].decl = stack'[j].decl
    BY <1>10, <2>1
  <2>3. QED
    BY <2>2, <1>11, OwnerOfPrefix
<1>12. OwnerNow'
  <2>1. InnermostOwner(stack, n, cur_jit_function) /\ n <= n
    BY <1>1 DEF OwnerInv, OwnerNow
  <2>2. InnermostOwner(stack', n, cur_jit_function)
    BY <2>1, <1>1, <1>11
  <2>3. Len(stack') = n /\ cur_jit_function' = cur_jit_function
    BY <1>5, <1>8
  <2>4. QED
    BY <2>2, <2>3 DEF OwnerNow
<1>13. SavedIsOwnerBelow'
  <2>1. SUFFICES ASSUME NEW k \in 1..n
                 PROVE  InnermostOwner(stack', k - 1, stack'[k].saved)
    BY <1>8 DEF SavedIsOwnerBelow
  <2>2. InnermostOwner(stack, k - 1, stack[k].saved)
    BY DEF OwnerInv, SavedIsOwnerBelow
  <2>3. k - 1 \in Nat /\ k - 1 <= n
    BY <1>1
  <2>4. QED
    BY <2>2, <2>3, <1>10, <1>11
<1>14. OnlyCalls' /\ NeverLost'
  BY <1>8, <1>10 DEF OwnerInv, OnlyCalls, NeverLost
<1>15. QED
  BY <1>8, <1>12, <1>13, <1>14

-----------------------------------------------------------------------------
\* Compilation counts versions; it does not touch the stack.
LEMMA CompileTypes ==
  ASSUME WeakType, NEW e \in Entries, NEW b \in BOOLEAN, Compile(e, b)
  PROVE  /\ invoke' \in [Entries -> Nat] /\ compiledClosure' \in [Decls -> Nat]
         /\ versions' \in [Decls -> Nat] /\ versions[DeclOf[e]] + 1 \in Nat
<1>1. DeclOf[e] \in Decls
  BY TieringAssumption
<1>2. versions[DeclOf[e]] + 1 \in Nat
  BY <1>1 DEF WeakType
<1>3. versions' \in [Decls -> Nat] /\ invoke' \in [Entries -> Nat]
  BY <1>1, <1>2 DEF WeakType, Compile
<1>4. compiledClosure' \in [Decls -> Nat]
  <2>1. CASE b
    BY <2>1, <1>1, <1>2 DEF WeakType, Compile
  <2>2. CASE ~b
    BY <2>2 DEF WeakType, Compile
  <2>3. QED
    BY <2>1, <2>2
<1>5. QED
  BY <1>2, <1>3, <1>4

LEMMA EnterKeepsOwner ==
  ASSUME OwnerInv, NEW e \in Entries, Enter(e, "call")
  PROVE  OwnerInv'
<1>1. DeclOf[e] \in Decls /\ WeakType
  BY TieringAssumption DEF OwnerInv
<1>2. CASE EnterCode(e, "call")
  <2>1. invoke[e] \in Nat
    BY <1>1 DEF WeakType
  <2>2. Push(e, "compiled", invoke[e], "call") /\ cur_jit_function' = DeclOf[e] /\ UNCHANGED code
    BY <1>2 DEF EnterCode
  <2>3. QED
    BY <1>1, <2>1, <2>2, PushKeepsOwner DEF OwnerInv, WeakType, code
<1>3. CASE EnterAndCompile(e, "call")
  <2>1. /\ Push(e, "compiled", versions[DeclOf[e]] + 1, "call")
        /\ cur_jit_function' = DeclOf[e] /\ Compile(e, TRUE)
    BY <1>3 DEF EnterAndCompile, Trampolined
  <2>2. /\ invoke' \in [Entries -> Nat] /\ compiledClosure' \in [Decls -> Nat]
        /\ versions' \in [Decls -> Nat] /\ versions[DeclOf[e]] + 1 \in Nat
    BY <1>1, <2>1, CompileTypes
  <2>3. QED
    BY <2>1, <2>2, PushKeepsOwner DEF OwnerInv, WeakType
<1>4. CASE EnterOtherCode(e, "call")
  <2>1. compiledClosure[DeclOf[e]] \in Nat
    BY <1>1 DEF WeakType
  <2>2. /\ Push(e, "compiled", compiledClosure[DeclOf[e]], "call")
        /\ cur_jit_function' = DeclOf[e] /\ UNCHANGED code
    BY <1>4 DEF EnterOtherCode, Trampolined
  <2>3. QED
    BY <1>1, <2>1, <2>2, PushKeepsOwner DEF OwnerInv, WeakType, code
<1>5. CASE EnterInterpreted(e, "call")
  <2>1. /\ Push(e, "interpreted", 0, "call") /\ cur_jit_function' = cur_jit_function
        /\ UNCHANGED code
    BY <1>5 DEF EnterInterpreted
  <2>2. 0 \in Nat /\ "interpreted" # "compiled"
    OBVIOUS
  <2>3. QED
    BY <1>1, <2>1, <2>2, PushKeepsOwner DEF OwnerInv, WeakType, code
<1>6. QED
  BY <1>2, <1>3, <1>4, <1>5 DEF Enter

-----------------------------------------------------------------------------
(* Types, and the top level, for every program: overloaded operators and   *)
(* re-entered functions included.  That no version number passes its bound *)
(* rests on who may ask for a recompilation and who carries it out.        *)

\* What cur_jit_function is when the i outermost activations are the stack, if
\* it is put back as the interpreter does.
OwnerAt(i) == IF i = Len(stack) THEN cur_jit_function ELSE stack[i + 1].saved

\* Code that an entry or a declaration holds was compiled.
CodeIsCounted ==
  /\ \A e \in Entries : invoke[e] <= versions[DeclOf[e]]
  /\ \A d \in Decls : compiledClosure[d] <= versions[d]

\* Only a compiled declaration is flagged, and never past the bound.
FlagIsOnCode == \A d \in recompile : versions[d] > 0 /\ versions[d] < MaxVersions

\* The counter has reached the threshold by the first compilation.
ColdIsNotCompiled == \A d \in Decls : executionCount[d] < CompileThreshold => versions[d] = 0

OwnersAreCompiled ==
  \A i \in 0..Len(stack) : OwnerAt(i) # None => versions[OwnerAt(i)] > 0

\* An activation belongs to its entry's declaration, which has been compiled
\* unless the activation is interpreted.
FramesAreCompiled ==
  \A i \in 1..Len(stack) :
    /\ stack[i].decl = DeclOf[stack[i].entry]
    /\ stack[i].mode # "interpreted" => versions[stack[i].decl] > 0
    /\ stack[i].kind = "trampolined" => stack[i].mode # "interpreted"

\* A resumed activation is the owner, now or once its callees have returned.
ResumedIsOwner ==
  \A i \in 1..Len(stack) : stack[i].mode = "resumed" => OwnerAt(i) = stack[i].decl

NoOwnerBelow == OwnerAt(0) = None

TierInv ==
  /\ TypeOK
  /\ CodeIsCounted
  /\ FlagIsOnCode
  /\ ColdIsNotCompiled
  /\ OwnersAreCompiled
  /\ FramesAreCompiled
  /\ ResumedIsOwner
  /\ NoOwnerBelow

\* A call pushes an activation that saved the owner.
LEMMA PushKeepsStack ==
  ASSUME TierInv, NEW e \in Entries, NEW mode \in {"interpreted", "compiled"}, NEW v \in Version,
         NEW kind \in {"call", "operator", "trampolined"}, Push(e, mode, v, kind),
         cur_jit_function' = IF mode = "compiled" THEN DeclOf[e] ELSE cur_jit_function,
         \A d \in Decls : versions[d] > 0 => versions'[d] > 0,
         mode = "compiled" => versions'[DeclOf[e]] > 0,
         kind = "trampolined" => mode = "compiled"
  PROVE  /\ stack' \in Seq(Frame) /\ cur_jit_function' \in Decls \cup {None}
         /\ OwnersAreCompiled' /\ FramesAreCompiled' /\ ResumedIsOwner' /\ NoOwnerBelow'
<1> DEFINE f == [entry |-> e, decl |-> DeclOf[e], version |-> v,
                 saved |-> cur_jit_function, mode |-> mode, kind |-> kind]
           n == Len(stack)
<1>1. /\ stack \in Seq(Frame) /\ cur_jit_function \in Decls \cup {None}
      /\ DeclOf[e] \in Decls /\ n \in Nat
  BY TieringAssumption DEF TierInv, TypeOK
<1>2. stack' = Append(stack, f)
  BY DEF Push
<1>3. f \in Frame
  BY <1>1 DEF Frame
<1>4. /\ f.mode = mode /\ f.decl = DeclOf[e] /\ f.saved = cur_jit_function
      /\ f.kind = kind /\ f.entry = e
  OBVIOUS
<1> HIDE DEF f
<1>5. /\ stack' \in Seq(Frame) /\ Len(stack') = n + 1
      /\ stack'[n + 1] = f /\ \A j \in 1..n : stack'[j] = stack[j]
  BY <1>1, <1>2, <1>3
<1>6. cur_jit_function' \in Decls \cup {None}
  BY <1>1
<1>7. \A i \in 0..n : OwnerAt(i)' = OwnerAt(i)
  <2>1. SUFFICES ASSUME NEW i \in 0..n PROVE OwnerAt(i)' = OwnerAt(i)
    OBVIOUS
  <2>2. OwnerAt(i)' = stack'[i + 1].saved
    BY <1>1, <1>5 DEF OwnerAt
  <2>3. CASE i = n
    BY <2>2, <2>3, <1>4, <1>5 DEF OwnerAt
  <2>4. CASE i # n
    <3>1. i + 1 \in 1..n
      BY <2>4, <1>1
    <3>2. QED
      BY <2>2, <2>4, <3>1, <1>5 DEF OwnerAt
  <2>5. QED
    BY <2>3, <2>4
<1>8. \A i \in Nat : i = n + 1 => OwnerAt(i)' = cur_jit_function'
  BY <1>5 DEF OwnerAt
<1>9. \A i \in 0..n : OwnerAt(i) \in Decls \cup {None}
  <2>1. SUFFICES ASSUME NEW i \in 0..n PROVE OwnerAt(i) \in Decls \cup {None}
    OBVIOUS
  <2>2. CASE i = n
    BY <2>2, <1>1 DEF OwnerAt
  <2>3. CASE i # n
    <3>1. i + 1 \in 1..n
      BY <2>3, <1>1
    <3>2. stack[i + 1] \in Frame
      BY <3>1, <1>1
    <3>3. QED
      BY <2>3, <3>2 DEF OwnerAt, Frame
  <2>4. QED
    BY <2>2, <2>3
<1>10. \A i \in 0..(n + 1) : i = n + 1 \/ i \in 0..n
  BY <1>1
<1>11. OwnersAreCompiled'
  <2>1. SUFFICES ASSUME NEW i \in 0..(n + 1), OwnerAt(i)' # None
                 PROVE  versions'[OwnerAt(i)'] > 0
    BY <1>5 DEF OwnersAreCompiled
  <2>2. CASE i \in 0..n
    BY <2>1, <2>2, <1>7, <1>9 DEF TierInv, OwnersAreCompiled
  <2>3. CASE i = n + 1
    <3>1. CASE mode = "compiled"
      BY <2>1, <2>3, <3>1, <1>8
    <3>2. CASE mode = "interpreted"
      <4>1. n \in 0..n /\ OwnerAt(n) = cur_jit_function
        BY <1>1 DEF OwnerAt
      <4>2. versions[cur_jit_function] > 0
        BY <2>1, <2>3, <3>2, <4>1, <1>8 DEF TierInv, OwnersAreCompiled
      <4>3. QED
        BY <2>1, <2>3, <3>2, <4>2, <1>1, <1>8
    <3>3. QED
      BY <3>1, <3>2
  <2>4. QED
    BY <1>10, <2>2, <2>3
<1>12. \A i \in 1..(n + 1) : i = n + 1 \/ i \in 1..n
  BY <1>1
<1>13. FramesAreCompiled'
  <2>1. SUFFICES ASSUME NEW i \in 1..(n + 1)
                 PROVE  /\ stack'[i].decl = DeclOf[stack'[i].entry]
                        /\ stack'[i].mode # "interpreted" => versions'[stack'[i].decl] > 0
                        /\ stack'[i].kind = "trampolined" => stack'[i].mode # "interpreted"
    BY <1>5 DEF FramesAreCompiled
  <2>2. CASE i = n + 1
    BY <2>2, <1>4, <1>5
  <2>3. CASE i \in 1..n
    <3>1. stack[i].decl \in Decls
      <4>1. stack[i] \in Frame
        BY <2>3, <1>1
      <4>2. QED
        BY <4>1 DEF Frame
    <3>2. QED
      BY <2>3, <3>1, <1>5 DEF TierInv, FramesAreCompiled
  <2>4. QED
    BY <1>12, <2>2, <2>3
<1>14. ResumedIsOwner'
  <2>1. SUFFICES ASSUME NEW i \in 1..(n + 1), stack'[i].mode = "resumed"
                 PROVE  OwnerAt(i)' = stack'[i].decl
    BY <1>5 DEF ResumedIsOwner
  <2>2. i # n + 1
    BY <2>1, <1>4, <1>5
  <2>3. i \in 1..n /\ i \in 0..n
    BY <2>2, <1>1
  <2>4. QED
    BY <2>1, <2>3, <1>5, <1>7 DEF TierInv, ResumedIsOwner
<1>15. NoOwnerBelow'
  <2>1. 0 \in 0..n
    BY <1>1
  <2>2. QED
    BY <2>1, <1>7 DEF TierInv, NoOwnerBelow
<1>16. QED
  BY <1>5, <1>6, <1>11, <1>13, <1>14, <1>15

\* A return puts back the owner of a caller that is being interpreted; whatever
\* compiled code leaves in cur_jit_function has been compiled.
LEMMA PopKeepsStack ==
  ASSUME TierInv, stack # <<>>, Pop, Restore,
         \A d \in Decls : versions[d] > 0 => versions'[d] > 0
  PROVE  /\ stack' \in Seq(Frame) /\ cur_jit_function' \in Decls \cup {None}
         /\ OwnersAreCompiled' /\ FramesAreCompiled' /\ ResumedIsOwner' /\ NoOwnerBelow'
<1> DEFINE n == Len(stack)
<1>1. stack \in Seq(Frame) /\ n \in Nat \ {0} /\ n - 1 \in Nat
  BY DEF TierInv, TypeOK
<1>2. /\ stack' \in Seq(Frame) /\ Len(stack') = n - 1
      /\ \A j \in 1..(n - 1) : stack'[j] = stack[j]
  <2>1. stack' = SubSeq(stack, 1, n - 1)
    BY DEF Pop
  <2>2. \A j \in 1..(n - 1) : 1 + j - 1 = j /\ j \in 1..n
    BY <1>1
  <2>3. 1 \in 1..(n + 1) /\ n - 1 \in 0..n /\ (n - 1) - 1 + 1 = n - 1
    BY <1>1
  <2>4. QED
    BY <1>1, <2>1, <2>2, <2>3, SubSeqProperties
<1>3. \A j \in 1..n : /\ stack[j] \in Frame /\ stack[j].decl \in Decls
                      /\ stack[j].saved \in Decls \cup {None}
  <2>1. \A j \in 1..n : stack[j] \in Frame
    BY <1>1
  <2>2. QED
    BY <2>1 DEF Frame
<1>4. Top = stack[n] /\ n \in 1..n /\ n - 1 \in 0..n /\ n \in 0..n
  BY <1>1 DEF Top
<1>5. OwnerAt(n - 1) = Top.saved /\ OwnerAt(n) = cur_jit_function
  BY <1>1, <1>4 DEF OwnerAt
<1>6. \A i \in 0..(n - 1) : i # n - 1 => OwnerAt(i)' = OwnerAt(i)
  <2>1. SUFFICES ASSUME NEW i \in 0..(n - 1), i # n - 1 PROVE OwnerAt(i)' = OwnerAt(i)
    OBVIOUS
  <2>2. i + 1 \in 1..(n - 1) /\ i # n
    BY <2>1, <1>1
  <2>3. QED
    BY <2>1, <2>2, <1>2 DEF OwnerAt
<1>7. \A i \in Nat : i = n - 1 => OwnerAt(i)' = cur_jit_function'
  BY <1>2 DEF OwnerAt
<1>8. (n = 1 \/ stack[n - 1].mode # "compiled") => cur_jit_function' = OwnerAt(n - 1)
  BY <1>5 DEF Restore
<1>9. /\ cur_jit_function' \in Decls \cup {None}
      /\ cur_jit_function' # None => versions[cur_jit_function'] > 0
  <2>1. CASE n = 1 \/ stack[n - 1].mode # "compiled"
    BY <2>1, <1>3, <1>4, <1>5, <1>8 DEF TierInv, OwnersAreCompiled
  <2>2. CASE n # 1 /\ stack[n - 1].mode = "compiled"
    <3>1. n - 1 \in 1..n
      <4>1. \A a \in Nat \ {0} : a # 1 => a - 1 \in 1..a
        OBVIOUS
      <4>2. QED
        BY <4>1, <1>1, <2>2
    <3>2. CASE Top.kind = "operator"
      <4>1. cur_jit_function' = cur_jit_function
        BY <2>2, <3>2 DEF Restore
      <4>2. cur_jit_function \in Decls \cup {None}
        BY DEF TierInv, TypeOK
      <4>3. QED
        BY <4>1, <4>2, <1>4, <1>5 DEF TierInv, OwnersAreCompiled
    <3>3. CASE Top.kind = "trampolined"
      <4>1. cur_jit_function' = Top.decl
        BY <2>2, <3>3 DEF Restore
      <4>2. Top.mode # "interpreted"
        BY <3>3, <1>4 DEF TierInv, FramesAreCompiled
      <4>3. versions[Top.decl] > 0
        BY <4>2, <1>4 DEF TierInv, FramesAreCompiled
      <4>4. QED
        BY <4>1, <4>3, <1>3, <1>4
    <3>4. CASE Top.kind # "operator" /\ Top.kind # "trampolined"
      <4>1. cur_jit_function' = stack[n - 1].decl
        BY <2>2, <3>4 DEF Restore
      <4>2. versions[stack[n - 1].decl] > 0
        BY <2>2, <3>1 DEF TierInv, FramesAreCompiled
      <4>3. QED
        BY <3>1, <4>1, <4>2, <1>3
    <3>5. QED
      BY <3>2, <3>3, <3>4
  <2>3. QED
    BY <2>1, <2>2
<1>10. \A i \in 0..n : OwnerAt(i) \in Decls \cup {None}
  <2>1. SUFFICES ASSUME NEW i \in 0..n, i # n PROVE OwnerAt(i) \in Decls \cup {None}
    BY <1>5 DEF TierInv, TypeOK
  <2>2. i + 1 \in 1..n
    BY <2>1, <1>1
  <2>3. QED
    BY <2>1, <2>2, <1>3 DEF OwnerAt
<1>11. OwnersAreCompiled'
  <2>1. SUFFICES ASSUME NEW i \in 0..(n - 1), OwnerAt(i)' # None
                 PROVE  versions'[OwnerAt(i)'] > 0
    BY <1>2 DEF OwnersAreCompiled
  <2>2. CASE i # n - 1
    <3>1. i \in 0..n
      BY <1>1
    <3>2. QED
      BY <2>1, <2>2, <3>1, <1>6, <1>10 DEF TierInv, OwnersAreCompiled
  <2>3. CASE i = n - 1
    BY <2>1, <2>3, <1>7, <1>9
  <2>4. QED
    BY <2>2, <2>3
<1>12. \A i \in 1..(n - 1) : i \in 1..n /\ i \in 0..(n - 1)
  BY <1>1
<1>13. FramesAreCompiled'
  BY <1>2, <1>3, <1>12 DEF TierInv, FramesAreCompiled
<1>14. ResumedIsOwner'
  <2>1. SUFFICES ASSUME NEW i \in 1..(n - 1), stack'[i].mode = "resumed"
                 PROVE  OwnerAt(i)' = stack'[i].decl
    BY <1>2 DEF ResumedIsOwner
  <2>2. stack[i].mode = "resumed" /\ OwnerAt(i) = stack[i].decl /\ stack'[i] = stack[i]
    BY <2>1, <1>2, <1>12 DEF TierInv, ResumedIsOwner
  <2>3. CASE i # n - 1
    BY <2>2, <2>3, <1>6, <1>12
  <2>4. CASE i = n - 1
    BY <2>2, <2>4, <1>7, <1>8
  <2>5. QED
    BY <2>3, <2>4
<1>15. NoOwnerBelow'
  <2>1. 0 \in 0..(n - 1)
    BY <1>1
  <2>2. CASE n - 1 # 0
    BY <2>1, <2>2, <1>6 DEF TierInv, NoOwnerBelow
  <2>3. CASE n - 1 = 0
    <3>1. n = 1
      BY <2>3, <1>1
    <3>2. QED
      BY <2>3, <3>1, <1>7, <1>8 DEF TierInv, NoOwnerBelow
  <2>4. QED
    BY <2>2, <2>3
<1>16. QED
  BY <1>2, <1>9, <1>11, <1>13, <1>14, <1>15

\* A side exit changes the mode of the activation it leaves, to "resumed" only
\* when that activation is the owner.
LEMMA SideExitKeepsStack ==
  ASSUME TierInv, SideExit
  PROVE  /\ stack' \in Seq(Frame)
         /\ OwnersAreCompiled' /\ FramesAreCompiled' /\ ResumedIsOwner' /\ NoOwnerBelow'
<1> DEFINE n == Len(stack)
           m == IF cur_jit_function = Top.decl THEN "resumed" ELSE "lost"
<1>1. stack \in Seq(Frame) /\ n \in Nat
  BY DEF TierInv, TypeOK
<1>2. stack # <<>> /\ Top = stack[n] /\ stack[n].mode = "compiled"
  BY DEF SideExit, InCompiledCode, TopMode, Top
<1>3. n \in 1..n /\ 0 \in 0..n
  BY <1>1, <1>2
<1>4. /\ stack' = [stack EXCEPT ![n].mode = m]
      /\ cur_jit_function' = cur_jit_function /\ versions' = versions
  BY DEF SideExit, code
<1>5. m \in {"resumed", "lost"} /\ (m = "resumed" => cur_jit_function = stack[n].decl)
  BY <1>2
<1> HIDE DEF m
<1>6. stack[n] \in Frame
  BY <1>1, <1>3
<1>7. [stack[n] EXCEPT !.mode = m] \in Frame
  BY <1>5, <1>6 DEF Frame
<1>8. /\ stack' \in Seq(Frame) /\ Len(stack') = n
      /\ stack'[n] = [stack[n] EXCEPT !.mode = m]
      /\ \A j \in 1..n : j # n => stack'[j] = stack[j]
  BY <1>1, <1>3, <1>4, <1>7
<1>9. ASSUME NEW j \in 1..n
      PROVE  /\ stack'[j].decl = stack[j].decl /\ stack'[j].entry = stack[j].entry
             /\ stack'[j].saved = stack[j].saved /\ stack'[j].kind = stack[j].kind
             /\ (stack'[j].mode = "interpreted") <=> (stack[j].mode = "interpreted")
             /\ stack'[j].mode = "resumed"
                  => stack[j].mode = "resumed" \/ (j = n /\ cur_jit_function = stack[j].decl)
  <2>1. CASE j = n
    BY <2>1, <1>2, <1>5, <1>6, <1>8 DEF Frame
  <2>2. CASE j # n
    BY <2>2, <1>8
  <2>3. QED
    BY <2>1, <2>2
<1>10. \A i \in 0..n : OwnerAt(i)' = OwnerAt(i)
  <2>1. SUFFICES ASSUME NEW i \in 0..n PROVE OwnerAt(i)' = OwnerAt(i)
    OBVIOUS
  <2>2. CASE i = n
    BY <2>2, <1>4, <1>8 DEF OwnerAt
  <2>3. CASE i # n
    <3>1. i + 1 \in 1..n
      BY <2>3, <1>1
    <3>2. QED
      BY <2>3, <3>1, <1>8, <1>9 DEF OwnerAt
  <2>4. QED
    BY <2>2, <2>3
<1>11. OwnersAreCompiled' /\ NoOwnerBelow'
  BY <1>3, <1>4, <1>8, <1>10 DEF TierInv, OwnersAreCompiled, NoOwnerBelow
<1>12. FramesAreCompiled'
  BY <1>4, <1>8, <1>9 DEF TierInv, FramesAreCompiled
<1>13. ResumedIsOwner'
  <2>1. SUFFICES ASSUME NEW i \in 1..n, stack'[i].mode = "resumed"
                 PROVE  OwnerAt(i)' = stack'[i].decl
    BY <1>8 DEF ResumedIsOwner
  <2>2. i \in 0..n
    BY <1>1
  <2>3. CASE stack[i].mode = "resumed"
    BY <2>2, <2>3, <1>9, <1>10 DEF TierInv, ResumedIsOwner
  <2>4. CASE i = n /\ cur_jit_function = stack[i].decl
    BY <2>2, <2>4, <1>9, <1>10 DEF OwnerAt
  <2>5. QED
    BY <2>1, <2>3, <2>4, <1>9
<1>14. QED
  BY <1>8, <1>11, <1>12, <1>13

\* A compilation below the bound counts one more version.
LEMMA CompileKeepsCode ==
  ASSUME TierInv, NEW e \in Entries, NEW b \in BOOLEAN, Compile(e, b),
         versions[DeclOf[e]] < MaxVersions
  PROVE  /\ invoke' \in [Entries -> Version] /\ compiledClosure' \in [Decls -> Version]
         /\ stackmaps' \in [Decls -> Version] /\ versions' \in [Decls -> Version]
         /\ CodeIsCounted'
         /\ versions'[DeclOf[e]] = versions[DeclOf[e]] + 1
         /\ \A d \in Decls \ {DeclOf[e]} : versions'[d] = versions[d]
         /\ \A d \in Decls : versions[d] > 0 => versions'[d] > 0
         /\ versions'[DeclOf[e]] \in Version /\ versions'[DeclOf[e]] > 0
<1> DEFINE d == DeclOf[e]
           v == versions[d] + 1
<1>1. /\ d \in Decls /\ versions \in [Decls -> Version] /\ invoke \in [Entries -> Version]
      /\ compiledClosure \in [Decls -> Version] /\ stackmaps \in [Decls -> Version]
      /\ MaxVersions \in Nat /\ DeclOf \in [Entries -> Decls]
  BY TieringAssumption DEF TierInv, TypeOK
<1>2. v \in Version /\ v > 0 /\ v > versions[d]
  BY <1>1 DEF Version
<1>3. /\ versions' = [versions EXCEPT ![d] = v] /\ stackmaps' = [stackmaps EXCEPT ![d] = v]
      /\ invoke' = [invoke EXCEPT ![e] = v]
      /\ compiledClosure' = IF b THEN [compiledClosure EXCEPT ![d] = v] ELSE compiledClosure
  BY DEF Compile
<1>4. \A c \in Entries : invoke[c] <= versions[DeclOf[c]]
  BY DEF TierInv, CodeIsCounted
<1>5. \A x \in Decls : compiledClosure[x] <= versions[x]
  BY DEF TierInv, CodeIsCounted
<1> HIDE DEF d, v
<1>6. /\ versions' \in [Decls -> Version] /\ versions'[d] = v
      /\ \A x \in Decls \ {d} : versions'[x] = versions[x]
  BY <1>1, <1>2, <1>3
<1>7. stackmaps' \in [Decls -> Version]
  BY <1>1, <1>2, <1>3
<1>8. /\ invoke' \in [Entries -> Version] /\ invoke'[e] = v
      /\ \A c \in Entries : c # e => invoke'[c] = invoke[c]
  BY <1>1, <1>2, <1>3
<1>9. /\ compiledClosure' \in [Decls -> Version]
      /\ compiledClosure'[d] = v \/ compiledClosure'[d] = compiledClosure[d]
      /\ \A x \in Decls \ {d} : compiledClosure'[x] = compiledClosure[x]
  <2>1. CASE b
    BY <2>1, <1>1, <1>2, <1>3
  <2>2. CASE ~b
    BY <2>2, <1>1, <1>3
  <2>3. QED
    BY <2>1, <2>2
<1>10. \A x \in Decls : versions[x] <= versions'[x] /\ versions[x] \in Nat /\ versions'[x] \in Nat
  <2>1. SUFFICES ASSUME NEW x \in Decls
                 PROVE  versions[x] <= versions'[x] /\ versions[x] \in Nat /\ versions'[x] \in Nat
    OBVIOUS
  <2>2. versions[x] \in Nat /\ v \in Nat
    BY <1>1, <1>2 DEF Version
  <2>3. CASE x = d
    BY <2>2, <2>3, <1>2, <1>6
  <2>4. CASE x # d
    BY <2>2, <2>4, <1>6
  <2>5. QED
    BY <2>3, <2>4
<1>11. \A c \in Entries : invoke'[c] <= versions'[DeclOf[c]]
  <2>1. SUFFICES ASSUME NEW c \in Entries PROVE invoke'[c] <= versions'[DeclOf[c]]
    OBVIOUS
  <2>2. DeclOf[c] \in Decls /\ invoke[c] \in Nat /\ v \in Nat
    BY <1>1, <1>2 DEF Version
  <2>3. CASE c = e
    BY <2>2, <2>3, <1>6, <1>8 DEF d
  <2>4. CASE c # e
    BY <2>2, <2>4, <1>4, <1>8, <1>10
  <2>5. QED
    BY <2>3, <2>4
<1>12. \A x \in Decls : compiledClosure'[x] <= versions'[x]
  <2>1. SUFFICES ASSUME NEW x \in Decls PROVE compiledClosure'[x] <= versions'[x]
    OBVIOUS
  <2>2. compiledClosure[x] \in Nat /\ v \in Nat
    BY <1>1, <1>2 DEF Version
  <2>3. CASE x = d
    BY <2>2, <2>3, <1>5, <1>6, <1>9, <1>10
  <2>4. CASE x # d
    BY <2>2, <2>4, <1>5, <1>6, <1>9
  <2>5. QED
    BY <2>3, <2>4
<1>13. \A x \in Decls : versions[x] > 0 => versions'[x] > 0
  BY <1>10
<1>14. QED
  BY <1>2, <1>6, <1>7, <1>8, <1>9, <1>11, <1>12, <1>13 DEF CodeIsCounted, d, v

\* The counter saturates just above the threshold and never falls.
LEMMA CountTypes ==
  ASSUME TierInv, NEW d \in Decls, CountExecution(d)
  PROVE  /\ executionCount' \in [Decls -> 0..(CompileThreshold + 1)]
         /\ executionCount'[d] >= executionCount[d]
         /\ executionCount[d] + 1 = CompileThreshold => executionCount'[d] = CompileThreshold
         /\ \A x \in Decls : executionCount'[x] < CompileThreshold => executionCount[x] < CompileThreshold
<1>1. executionCount \in [Decls -> 0..(CompileThreshold + 1)] /\ CompileThreshold \in Nat
  BY TieringAssumption DEF TierInv, TypeOK
<1> DEFINE c == executionCount[d]
           k == IF c > CompileThreshold THEN c ELSE c + 1
<1>2. /\ k \in 0..(CompileThreshold + 1) /\ k >= c
      /\ c + 1 = CompileThreshold => k = CompileThreshold
  <2>1. c \in 0..(CompileThreshold + 1)
    BY <1>1
  <2>2. QED
    BY <2>1, <1>1
<1>3. executionCount' = [executionCount EXCEPT ![d] = k]
  BY DEF CountExecution
<1> HIDE DEF k
<1>4. executionCount'[d] = k /\ executionCount' \in [Decls -> 0..(CompileThreshold + 1)]
  BY <1>1, <1>2, <1>3
<1>5. \A x \in Decls : x # d => executionCount'[x] = executionCount[x]
  BY <1>1, <1>3
<1>6. \A x \in Decls : executionCount'[x] < CompileThreshold => executionCount[x] < CompileThreshold
  <2>1. SUFFICES ASSUME NEW x \in Decls, executionCount'[x] < CompileThreshold
                 PROVE  executionCount[x] < CompileThreshold
    OBVIOUS
  <2>2. CASE x = d
    <3>1. c \in Nat /\ k \in Nat
      BY <1>1, <1>2
    <3>2. QED
      BY <2>1, <2>2, <3>1, <1>1, <1>2, <1>4
  <2>3. CASE x # d
    BY <2>1, <2>3, <1>5
  <2>4. QED
    BY <2>2, <2>3
<1>7. QED
  BY <1>2, <1>4, <1>6

\* The four ways to enter a function: only the first compilation of a cold
\* function and a flagged one count a version.
LEMMA EnterKeepsTier ==
  ASSUME TierInv, NEW e \in Entries, NEW kind \in {"call", "operator"}, Enter(e, kind),
         applied' \in BOOLEAN
  PROVE  TierInv'
<1> DEFINE d == DeclOf[e]
<1>1. /\ d \in Decls /\ versions \in [Decls -> Version] /\ invoke \in [Entries -> Version]
      /\ compiledClosure \in [Decls -> Version] /\ created \in SUBSET Closures
      /\ recompile \in SUBSET Decls /\ MaxVersions \in Nat \ {0}
      /\ CompileThreshold \in Nat \ {0} /\ created' = created
      /\ executionCount \in [Decls -> 0..(CompileThreshold + 1)]
  BY TieringAssumption DEF TierInv, TypeOK, Enter
<1>2. /\ invoke[e] \in Version /\ invoke[e] \in Nat /\ compiledClosure[d] \in Version
      /\ compiledClosure[d] \in Nat /\ versions[d] \in Nat /\ 0 \in Version
      /\ executionCount[d] \in Nat
  BY <1>1 DEF Version
<1>3. invoke[e] <= versions[d] /\ compiledClosure[d] <= versions[d]
  BY <1>1 DEF TierInv, CodeIsCounted
<1>4. Trampolined(kind) \in {"call", "operator", "trampolined"}
  BY DEF Trampolined
<1>5. ASSUME UNCHANGED code, UNCHANGED recompile,
             executionCount' = executionCount \/ CountExecution(d),
             /\ stack' \in Seq(Frame) /\ cur_jit_function' \in Decls \cup {None}
             /\ OwnersAreCompiled' /\ FramesAreCompiled' /\ ResumedIsOwner' /\ NoOwnerBelow'
      PROVE  TierInv'
  <2>1. /\ executionCount' \in [Decls -> 0..(CompileThreshold + 1)]
        /\ \A x \in Decls : executionCount'[x] < CompileThreshold => executionCount[x] < CompileThreshold
    BY <1>1, <1>5, CountTypes
  <2>2. TypeOK'
    BY <1>1, <1>5, <2>1 DEF TierInv, TypeOK, code
  <2>3. CodeIsCounted' /\ FlagIsOnCode'
    BY <1>5 DEF TierInv, CodeIsCounted, FlagIsOnCode, code
  <2>4. ColdIsNotCompiled'
    BY <1>5, <2>1 DEF TierInv, ColdIsNotCompiled, code
  <2>5. QED
    BY <1>5, <2>2, <2>3, <2>4 DEF TierInv
<1>6. CASE EnterCode(e, kind) /\ UNCHANGED recompile
  <2>1. /\ Push(e, "compiled", invoke[e], kind) /\ cur_jit_function' = d /\ invoke[e] > 0
        /\ UNCHANGED code /\ UNCHANGED executionCount
    BY <1>6 DEF EnterCode
  <2>2. versions' = versions /\ versions'[d] > 0
    BY <1>2, <1>3, <2>1 DEF code
  <2>3. /\ stack' \in Seq(Frame) /\ cur_jit_function' \in Decls \cup {None}
        /\ OwnersAreCompiled' /\ FramesAreCompiled' /\ ResumedIsOwner' /\ NoOwnerBelow'
    BY <1>2, <2>1, <2>2, PushKeepsStack
  <2>4. QED
    BY <1>5, <1>6, <2>1, <2>3
<1>7. CASE EnterOtherCode(e, kind) /\ UNCHANGED recompile
  <2>1. /\ Push(e, "compiled", compiledClosure[d], Trampolined(kind)) /\ cur_jit_function' = d
        /\ compiledClosure[d] > 0 /\ UNCHANGED code /\ CountExecution(d)
    BY <1>7 DEF EnterOtherCode
  <2>2. versions' = versions /\ versions'[d] > 0
    BY <1>2, <1>3, <2>1 DEF code
  <2>3. /\ stack' \in Seq(Frame) /\ cur_jit_function' \in Decls \cup {None}
        /\ OwnersAreCompiled' /\ FramesAreCompiled' /\ ResumedIsOwner' /\ NoOwnerBelow'
    BY <1>2, <1>4, <2>1, <2>2, PushKeepsStack
  <2>4. QED
    BY <1>5, <1>7, <2>1, <2>3
<1>8. CASE EnterInterpreted(e, kind) /\ UNCHANGED recompile
  <2>1. /\ Push(e, "interpreted", 0, kind) /\ cur_jit_function' = cur_jit_function
        /\ UNCHANGED code /\ CountExecution(d) /\ "interpreted" # "compiled"
        /\ kind # "trampolined"
    BY <1>8 DEF EnterInterpreted
  <2>2. versions' = versions
    BY <2>1 DEF code
  <2>3. kind \in {"call", "operator", "trampolined"}
    OBVIOUS
  <2>4. /\ stack' \in Seq(Frame) /\ cur_jit_function' \in Decls \cup {None}
        /\ OwnersAreCompiled' /\ FramesAreCompiled' /\ ResumedIsOwner' /\ NoOwnerBelow'
    BY <1>2, <2>1, <2>2, <2>3, PushKeepsStack
  <2>5. QED
    BY <1>5, <1>8, <2>1, <2>4
<1>9. CASE EnterAndCompile(e, kind) /\ recompile' = recompile \ {d}
  <2>1. /\ Push(e, "compiled", versions[d] + 1, Trampolined(kind)) /\ cur_jit_function' = d
        /\ Compile(e, TRUE) /\ CountExecution(d) /\ Hot(d)
    BY <1>9 DEF EnterAndCompile
  <2>2. versions[d] < MaxVersions
    <3>1. CASE d \in recompile
      BY <3>1 DEF TierInv, FlagIsOnCode
    <3>2. CASE executionCount[d] + 1 = CompileThreshold
      <4>1. executionCount[d] < CompileThreshold
        BY <3>2, <1>1, <1>2
      <4>2. versions[d] = 0
        BY <4>1, <1>1 DEF TierInv, ColdIsNotCompiled
      <4>3. QED
        BY <4>2, <1>1
    <3>3. QED
      BY <2>1, <3>1, <3>2 DEF Hot
  <2>3. /\ invoke' \in [Entries -> Version] /\ compiledClosure' \in [Decls -> Version]
        /\ stackmaps' \in [Decls -> Version] /\ versions' \in [Decls -> Version]
        /\ CodeIsCounted' /\ versions'[d] = versions[d] + 1
        /\ \A x \in Decls \ {d} : versions'[x] = versions[x]
        /\ \A x \in Decls : versions[x] > 0 => versions'[x] > 0
        /\ versions'[d] \in Version /\ versions'[d] > 0
    BY <2>1, <2>2, CompileKeepsCode
  <2>4. /\ stack' \in Seq(Frame) /\ cur_jit_function' \in Decls \cup {None}
        /\ OwnersAreCompiled' /\ FramesAreCompiled' /\ ResumedIsOwner' /\ NoOwnerBelow'
    BY <1>4, <2>1, <2>3, PushKeepsStack
  <2>5. /\ executionCount' \in [Decls -> 0..(CompileThreshold + 1)]
        /\ executionCount'[d] >= executionCount[d]
        /\ executionCount[d] + 1 = CompileThreshold => executionCount'[d] = CompileThreshold
        /\ \A x \in Decls : executionCount'[x] < CompileThreshold => executionCount[x] < CompileThreshold
    BY <1>1, <2>1, CountTypes
  <2>6. TypeOK'
    BY <1>1, <1>9, <2>3, <2>4, <2>5 DEF TypeOK
  <2>7. FlagIsOnCode'
    BY <1>1, <1>9, <2>3 DEF TierInv, FlagIsOnCode
  <2>8. ColdIsNotCompiled'
    <3>1. SUFFICES ASSUME NEW x \in Decls, executionCount'[x] < CompileThreshold
                   PROVE  versions'[x] = 0
      BY DEF ColdIsNotCompiled
    <3>2. versions[x] = 0
      BY <2>5, <3>1 DEF TierInv, ColdIsNotCompiled
    <3>3. x # d
      <4>1. SUFFICES ASSUME x = d PROVE FALSE
        OBVIOUS
      <4>2. d \notin recompile
        BY <3>2, <4>1 DEF TierInv, FlagIsOnCode
      <4>3. executionCount'[d] = CompileThreshold
        BY <2>1, <2>5, <4>2 DEF Hot
      <4>4. QED
        BY <3>1, <4>1, <4>3, <1>1
    <3>4. QED
      BY <2>3, <3>2, <3>3
  <2>9. QED
    BY <2>3, <2>4, <2>6, <2>7, <2>8 DEF TierInv
<1>10. QED
  BY <1>6, <1>7, <1>8, <1>9 DEF Enter

LEMMA InitTierInv == Init => TierInv
<1>1. SUFFICES ASSUME Init PROVE TierInv
  OBVIOUS
<1>2. stack = <<>> /\ Len(stack) = 0 /\ cur_jit_function = None
  BY <1>1 DEF Init
<1>3. TypeOK
  <2>1. 0 \in Version /\ 0 \in 0..(CompileThreshold + 1)
    BY TieringAssumption DEF Version
  <2>2. stack \in Seq(Frame)
    BY <1>2
  <2>3. QED
    BY <1>1, <2>1, <2>2 DEF Init, TypeOK
<1>4. CodeIsCounted /\ FlagIsOnCode /\ ColdIsNotCompiled
  BY <1>1, TieringAssumption DEF Init, CodeIsCounted, FlagIsOnCode, ColdIsNotCompiled
<1>5. OwnersAreCompiled /\ NoOwnerBelow
  BY <1>2 DEF OwnersAreCompiled, NoOwnerBelow, OwnerAt
<1>6. FramesAreCompiled /\ ResumedIsOwner
  BY <1>2 DEF FramesAreCompiled, ResumedIsOwner
<1>7. QED
  BY <1>3, <1>4, <1>5, <1>6 DEF TierInv

LEMMA NextTierInv ==
  ASSUME TierInv, [Next]_vars
  PROVE  TierInv'
<1>1. CASE \E e \in Entries : InterpreterCalls(e) \/ CompiledCodeCalls(e) \/ CompiledCodeApplies(e)
  <2>1. PICK e \in Entries : Enter(e, "call") \/ Enter(e, "operator")
    BY <1>1 DEF InterpreterCalls, CompiledCodeCalls, CompiledCodeApplies
  <2>2. applied' \in BOOLEAN
    BY <1>1 DEF InterpreterCalls, CompiledCodeCalls, CompiledCodeApplies, TierInv, TypeOK
  <2>3. QED
    BY <2>1, <2>2, EnterKeepsTier
<1>2. CASE \E e \in Entries : CreateClosure(e)
  <2>1. PICK e \in Entries : CreateClosure(e)
    BY <1>2
  <2>2. /\ UNCHANGED <<compiledClosure, stackmaps, versions, executionCount, recompile,
                       cur_jit_function, stack, applied>>
        /\ created' = created \cup {e} /\ e \in Closures
    BY <2>1 DEF CreateClosure
  <2>3. /\ DeclOf[e] \in Decls /\ compiledClosure[DeclOf[e]] \in Version
        /\ compiledClosure[DeclOf[e]] <= versions[DeclOf[e]] /\ versions[DeclOf[e]] \in Version
    BY TieringAssumption DEF TierInv, TypeOK, CodeIsCounted
  <2>4. PICK v \in 0..compiledClosure[DeclOf[e]] : invoke' = [invoke EXCEPT ![e] = v]
    BY <2>1, <2>3 DEF CreateClosure, Version
  <2>5. v \in Version /\ v <= versions[DeclOf[e]]
    BY <2>3, TieringAssumption DEF Version
  <2>6. invoke \in [Entries -> Version]
    BY DEF TierInv, TypeOK
  <2>7. invoke' \in [Entries -> Version]
    BY <2>4, <2>5, <2>6
  <2>8. TypeOK'
    BY <2>2, <2>7 DEF TierInv, TypeOK
  <2>9. CodeIsCounted'
    <3>1. \A c \in Entries : invoke'[c] <= versions'[DeclOf[c]]
      BY <2>2, <2>4, <2>5, <2>6 DEF TierInv, CodeIsCounted
    <3>2. QED
      BY <2>2, <3>1 DEF TierInv, CodeIsCounted
  <2>10. QED
    BY <2>2, <2>8, <2>9 DEF TierInv, FlagIsOnCode, ColdIsNotCompiled, OwnersAreCompiled,
                            FramesAreCompiled, ResumedIsOwner, NoOwnerBelow, OwnerAt
<1>3. CASE RequestRecompile
  <2>1. /\ UNCHANGED <<code, created, executionCount, cur_jit_function, stack, applied>>
        /\ recompile' = recompile \cup {cur_jit_function} /\ cur_jit_function # None
        /\ versions[cur_jit_function] < MaxVersions
    BY <1>3 DEF RequestRecompile
  <2>2. cur_jit_function \in Decls
    BY <2>1 DEF TierInv, TypeOK
  <2>3. versions[cur_jit_function] > 0
    <3>1. Len(stack) \in 0..Len(stack) /\ OwnerAt(Len(stack)) = cur_jit_function
      BY DEF TierInv, TypeOK, OwnerAt
    <3>2. QED
      BY <2>1, <3>1 DEF TierInv, OwnersAreCompiled
  <2>4. TypeOK' /\ FlagIsOnCode'
    BY <2>1, <2>2, <2>3 DEF TierInv, TypeOK, FlagIsOnCode, code
  <2>5. QED
    BY <2>1, <2>4 DEF TierInv, CodeIsCounted, ColdIsNotCompiled, OwnersAreCompiled,
                      FramesAreCompiled, ResumedIsOwner, NoOwnerBelow, OwnerAt, code
<1>4. CASE SideExit
  <2>1. UNCHANGED <<code, created, executionCount, recompile, cur_jit_function, applied>>
    BY <1>4 DEF SideExit
  <2>2. /\ stack' \in Seq(Frame)
        /\ OwnersAreCompiled' /\ FramesAreCompiled' /\ ResumedIsOwner' /\ NoOwnerBelow'
    BY <1>4, SideExitKeepsStack
  <2>3. QED
    BY <2>1, <2>2 DEF TierInv, TypeOK, CodeIsCounted, FlagIsOnCode, ColdIsNotCompiled, code
<1>5. CASE Return
  <2>1. /\ UNCHANGED <<code, created, executionCount, recompile>>
        /\ stack # <<>> /\ Pop /\ Restore /\ applied' \in BOOLEAN
    BY <1>5 DEF Return, Pop
  <2>2. versions' = versions
    BY <2>1 DEF code
  <2>3. /\ stack' \in Seq(Frame) /\ cur_jit_function' \in Decls \cup {None}
        /\ OwnersAreCompiled' /\ FramesAreCompiled' /\ ResumedIsOwner' /\ NoOwnerBelow'
    BY <2>1, <2>2, PopKeepsStack
  <2>4. QED
    BY <2>1, <2>3 DEF TierInv, TypeOK, CodeIsCounted, FlagIsOnCode, ColdIsNotCompiled, code
<1>6. CASE ReturnAndRecompile
  <2> DEFINE e == Top.entry
             d == DeclOf[e]
             n == Len(stack)
  <2>1. /\ UNCHANGED <<created, executionCount>> /\ stack # <<>> /\ Pop /\ Restore
        /\ Compile(e, e \in Closures) /\ recompile' = recompile \ {cur_jit_function}
        /\ Top.mode = "resumed" /\ cur_jit_function \in recompile /\ applied' \in BOOLEAN
    BY <1>6 DEF ReturnAndRecompile, Pop
  <2>2. n \in 1..n /\ Top = stack[n] /\ Top \in Frame
    BY <2>1 DEF TierInv, TypeOK, Top
  <2>3. e \in Entries /\ (e \in Closures) \in BOOLEAN
    BY <2>2 DEF Frame
  <2>4. cur_jit_function = d
    <3>1. OwnerAt(n) = Top.decl
      BY <2>1, <2>2 DEF TierInv, ResumedIsOwner
    <3>2. Top.decl = d
      BY <2>2 DEF TierInv, FramesAreCompiled
    <3>3. QED
      BY <3>1, <3>2 DEF OwnerAt
  <2>5. versions[d] < MaxVersions
    BY <2>1, <2>4 DEF TierInv, FlagIsOnCode
  <2> HIDE DEF e
  <2>6. /\ invoke' \in [Entries -> Version] /\ compiledClosure' \in [Decls -> Version]
        /\ stackmaps' \in [Decls -> Version] /\ versions' \in [Decls -> Version]
        /\ CodeIsCounted' /\ versions'[d] > 0
        /\ \A x \in Decls \ {d} : versions'[x] = versions[x]
        /\ \A x \in Decls : versions[x] > 0 => versions'[x] > 0
    BY <2>1, <2>3, <2>5, CompileKeepsCode
  <2>7. /\ stack' \in Seq(Frame) /\ cur_jit_function' \in Decls \cup {None}
        /\ OwnersAreCompiled' /\ FramesAreCompiled' /\ ResumedIsOwner' /\ NoOwnerBelow'
    BY <2>1, <2>6, PopKeepsStack
  <2>8. recompile \in SUBSET Decls /\ d \in Decls
    BY <2>3, TieringAssumption DEF TierInv, TypeOK
  <2>9. TypeOK'
    BY <2>1, <2>6, <2>7, <2>8 DEF TierInv, TypeOK
  <2>10. FlagIsOnCode'
    BY <2>1, <2>4, <2>6, <2>8 DEF TierInv, FlagIsOnCode
  <2>11. ColdIsNotCompiled'
    <3>1. versions[d] > 0
      BY <2>1, <2>4 DEF TierInv, FlagIsOnCode
    <3>2. SUFFICES ASSUME NEW x \in Decls, executionCount'[x] < CompileThreshold
                   PROVE  versions'[x] = 0
      BY DEF ColdIsNotCompiled
    <3>3. versions[x] = 0
      BY <2>1, <3>2 DEF TierInv, ColdIsNotCompiled
    <3>4. x # d
      BY <3>1, <3>3
    <3>5. QED
      BY <2>6, <3>3, <3>4
  <2>12. QED
    BY <2>6, <2>7, <2>9, <2>10, <2>11 DEF TierInv
<1>7. CASE UNCHANGED vars
  BY <1>7 DEF vars, code, TierInv, TypeOK, CodeIsCounted, FlagIsOnCode, ColdIsNotCompiled,
              OwnersAreCompiled, FramesAreCompiled, ResumedIsOwner, NoOwnerBelow, OwnerAt
<1>8. QED
  BY <1>1, <1>2, <1>3, <1>4, <1>5, <1>6, <1>7 DEF Next

\* The types: in particular no declaration is compiled more often than it was
\* asked for, since a flag is set and carried out on the same declaration.
THEOREM TieringTypes == Spec => []TypeOK
<1>1. TierInv => TypeOK
  BY DEF TierInv
<1>2. TierInv /\ [Next]_vars => TierInv'
  BY NextTierInv
<1>3. QED
  BY <1>1, <1>2, InitTierInv, PTL DEF Spec

\* Between two top-level statements cur_jit_function is null, so the next one
\* starts like the first, even after overloaded operators have left the wrong
\* declaration in it on the way.
THEOREM TopLevelIsClean == Spec => []TopLevelHasNoOwner
<1>1. ASSUME TierInv PROVE TopLevelHasNoOwner
  <2>1. SUFFICES ASSUME stack = <<>> PROVE cur_jit_function = None
    BY DEF TopLevelHasNoOwner
  <2>2. Len(stack) = 0
    BY <2>1
  <2>3. QED
    BY <1>1, <2>2 DEF TierInv, NoOwnerBelow, OwnerAt
<1>2. TierInv /\ [Next]_vars => TierInv'
  BY NextTierInv
<1>3. QED
  BY <1>1, <1>2, InitTierInv, PTL DEF Spec

\* Entering a function compiles a declaration that has code only if it is
\* flagged: the counter equals the threshold once, at the first compilation.
LEMMA EnterCompilesOnRequest ==
  ASSUME TierInv, NEW e \in Entries, NEW kind, Enter(e, kind), NEW d \in Decls,
         versions'[d] # versions[d]
  PROVE  versions[d] = 0 \/ d \in recompile
<1>1. EnterAndCompile(e, kind)
  BY DEF Enter, EnterCode, EnterOtherCode, EnterInterpreted, code
<1>2. DeclOf[e] \in Decls /\ versions \in [Decls -> Version]
  BY TieringAssumption DEF TierInv, TypeOK
<1>3. d = DeclOf[e]
  BY <1>1, <1>2 DEF EnterAndCompile, Compile
<1>4. CASE d \in recompile
  BY <1>4
<1>5. CASE executionCount[d] + 1 = CompileThreshold
  <2>1. executionCount[d] \in Nat /\ CompileThreshold \in Nat
    BY TieringAssumption DEF TierInv, TypeOK
  <2>2. executionCount[d] < CompileThreshold
    BY <1>5, <2>1
  <2>3. QED
    BY <2>2 DEF TierInv, ColdIsNotCompiled
<1>6. QED
  BY <1>1, <1>3, <1>4, <1>5 DEF EnterAndCompile, Hot

\* A declaration that has code is compiled again only when a call site has set
\* its flag, whatever mix of slots, closure objects, operators and resumptions
\* enters and leaves it: the tier-up of interpretMethod and interpretClosure
\* happens once.
THEOREM RecompilationIsRequested == Spec => CompilesOnlyOnRequest
<1> DEFINE Requested == \A d \in Decls : versions'[d] # versions[d]
                                          => versions[d] = 0 \/ d \in recompile
<1>1. ASSUME TierInv, [Next]_vars PROVE Requested
  <2>1. SUFFICES ASSUME NEW d \in Decls, versions'[d] # versions[d]
                 PROVE  versions[d] = 0 \/ d \in recompile
    OBVIOUS
  <2>2. CASE \E e \in Entries : InterpreterCalls(e) \/ CompiledCodeCalls(e) \/ CompiledCodeApplies(e)
    <3>1. PICK e \in Entries : Enter(e, "call") \/ Enter(e, "operator")
      BY <2>2 DEF InterpreterCalls, CompiledCodeCalls, CompiledCodeApplies
    <3>2. QED
      BY <1>1, <2>1, <3>1, EnterCompilesOnRequest
  <2>3. CASE ReturnAndRecompile
    <3> DEFINE n == Len(stack)
    <3>1. /\ stack # <<>> /\ Compile(Top.entry, Top.entry \in Closures)
          /\ Top.mode = "resumed" /\ cur_jit_function \in recompile
      BY <2>3 DEF ReturnAndRecompile
    <3>2. n \in 1..n /\ Top = stack[n] /\ Top \in Frame
      BY <1>1, <3>1 DEF TierInv, TypeOK, Top
    <3>3. OwnerAt(n) = Top.decl /\ Top.decl = DeclOf[Top.entry]
      BY <1>1, <3>1, <3>2 DEF TierInv, ResumedIsOwner, FramesAreCompiled
    <3>4. cur_jit_function = DeclOf[Top.entry]
      BY <3>3 DEF OwnerAt
    <3>5. versions \in [Decls -> Version] /\ DeclOf[Top.entry] \in Decls
      BY <1>1, <3>2, TieringAssumption DEF TierInv, TypeOK, Frame
    <3>6. d = DeclOf[Top.entry]
      BY <2>1, <3>1, <3>5 DEF Compile
    <3>7. QED
      BY <3>1, <3>4, <3>6
  <2>4. CASE (\E e \in Entries : CreateClosure(e)) \/ RequestRecompile \/ SideExit \/ Return
               \/ UNCHANGED vars
    <3>1. versions' = versions
      BY <2>4 DEF CreateClosure, RequestRecompile, SideExit, Return, vars, code
    <3>2. QED
      BY <2>1, <3>1
  <2>5. QED
    BY <1>1, <2>2, <2>3, <2>4 DEF Next
<1>2. TierInv /\ [Next]_vars
        => [\A d \in Decls : versions'[d] # versions[d] => versions[d] = 0 \/ d \in recompile]_vars
  BY <1>1
<1>3. TierInv /\ [Next]_vars => TierInv'
  BY NextTierInv
<1>4. QED
  BY <1>2, <1>3, InitTierInv, PTL DEF Spec, CompilesOnlyOnRequest

-----------------------------------------------------------------------------
(* The owner of the stack: an overloaded operator spoils it only until the  *)
(* top-level statement ends, because the top level is clean.               *)

LEMMA NextOwnerInv ==
  ASSUME ~applied => OwnerInv, TierInv, TierInv', [Next]_vars, ~applied'
  PROVE  OwnerInv'
<1>0. CASE applied
  <2>0. Return \/ ReturnAndRecompile
    <3>1. applied' # applied
      BY <1>0
    <3>2. QED
      BY <1>0, <3>1, Zenon DEF Next, InterpreterCalls, CompiledCodeCalls, CompiledCodeApplies,
         CreateClosure, RequestRecompile, SideExit, vars
  <2>1. stack # <<>> /\ stack' = SubSeq(stack, 1, Len(stack) - 1) /\ applied' = (applied /\ Len(stack) > 1)
    BY <2>0, Zenon DEF Return, ReturnAndRecompile, Pop
  <2>2. stack' = <<>>
    <3>1. ~(Len(stack) > 1)
      BY <1>0, <2>1
    <3>2. stack \in Seq(Frame) /\ stack # <<>>
      BY <2>1 DEF TierInv, TypeOK
    <3>3. Len(stack) \in Nat \ {0}
      BY <3>2
    <3>4. Len(stack) = 1
      <4>1. \A a \in Nat \ {0} : ~(a > 1) => a = 1
        OBVIOUS
      <4>2. QED
        BY <3>1, <3>3, <4>1
    <3>5. QED
      BY <2>1, <3>2, <3>4
  <2>3. cur_jit_function' = None
    BY <2>2 DEF TierInv, NoOwnerBelow, OwnerAt
  <2>4. WeakType'
    <3>1. \A x \in Version : x \in Nat
      BY TieringAssumption DEF Version
    <3>2. /\ invoke' \in [Entries -> Version] /\ compiledClosure' \in [Decls -> Version]
          /\ versions' \in [Decls -> Version]
      BY DEF TierInv, TypeOK
    <3>3. /\ invoke' \in [Entries -> Nat] /\ compiledClosure' \in [Decls -> Nat]
          /\ versions' \in [Decls -> Nat]
      BY <3>1, <3>2
    <3>4. stack' \in Seq(WeakFrame) /\ cur_jit_function' \in Decls \cup {None}
      BY <2>2, <2>3
    <3>5. QED
      BY <3>3, <3>4 DEF WeakType
  <2>5. QED
    BY <2>2, <2>3, <2>4 DEF OwnerInv, OwnerNow, InnermostOwner, SavedIsOwnerBelow, OnlyCalls,
                            NeverLost
<1> SUFFICES ASSUME ~applied PROVE OwnerInv'
  BY <1>0
<1> OwnerInv
  OBVIOUS
<1>1. WeakType
  BY DEF OwnerInv
<1>2. CASE \E e \in Entries : InterpreterCalls(e) \/ CompiledCodeCalls(e) \/ CompiledCodeApplies(e)
  <2>1. PICK e \in Entries : Enter(e, "call")
    BY <1>2 DEF InterpreterCalls, CompiledCodeCalls, CompiledCodeApplies
  <2>2. QED
    BY <2>1, EnterKeepsOwner
<1>3. CASE \E e \in Entries : CreateClosure(e)
  <2>1. PICK e \in Entries : CreateClosure(e)
    BY <1>3
  <2>2. UNCHANGED <<compiledClosure, versions, cur_jit_function, stack>>
    BY <2>1 DEF CreateClosure
  <2>3. invoke' \in [Entries -> Nat]
    <3>1. DeclOf[e] \in Decls /\ compiledClosure[DeclOf[e]] \in Nat
      BY <1>1, TieringAssumption DEF WeakType
    <3>2. PICK v \in Nat : invoke' = [invoke EXCEPT ![e] = v]
      BY <2>1, <3>1 DEF CreateClosure
    <3>3. QED
      BY <3>2, <1>1 DEF WeakType
  <2>4. WeakType'
    BY <1>1, <2>2, <2>3 DEF WeakType
  <2>5. QED
    BY <2>2, <2>4 DEF OwnerInv, OwnerNow, InnermostOwner, SavedIsOwnerBelow,
                      OnlyCalls, NeverLost
<1>4. CASE RequestRecompile \/ UNCHANGED vars
  <2>1. UNCHANGED <<code, cur_jit_function, stack>>
    BY <1>4 DEF RequestRecompile, vars
  <2>2. WeakType'
    BY <1>1, <2>1 DEF WeakType, code
  <2>3. QED
    BY <2>1, <2>2 DEF OwnerInv, OwnerNow, InnermostOwner, SavedIsOwnerBelow,
                      OnlyCalls, NeverLost
<1>5. CASE SideExit
  <2>1. UNCHANGED <<code, cur_jit_function>>
    BY <1>5 DEF SideExit
  <2>2. QED
    BY <1>1, <1>5, <2>1, SideExitKeepsOwner DEF OwnerInv, WeakType, code
<1>6. CASE Return
  <2>1. stack # <<>> /\ Pop /\ Restore /\ UNCHANGED code
    BY <1>6 DEF Return
  <2>2. QED
    BY <1>1, <2>1, PopKeepsOwner DEF OwnerInv, WeakType, code
<1>7. CASE ReturnAndRecompile
  <2>1. stack # <<>> /\ Pop /\ Restore /\ Compile(Top.entry, Top.entry \in Closures)
    BY <1>7 DEF ReturnAndRecompile
  <2>2. Top.entry \in Entries
    <3>1. Top \in WeakFrame
      BY <1>1, <2>1 DEF WeakType, Top
    <3>2. QED
      BY <3>1 DEF WeakFrame
  <2>3. (Top.entry \in Closures) \in BOOLEAN
    OBVIOUS
  <2>4. /\ invoke' \in [Entries -> Nat] /\ compiledClosure' \in [Decls -> Nat]
        /\ versions' \in [Decls -> Nat]
    BY <1>1, <2>1, <2>2, <2>3, CompileTypes
  <2>5. QED
    BY <2>1, <2>4, PopKeepsOwner DEF OwnerInv, WeakType
<1>8. QED
  BY <1>2, <1>3, <1>4, <1>5, <1>6, <1>7 DEF Next

LEMMA AlwaysOwnerInv == Spec => [](~applied => OwnerInv)
<1>1. Init => (~applied => OwnerInv)
  BY InitOwnerInv
<1>2. TierInv /\ TierInv' /\ (~applied => OwnerInv) /\ [Next]_vars => (~applied => OwnerInv)'
  BY NextOwnerInv
<1>3. TierInv /\ [Next]_vars => TierInv'
  BY NextTierInv
<1>4. QED
  BY <1>1, <1>2, <1>3, InitTierInv, PTL DEF Spec

\* Until compiled code applies an overloaded operator, and again from the next
\* top-level statement on, cur_jit_function is the declaration of the innermost
\* activation that started as compiled code: the stores in the prologue and
\* after calls (compiler.cc) and the saves and restores of do_call and
\* callCompiledClosure never let a side exit look up another function.
THEOREM RuntimeKnowsOwner == Spec => []OwnerIsInnermost
<1>1. (~applied => OwnerInv) => OwnerIsInnermost
  BY DEF OwnerInv, OwnerNow, OwnerIsInnermost
<1>2. QED
  BY <1>1, AlwaysOwnerInv, PTL

\* Hence compiled code that is about to side-exit is the code the runtime takes
\* to be running.
THEOREM SideExitFindsItsFunction == Spec => []OwnerIsRunning
<1>1. ASSUME ~applied => OwnerInv PROVE OwnerIsRunning
  <2>1. SUFFICES ASSUME ~applied, stack # <<>>, Top.mode = "compiled"
                 PROVE  cur_jit_function = Top.decl
    BY DEF OwnerIsRunning, InCompiledCode, TopMode
  <2>2. Len(stack) \in Nat \ {0}
    BY <1>1, <2>1 DEF OwnerInv, WeakType
  <2>3. InnermostOwner(stack, Len(stack), cur_jit_function)
    BY <1>1, <2>1 DEF OwnerInv, OwnerNow
  <2>4. QED
    BY <2>1, <2>2, <2>3, OwnerOfTop DEF Top
<1>2. QED
  BY <1>1, AlwaysOwnerInv, PTL
=============================================================================
