---------------------------- MODULE ClassesProofs ---------------------------
(***************************************************************************)
(* Method lookup and layouts, for any class declarations in any order:     *)
(* declaring classes, again or not, never changes what a lookup finds, and *)
(* code compiled for one receiver uses the slots that every other receiver *)
(* of the method has.                                                      *)
(***************************************************************************)
EXTENDS Classes, SequenceTheorems, WellFoundedInduction, TLAPS

\* The layout of class c begins with the one of class p.
LayoutExtends(p, c) ==
  /\ Len(classes[p].ivars) <= Len(classes[c].ivars)
  /\ \A i \in 1..Len(classes[p].ivars) : classes[c].ivars[i] = classes[p].ivars[i]

InheritsLayout ==
  \A c \in 1..Len(classes) :
    classes[c].superclass # 0 => LayoutExtends(classes[c].superclass, c)

\* Code is compiled for a class that has the method's layout in front.
CodeFits ==
  \A m \in 1..Len(classes) : \A s \in DOMAIN Uses[classes[m].decl] :
    function[m][s] # 0 => LayoutExtends(m, function[m][s])

SharedCodeFits ==
  \A d \in ClassDecls, s \in Selectors : compiledClosure[d][s] # 0 =>
    \E m \in 1..Len(classes) : classes[m].decl = d /\ LayoutExtends(m, compiledClosure[d][s])

\* The class of the method that was run last, and the class that its code was
\* compiled through, come from one declaration.
AccessFits ==
  access # NoAccess =>
    /\ access.class # 0 /\ access.layout # 0
    /\ \E m, e \in 1..Len(classes) : \E s \in DOMAIN Uses[classes[m].decl] :
         /\ classes[m].decl = classes[e].decl /\ access.var = Uses[classes[m].decl][s]
         /\ LayoutExtends(m, access.class) /\ LayoutExtends(e, access.layout)

ClassesInv == TypeOK /\ InheritsLayout /\ CodeFits /\ SharedCodeFits /\ AccessFits

\* Every method uses a variable that its class declares or inherits, and no
\* class declares a variable that it inherits.
VariablesDeclared ==
  \A c \in 1..Len(classes) :
    /\ \A i, j \in 1..Len(classes[c].ivars) : classes[c].ivars[i] = classes[c].ivars[j] => i = j
    /\ \A s \in DOMAIN Uses[classes[c].decl] :
         \E i \in 1..Len(classes[c].ivars) : classes[c].ivars[i] = Uses[classes[c].decl][s]

-----------------------------------------------------------------------------
(* Walking up the superclasses.                                            *)

\* Every set of numbers that is not empty has a least one.
LEMMA LeastOf ==
  ASSUME NEW T, T \subseteq Nat, T # {}
  PROVE  \E x \in T : \A y \in T : x <= y
<1> DEFINE R == OpToRel(<, Nat)
<1>1. IsWellFoundedOn(R, Nat)
  BY NatLessThanWellFounded
<1>2. \A x, y \in Nat : <<y, x>> \in R <=> y < x
  BY DEF OpToRel
<1> HIDE DEF R
<1>3. PICK x \in T : \A y \in T : ~(<<y, x>> \in R)
  BY <1>1, WFMin
<1>4. ASSUME NEW y \in T PROVE x <= y
  <2>1. x \in Nat /\ y \in Nat
    OBVIOUS
  <2>2. ~(y < x)
    BY <1>2, <1>3, <2>1
  <2>3. QED
    BY <2>1, <2>2
<1>5. QED
  BY <1>4

\* f finds, from each of the first n classes upwards, a class in the set
\* having; up gives the superclass of each.
Walks(f, n, up, having) ==
  \A k \in 0..n : f[k] = IF k = 0 \/ k \in having THEN k ELSE f[up[k]]

SameWalk(f, g, n, having) ==
  \A k \in 0..n : f[k] = g[k] /\ f[k] \in 0..k /\ (f[k] # 0 => f[k] \in having)

\* A walk ends at the class it starts from or below, and there is only one.
LEMMA WalksAgree ==
  ASSUME NEW n \in Nat, NEW up, NEW having, \A k \in 1..n : up[k] \in 0..(k - 1),
         NEW f, NEW g, Walks(f, n, up, having), Walks(g, n, up, having)
  PROVE  SameWalk(f, g, n, having)
<1> DEFINE good(k) == f[k] = g[k] /\ f[k] \in 0..k /\ (f[k] # 0 => f[k] \in having)
           bad == {k \in 0..n : ~good(k)}
<1>1. SUFFICES ASSUME bad # {} PROVE FALSE
  BY DEF SameWalk
<1>2. bad \subseteq Nat
  OBVIOUS
<1> HIDE DEF bad
<1>3. PICK k \in bad : \A j \in bad : k <= j
  BY <1>1, <1>2, LeastOf
<1>4. k \in 0..n /\ ~good(k)
  BY DEF bad
<1>5. CASE k = 0 \/ k \in having
  BY <1>4, <1>5 DEF Walks
<1>6. CASE k # 0 /\ k \notin having
  <2>1. k \in 1..n /\ up[k] \in 0..(k - 1)
    BY <1>4, <1>6
  <2>2. up[k] \in 0..n /\ ~(k <= up[k])
    BY <2>1
  <2>3. good(up[k])
    BY <1>3, <2>2 DEF bad
  <2>4. f[k] = f[up[k]] /\ g[k] = g[up[k]]
    BY <1>4, <1>6 DEF Walks
  <2>5. QED
    BY <1>4, <2>1, <2>3, <2>4
<1>7. QED
  BY <1>5, <1>6

\* A walk exists, as a function that refers to itself.
HasWalk(n, up, having) ==
  \E f : f = [k \in 0..n |-> IF k = 0 \/ k \in having THEN k ELSE f[up[k]]]

LEMMA WalkExists ==
  ASSUME NEW n \in Nat, NEW up, NEW having, \A k \in 1..n : up[k] \in 0..(k - 1)
  PROVE  HasWalk(n, up, having)
<1> DEFINE walk(f, m) == f = [k \in 0..m |-> IF k = 0 \/ k \in having THEN k ELSE f[up[k]]]
           bad == {m \in 0..n : ~\E f : walk(f, m)}
<1>1. SUFFICES ASSUME ~\E f : walk(f, n) PROVE FALSE
  BY DEF HasWalk
<1>2. bad \subseteq Nat /\ bad # {}
  <2>1. n \in 0..n
    OBVIOUS
  <2>2. n \in bad
    BY <1>1, <2>1, Zenon
  <2>3. bad \subseteq 0..n /\ 0..n \subseteq Nat
    OBVIOUS
  <2>4. QED
    BY <2>2, <2>3, Zenon
<1> HIDE DEF bad
<1>3. PICK m \in bad : \A j \in bad : m <= j
  BY <1>2, LeastOf
<1>4. m \in 0..n /\ ~\E f : walk(f, m)
  BY DEF bad
<1>5. CASE m = 0
  <2> DEFINE f == [k \in 0..0 |-> 0]
  <2>1. f = [k \in 0..0 |-> IF k = 0 \/ k \in having THEN k ELSE f[up[k]]]
    OBVIOUS
  <2>2. QED
    BY <1>4, <1>5, <2>1
<1>6. CASE m # 0
  <2>1. m - 1 \in 0..n /\ ~(m <= m - 1)
    BY <1>4, <1>6
  <2>2. PICK g : walk(g, m - 1)
    BY <1>3, <2>1 DEF bad
  <2> DEFINE f == [k \in 0..m |-> IF k = 0 \/ k \in having THEN k ELSE g[up[k]]]
  <2>3. ASSUME NEW j \in 0..(m - 1) PROVE f[j] = g[j]
    <3>1. j \in 0..m
      BY <1>4, <1>6, <2>3
    <3>2. f[j] = IF j = 0 \/ j \in having THEN j ELSE g[up[j]]
      BY <3>1
    <3>3. g[j] = IF j = 0 \/ j \in having THEN j ELSE g[up[j]]
      BY <2>2, <2>3
    <3>4. QED
      BY <3>2, <3>3
  <2>4. ASSUME NEW k \in 0..m, k # 0 PROVE g[up[k]] = f[up[k]]
    <3>1. k \in 1..n /\ up[k] \in 0..(k - 1)
      BY <1>4, <2>4
    <3>2. up[k] \in 0..(m - 1)
      BY <1>4, <2>4, <3>1
    <3>3. QED
      BY <2>3, <3>2
  <2>5. \A k \in 0..m : (IF k = 0 \/ k \in having THEN k ELSE g[up[k]])
                          = (IF k = 0 \/ k \in having THEN k ELSE f[up[k]])
    BY <2>4
  <2>6. PICK h : h = f
    OBVIOUS
  <2>7. walk(h, m)
    BY <2>5, <2>6
  <2>8. QED
    BY <1>4, <2>7
<1>7. QED
  BY <1>5, <1>6

-----------------------------------------------------------------------------
(* Method lookup.                                                          *)

\* A superclass is an older structure: there are no cycles.
Acyclic(cs) == cs \in Seq(Class) /\ \A c \in 1..Len(cs) : cs[c].superclass < c

Up(cs) == [k \in 1..Len(cs) |-> cs[k].superclass]
Having(cs, s) == {k \in 1..Len(cs) : s \in DOMAIN Uses[cs[k].decl]}

\* methodForSelector of all classes.
LookupIn(cs, s) ==
  CHOOSE f : f = [k \in 0..Len(cs) |->
                    IF k = 0 \/ s \in DOMAIN Uses[cs[k].decl] THEN k ELSE f[cs[k].superclass]]

LEMMA LookupIsWalk ==
  ASSUME NEW c, NEW s
  PROVE  methodForSelector(c, s) = LookupIn(classes, s)[c]
BY DEF methodForSelector, LookupIn

LEMMA LookupIsWalkAfter ==
  ASSUME NEW CONSTANT c, NEW CONSTANT s
  PROVE  methodForSelector(c, s)' = LookupIn(classes', s)[c]
BY DEF methodForSelector, LookupIn

LEMMA UpIsLower ==
  ASSUME NEW cs, Acyclic(cs)
  PROVE  /\ Len(cs) \in Nat
         /\ \A k \in 1..Len(cs) : Up(cs)[k] \in 0..(k - 1) /\ Up(cs)[k] = cs[k].superclass
<1>1. cs \in Seq(Class) /\ Len(cs) \in Nat
  BY DEF Acyclic
<1>2. ASSUME NEW k \in 1..Len(cs) PROVE Up(cs)[k] \in 0..(k - 1) /\ Up(cs)[k] = cs[k].superclass
  <2>1. cs[k] \in Class /\ cs[k].superclass < k
    BY <1>1, <1>2 DEF Acyclic
  <2>2. cs[k].superclass \in Nat
    BY <2>1 DEF Class
  <2>3. Up(cs)[k] = cs[k].superclass
    BY <1>2 DEF Up
  <2>4. QED
    BY <1>1, <1>2, <2>1, <2>2, <2>3
<1>3. QED
  BY <1>1, <1>2

LEMMA LookupWalks ==
  ASSUME NEW cs, Acyclic(cs), NEW s
  PROVE  Walks(LookupIn(cs, s), Len(cs), Up(cs), Having(cs, s))
<1> DEFINE n == Len(cs)
           body(f, k) == IF k = 0 \/ s \in DOMAIN Uses[cs[k].decl] THEN k ELSE f[cs[k].superclass]
<1>1. n \in Nat /\ \A k \in 1..n : Up(cs)[k] \in 0..(k - 1) /\ Up(cs)[k] = cs[k].superclass
  BY UpIsLower
<1>2. PICK f : f = [k \in 0..n |-> IF k = 0 \/ k \in Having(cs, s) THEN k ELSE f[Up(cs)[k]]]
  <2>1. \A k \in 1..n : Up(cs)[k] \in 0..(k - 1)
    BY <1>1
  <2>2. HasWalk(n, Up(cs), Having(cs, s))
    BY <1>1, <2>1, WalkExists, Zenon
  <2>3. QED
    BY <2>2, Zenon DEF HasWalk
<1>3. ASSUME NEW g, NEW k \in 0..n
      PROVE  (IF k = 0 \/ k \in Having(cs, s) THEN k ELSE g[Up(cs)[k]]) = body(g, k)
  <2>1. CASE k = 0
    BY <2>1
  <2>2. CASE k # 0
    <3>1. k \in 1..n
      BY <1>1, <1>3, <2>2
    <3>2. k \in Having(cs, s) <=> s \in DOMAIN Uses[cs[k].decl]
      BY <3>1 DEF Having
    <3>3. QED
      BY <1>1, <3>1, <3>2
  <2>3. QED
    BY <2>1, <2>2
<1>4. f = [k \in 0..n |-> body(f, k)]
  <2>1. \A k \in 0..n :
          (IF k = 0 \/ k \in Having(cs, s) THEN k ELSE f[Up(cs)[k]]) = body(f, k)
    BY <1>3
  <2> HIDE DEF body
  <2>2. [k \in 0..n |-> IF k = 0 \/ k \in Having(cs, s) THEN k ELSE f[Up(cs)[k]]]
          = [k \in 0..n |-> body(f, k)]
    BY <2>1
  <2>3. QED
    BY <1>2, <2>2
<1>5. LookupIn(cs, s) = [k \in 0..n |-> body(LookupIn(cs, s), k)]
  BY <1>4 DEF LookupIn
<1>6. \A k \in 0..n : LookupIn(cs, s)[k] = body(LookupIn(cs, s), k)
  BY <1>5
<1>7. QED
  BY <1>3, <1>6 DEF Walks

\* More classes change nothing for the ones there are.
LEMMA LookupStays ==
  ASSUME NEW cs, NEW ds, Acyclic(cs), Acyclic(ds), Len(cs) <= Len(ds),
         \A c \in 1..Len(cs) : ds[c] = cs[c], NEW s
  PROVE  \A c \in 0..Len(cs) : LookupIn(ds, s)[c] = LookupIn(cs, s)[c]
<1> DEFINE n == Len(cs)
           f == LookupIn(cs, s)
           g == LookupIn(ds, s)
<1>1. n \in Nat /\ Len(ds) \in Nat /\ \A k \in 1..n : Up(cs)[k] \in 0..(k - 1)
  BY UpIsLower
<1>2. Walks(f, n, Up(cs), Having(cs, s)) /\ Walks(g, Len(ds), Up(ds), Having(ds, s))
  BY LookupWalks
<1>3. ASSUME NEW k \in 0..n
      PROVE  g[k] = IF k = 0 \/ k \in Having(cs, s) THEN k ELSE g[Up(cs)[k]]
  <2>1. k \in 0..Len(ds)
    BY <1>1, <1>3
  <2>2. g[k] = IF k = 0 \/ k \in Having(ds, s) THEN k ELSE g[Up(ds)[k]]
    BY <1>2, <2>1 DEF Walks
  <2>3. k # 0 => (k \in Having(ds, s) <=> k \in Having(cs, s)) /\ Up(ds)[k] = Up(cs)[k]
    <3>1. k # 0 => k \in 1..n /\ k \in 1..Len(ds)
      BY <1>1, <1>3
    <3>2. QED
      BY <3>1 DEF Having, Up
  <2>4. QED
    BY <2>2, <2>3
<1>4. Walks(g, n, Up(cs), Having(cs, s))
  BY <1>3 DEF Walks
<1> HIDE DEF f, g
<1>5. Walks(f, n, Up(cs), Having(cs, s))
  BY <1>2
<1>6. \A c \in 0..n : f[c] = g[c]
  <2>1. \A k \in 1..n : Up(cs)[k] \in 0..(k - 1)
    BY <1>1
  <2>2. n \in Nat
    BY <1>1
  <2>3. SameWalk(f, g, n, Having(cs, s))
    BY <2>1, <2>2, <1>4, <1>5, WalksAgree, Zenon
  <2>4. QED
    BY <2>3 DEF SameWalk
<1>7. QED
  BY <1>6, Zenon DEF f, g

\* What methodForSelector finds has the method, and is no younger.
LEMMA LookupFinds ==
  ASSUME TypeOK, NEW c \in 1..Len(classes), NEW s
  PROVE  /\ methodForSelector(c, s) \in 0..Len(classes)
         /\ methodForSelector(c, s) # 0 =>
              s \in DOMAIN Uses[classes[methodForSelector(c, s)].decl]
<1> DEFINE f == LookupIn(classes, s)
<1>1. Acyclic(classes)
  BY DEF TypeOK, Acyclic
<1>2. Len(classes) \in Nat /\ \A k \in 1..Len(classes) : Up(classes)[k] \in 0..(k - 1)
  BY <1>1, UpIsLower
<1>3. Walks(f, Len(classes), Up(classes), Having(classes, s))
  BY <1>1, LookupWalks
<1>4. methodForSelector(c, s) = f[c]
  BY LookupIsWalk
<1> HIDE DEF f
<1>5. c \in 0..Len(classes)
  BY <1>2
<1>6. f[c] \in 0..c /\ (f[c] # 0 => f[c] \in Having(classes, s))
  <2>1. SameWalk(f, f, Len(classes), Having(classes, s))
    BY <1>2, <1>3, WalksAgree
  <2>2. QED
    BY <1>5, <2>1 DEF SameWalk
<1>7. f[c] \in 0..Len(classes)
  BY <1>2, <1>5, <1>6
<1>8. f[c] # 0 => s \in DOMAIN Uses[classes[f[c]].decl]
  BY <1>6 DEF Having
<1>9. QED
  BY <1>4, <1>7, <1>8

-----------------------------------------------------------------------------
(* Layouts.                                                                *)

LEMMA LayoutType ==
  ASSUME TypeOK, NEW c \in 1..Len(classes)
  PROVE  /\ classes[c] \in Class /\ classes[c].decl \in ClassDecls
         /\ classes[c].ivars \in Seq(STRING) /\ Len(classes[c].ivars) \in Nat
<1>1. classes[c] \in Class
  BY DEF TypeOK
<1>2. QED
  BY <1>1 DEF Class

LEMMA LayoutReflexive ==
  ASSUME TypeOK, NEW c \in 1..Len(classes)
  PROVE  LayoutExtends(c, c)
BY LayoutType DEF LayoutExtends

LEMMA LayoutTransitive ==
  ASSUME TypeOK, NEW p \in 1..Len(classes), NEW q \in 1..Len(classes), NEW c \in 1..Len(classes),
         LayoutExtends(p, q), LayoutExtends(q, c)
  PROVE  LayoutExtends(p, c)
<1>1. /\ Len(classes[p].ivars) \in Nat /\ Len(classes[q].ivars) \in Nat
      /\ Len(classes[c].ivars) \in Nat
  BY LayoutType
<1>2. Len(classes[p].ivars) <= Len(classes[c].ivars)
  BY <1>1 DEF LayoutExtends
<1>3. ASSUME NEW i \in 1..Len(classes[p].ivars)
      PROVE  classes[c].ivars[i] = classes[p].ivars[i]
  <2>1. i \in 1..Len(classes[q].ivars)
    BY <1>1, <1>3 DEF LayoutExtends
  <2>2. QED
    BY <1>3, <2>1 DEF LayoutExtends
<1>4. QED
  BY <1>2, <1>3 DEF LayoutExtends

\* The layout of a receiver begins with the one of the class that has the method.
LEMMA LookupInherits ==
  ASSUME TypeOK, InheritsLayout, NEW c \in 1..Len(classes), NEW s,
         methodForSelector(c, s) # 0
  PROVE  LayoutExtends(methodForSelector(c, s), c)
<1> DEFINE f == LookupIn(classes, s)
           good(k) == f[k] # 0 => LayoutExtends(f[k], k)
           bad == {k \in 1..Len(classes) : ~good(k)}
<1>1. Acyclic(classes)
  BY DEF TypeOK, Acyclic
<1>2. /\ Len(classes) \in Nat
      /\ \A k \in 1..Len(classes) : /\ Up(classes)[k] \in 0..(k - 1)
                                    /\ Up(classes)[k] = classes[k].superclass
  BY <1>1, UpIsLower
<1>3. Walks(f, Len(classes), Up(classes), Having(classes, s))
  BY <1>1, LookupWalks
<1>4. f[c] = methodForSelector(c, s)
  BY LookupIsWalk
<1>5. ASSUME NEW k \in 1..Len(classes) PROVE f[k] = methodForSelector(k, s)
  BY LookupIsWalk
<1> HIDE DEF f
<1>6. ASSUME NEW k \in 1..Len(classes) PROVE f[k] \in 0..Len(classes)
  BY <1>5, LookupFinds
<1>7. SUFFICES ASSUME bad # {} PROVE FALSE
  BY <1>4
<1>8. bad \subseteq Nat
  OBVIOUS
<1> HIDE DEF bad
<1>9. PICK k \in bad : \A j \in bad : k <= j
  BY <1>7, <1>8, LeastOf
<1>10. k \in 1..Len(classes) /\ f[k] # 0 /\ ~LayoutExtends(f[k], k)
  BY DEF bad
<1>11. CASE k \in Having(classes, s)
  <2>1. f[k] = k
    BY <1>2, <1>3, <1>10, <1>11 DEF Walks
  <2>2. QED
    BY <1>10, <2>1, LayoutReflexive
<1>12. CASE k \notin Having(classes, s)
  <2> DEFINE p == classes[k].superclass
  <2>1. p \in 0..(k - 1) /\ f[k] = f[p]
    BY <1>2, <1>3, <1>10, <1>12 DEF Walks
  <2>2. p # 0
    BY <1>2, <1>3, <1>10, <2>1 DEF Walks
  <2>3. p \in 1..Len(classes) /\ ~(k <= p)
    BY <1>2, <1>10, <2>1, <2>2
  <2>4. p \notin bad
    BY <1>9, <2>3
  <2>5. LayoutExtends(f[p], p)
    BY <1>10, <2>1, <2>3, <2>4 DEF bad
  <2>6. LayoutExtends(p, k)
    BY <1>10, <2>2 DEF InheritsLayout
  <2>7. f[k] \in 1..Len(classes)
    BY <1>2, <1>6, <1>10
  <2>8. LayoutExtends(f[k], k)
    BY <1>10, <2>1, <2>3, <2>5, <2>6, <2>7, LayoutTransitive
  <2>9. QED
    BY <1>10, <2>8
<1>13. QED
  BY <1>11, <1>12

\* The facts about a call: who receives it, and which class has the method.
LEMMA ReceiverFits ==
  ASSUME TypeOK, InheritsLayout, NEW o \in 1..Len(objects), NEW s, NEW m \in 1..Len(classes),
         Receives(o, s, m)
  PROVE  /\ objects[o] \in 1..Len(classes)
         /\ s \in DOMAIN Uses[classes[m].decl]
         /\ LayoutExtends(m, objects[o])
<1>1. objects[o] \in 1..Len(classes)
  BY DEF TypeOK
<1>2. m = methodForSelector(objects[o], s) /\ m # 0
  BY DEF Receives
<1>3. QED
  BY <1>1, <1>2, LookupFinds, LookupInherits

-----------------------------------------------------------------------------
(* The invariant.                                                          *)

LEMMA ClassesInit ==
  ASSUME Init
  PROVE  ClassesInv
<1>1. classes = <<>> /\ function = <<>> /\ objects = <<>> /\ access = NoAccess
  BY DEF Init
<1>2. Len(classes) = 0 /\ 1..Len(classes) = {} /\ 0 \in 0..Len(classes)
  BY <1>1
<1>3. TypeOK
  <2>1. classTable \in [Names -> 0..Len(classes)]
    BY <1>2 DEF Init
  <2>2. compiledClosure \in [ClassDecls -> [Selectors -> 0..Len(classes)]]
    BY <1>2 DEF Init
  <2>3. access.class = 0 /\ access.layout = 0
    BY <1>1 DEF NoAccess
  <2>4. QED
    BY <1>1, <1>2, <2>1, <2>2, <2>3, ClassesAssumption DEF TypeOK
<1>4. InheritsLayout /\ CodeFits
  BY <1>2 DEF InheritsLayout, CodeFits
<1>5. SharedCodeFits
  BY DEF Init, SharedCodeFits
<1>6. AccessFits
  BY <1>1 DEF AccessFits
<1>7. QED
  BY <1>3, <1>4, <1>5, <1>6 DEF ClassesInv

\* A declaration adds a structure and leaves the others as they are.
LEMMA DeclareAdds ==
  ASSUME TypeOK, NEW d \in ClassDecls, Declare(d)
  PROVE  /\ Len(classes) \in Nat /\ Len(classes') = Len(classes) + 1
         /\ classes' \in Seq(Class) /\ Acyclic(classes')
         /\ \A c \in 1..Len(classes) : classes'[c] = classes[c] /\ function'[c] = function[c]
         /\ classes'[Len(classes) + 1] = [decl |-> d, superclass |-> lookupClass(SuperOf[d]),
                                          ivars |-> Layout(d)]
         /\ function'[Len(classes) + 1] = [s \in DOMAIN Uses[d] |-> 0]
         /\ lookupClass(SuperOf[d]) \in 0..Len(classes)
         /\ Layout(d) \in Seq(STRING)
<1> DEFINE n == Len(classes)
           new == [decl |-> d, superclass |-> lookupClass(SuperOf[d]), ivars |-> Layout(d)]
<1>1. classes \in Seq(Class) /\ n \in Nat /\ function \in Seq(CodeTable) /\ Len(function) = n
  BY DEF TypeOK
<1>2. lookupClass(SuperOf[d]) \in 0..n
  BY <1>1, ClassesAssumption DEF TypeOK, lookupClass
<1>3. Layout(d) \in Seq(STRING)
  <2>1. IVarsOf[d] \in Seq(STRING)
    BY ClassesAssumption
  <2>2. CASE lookupClass(SuperOf[d]) = 0
    BY <2>1, <2>2 DEF Layout
  <2>3. CASE lookupClass(SuperOf[d]) # 0
    <3>1. lookupClass(SuperOf[d]) \in 1..n
      BY <1>1, <1>2, <2>3
    <3>2. classes[lookupClass(SuperOf[d])].ivars \in Seq(STRING)
      BY <3>1, LayoutType
    <3>3. QED
      BY <2>1, <2>3, <3>2 DEF Layout
  <2>4. QED
    BY <2>2, <2>3
<1>4. new \in Class
  BY <1>1, <1>2, <1>3 DEF Class
<1>5. classes' = Append(classes, new) /\ function' = Append(function, [s \in DOMAIN Uses[d] |-> 0])
  BY DEF Declare
<1>6. new.superclass < n + 1
  BY <1>1, <1>2
<1> HIDE DEF new
<1>7. classes' \in Seq(Class) /\ Len(classes') = n + 1 /\ classes'[n + 1] = new
  BY <1>1, <1>4, <1>5
<1>8. \A c \in 1..n : classes'[c] = classes[c] /\ function'[c] = function[c]
  BY <1>1, <1>5
<1>9. function'[n + 1] = [s \in DOMAIN Uses[d] |-> 0]
  BY <1>1, <1>5
<1>10. ASSUME NEW c \in 1..Len(classes') PROVE classes'[c].superclass < c
  <2>1. CASE c \in 1..n
    <3>1. classes[c].superclass < c
      BY <2>1 DEF TypeOK
    <3>2. QED
      BY <1>8, <2>1, <3>1
  <2>2. CASE c = n + 1
    BY <1>6, <1>7, <2>2
  <2>3. QED
    BY <1>1, <1>7, <1>10, <2>1, <2>2
<1>11. Acyclic(classes')
  BY <1>7, <1>10 DEF Acyclic
<1>12. QED
  BY <1>1, <1>2, <1>3, <1>7, <1>8, <1>9, <1>11 DEF new

LEMMA DeclareTypes ==
  ASSUME TypeOK, NEW d \in ClassDecls, Declare(d)
  PROVE  TypeOK'
<1> DEFINE n == Len(classes)
           bare == [s \in DOMAIN Uses[d] |-> 0]
<1>1. /\ n \in Nat /\ Len(classes') = n + 1 /\ classes' \in Seq(Class) /\ Acyclic(classes')
      /\ \A c \in 1..n : classes'[c] = classes[c] /\ function'[c] = function[c]
      /\ classes'[n + 1].decl = d /\ function'[n + 1] = bare
  <2>1. classes'[n + 1] = [decl |-> d, superclass |-> lookupClass(SuperOf[d]), ivars |-> Layout(d)]
    BY DeclareAdds
  <2>2. classes'[n + 1].decl = d
    BY <2>1
  <2>3. function'[n + 1] = bare
    BY DeclareAdds, Zenon
  <2> HIDE DEF bare
  <2>4. QED
    BY <2>2, <2>3, DeclareAdds
<1>2. n < MaxClasses /\ MaxClasses \in Nat
  BY ClassesAssumption DEF Declare
<1>3. 0..n \subseteq 0..(n + 1) /\ 1..n \subseteq 1..(n + 1) /\ 0 \in 0..(n + 1) /\ n + 1 \in 0..(n + 1)
  BY <1>1
<1>4. Len(classes') <= MaxClasses
  BY <1>1, <1>2
<1>5. \A c \in 1..Len(classes') : classes'[c].superclass < c
  BY <1>1 DEF Acyclic
<1>6. classTable' \in [Names -> 0..(n + 1)]
  <2>1. classTable' = [classTable EXCEPT ![NameOf[d]] = n + 1] /\ classTable \in [Names -> 0..n]
    BY DEF Declare, TypeOK
  <2>2. QED
    BY <1>3, <2>1
<1>7. objects' \in Seq(1..(n + 1))
  <2>1. objects' = objects /\ objects \in Seq(1..n)
    BY DEF Declare, TypeOK
  <2>2. QED
    BY <1>3, <2>1
<1>8. bare \in CodeTable
  <2>1. bare \in [DOMAIN Uses[d] -> 0..MaxClasses]
    BY <1>2
  <2>2. QED
    BY <2>1, Zenon DEF CodeTable
<1>9. function' \in Seq(CodeTable) /\ Len(function') = n + 1
  <2>1. function' = Append(function, bare)
    BY DEF Declare
  <2>2. function \in Seq(CodeTable) /\ Len(function) = n
    BY DEF TypeOK
  <2> HIDE DEF bare
  <2>3. QED
    BY <1>8, <2>1, <2>2
<1>10. ASSUME NEW c \in 1..(n + 1)
       PROVE  function'[c] \in [DOMAIN Uses[classes'[c].decl] -> 0..(n + 1)]
  <2>1. CASE c \in 1..n
    <3>1. function[c] \in [DOMAIN Uses[classes[c].decl] -> 0..n]
      BY <2>1 DEF TypeOK
    <3>2. QED
      BY <1>1, <1>3, <2>1, <3>1
  <2>2. CASE c = n + 1
    BY <1>1, <1>3, <2>2
  <2>3. QED
    BY <1>1, <1>10, <2>1, <2>2
<1>11. compiledClosure' \in [ClassDecls -> [Selectors -> 0..(n + 1)]]
  <2>1. compiledClosure' = compiledClosure /\ compiledClosure \in [ClassDecls -> [Selectors -> 0..n]]
    BY DEF Declare, TypeOK
  <2>2. QED
    BY <1>3, <2>1
<1>12. access'.class \in 0..(n + 1) /\ access'.layout \in 0..(n + 1)
  BY <1>3 DEF Declare, TypeOK
<1>13. QED
  BY <1>1, <1>4, <1>5, <1>6, <1>7, <1>9, <1>10, <1>11, <1>12 DEF TypeOK

\* What a declaration does to the invariant: the layouts there are stay, and
\* the new one begins with the superclass's.
LEMMA DeclareFits ==
  ASSUME ClassesInv, NEW d \in ClassDecls, Declare(d)
  PROVE  (InheritsLayout /\ CodeFits /\ SharedCodeFits /\ AccessFits)'
<1> DEFINE n == Len(classes)
           top == lookupClass(SuperOf[d])
<1>1. /\ n \in Nat /\ Len(classes') = n + 1
      /\ \A c \in 1..n : classes'[c] = classes[c] /\ function'[c] = function[c]
      /\ top \in 0..n
  BY DeclareAdds DEF ClassesInv
<1>2. /\ classes'[n + 1].decl = d /\ classes'[n + 1].superclass = top
      /\ classes'[n + 1].ivars = Layout(d)
  <2>1. classes'[n + 1] = [decl |-> d, superclass |-> top, ivars |-> Layout(d)]
    BY DeclareAdds DEF ClassesInv
  <2>2. QED
    BY <2>1
<1>3. function'[n + 1] = [s \in DOMAIN Uses[d] |-> 0]
  BY DeclareAdds, Zenon DEF ClassesInv
<1>4. ASSUME NEW CONSTANT p \in 1..n, NEW CONSTANT c \in 1..n, LayoutExtends(p, c)
      PROVE  LayoutExtends(p, c)'
  BY <1>1, <1>4 DEF LayoutExtends
<1>5. InheritsLayout'
  <2>1. SUFFICES ASSUME NEW CONSTANT c \in 1..(n + 1), classes'[c].superclass # 0
                 PROVE  LayoutExtends(classes[c].superclass, c)'
    BY <1>1 DEF InheritsLayout
  <2>2. CASE c \in 1..n
    <3>1. PICK p : p = classes[c].superclass
      OBVIOUS
    <3>2. p \in 1..n /\ p = classes'[c].superclass
      <4>1. classes[c] \in Class /\ classes[c].superclass < c
        BY <2>2 DEF ClassesInv, TypeOK
      <4>2. QED
        BY <1>1, <2>1, <2>2, <3>1, <4>1 DEF Class
    <3>3. LayoutExtends(p, c)
      BY <1>1, <2>1, <2>2, <3>1 DEF ClassesInv, InheritsLayout
    <3>4. LayoutExtends(p, c)'
      BY <1>4, <2>2, <3>2, <3>3
    <3>5. QED
      BY <3>2, <3>4
  <2>3. CASE c = n + 1
    <3>1. PICK p : p = top
      OBVIOUS
    <3>2. p \in 1..n /\ p = classes'[c].superclass
      BY <1>1, <1>2, <2>1, <2>3, <3>1
    <3>3. /\ classes[p].ivars \in Seq(STRING) /\ IVarsOf[d] \in Seq(STRING)
          /\ classes'[c].ivars = classes[p].ivars \o IVarsOf[d]
      <4>1. top # 0
        BY <1>1, <3>1, <3>2
      <4>2. Layout(d) = classes[top].ivars \o IVarsOf[d]
        BY <4>1, Zenon DEF Layout
      <4>3. IVarsOf[d] \in Seq(STRING)
        BY ClassesAssumption
      <4>4. classes[p].ivars \in Seq(STRING)
        BY <3>2, LayoutType DEF ClassesInv
      <4>5. QED
        BY <1>2, <2>3, <3>1, <4>2, <4>3, <4>4, Zenon
    <3>4. classes'[p].ivars = classes[p].ivars
      BY <1>1, <3>2
    <3>5. LayoutExtends(p, c)'
      <4>1. PICK a : a = classes[p].ivars
        OBVIOUS
      <4>2. PICK b : b = IVarsOf[d]
        OBVIOUS
      <4>3. a \in Seq(STRING) /\ b \in Seq(STRING)
        BY <3>3, <4>1, <4>2
      <4>4. Len(a) <= Len(a \o b) /\ \A i \in 1..Len(a) : (a \o b)[i] = a[i]
        BY <4>3
      <4>5. classes'[c].ivars = a \o b /\ classes'[p].ivars = a
        BY <3>3, <3>4, <4>1, <4>2
      <4>6. QED
        BY <4>4, <4>5, Zenon DEF LayoutExtends
    <3>6. QED
      BY <3>2, <3>5
  <2>4. QED
    BY <1>1, <2>1, <2>2, <2>3
<1>6. CodeFits'
  <2>1. SUFFICES ASSUME NEW CONSTANT m \in 1..(n + 1),
                        NEW CONSTANT s \in DOMAIN Uses[classes'[m].decl], function'[m][s] # 0
                 PROVE  LayoutExtends(m, function[m][s])'
    BY <1>1 DEF CodeFits
  <2>2. CASE m \in 1..n
    <3>1. PICK c : c = function[m][s]
      OBVIOUS
    <3>2. c = function'[m][s] /\ c # 0 /\ s \in DOMAIN Uses[classes[m].decl]
      BY <1>1, <2>1, <2>2, <3>1
    <3>3. function[m] \in [DOMAIN Uses[classes[m].decl] -> 0..n]
      BY <2>2 DEF ClassesInv, TypeOK
    <3>4. c \in 1..n
      <4>1. c \in 0..n
        BY <3>1, <3>2, <3>3
      <4>2. QED
        BY <1>1, <3>2, <4>1
    <3>5. LayoutExtends(m, c)
      BY <2>2, <3>1, <3>2 DEF ClassesInv, CodeFits
    <3>6. LayoutExtends(m, c)'
      BY <1>4, <2>2, <3>4, <3>5
    <3>7. QED
      BY <3>2, <3>6
  <2>3. CASE m = n + 1
    BY <1>2, <1>3, <2>1, <2>3
  <2>4. QED
    BY <1>1, <2>1, <2>2, <2>3
<1>7. SharedCodeFits'
  <2>1. compiledClosure' = compiledClosure
    BY DEF Declare
  <2>2. SUFFICES ASSUME NEW CONSTANT e \in ClassDecls, NEW CONSTANT s \in Selectors,
                        compiledClosure[e][s] # 0
                 PROVE  \E m \in 1..(n + 1) : /\ classes'[m].decl = e
                                              /\ LayoutExtends(m, compiledClosure[e][s])'
    BY <1>1, <2>1 DEF SharedCodeFits
  <2>3. PICK c : c = compiledClosure[e][s]
    OBVIOUS
  <2>4. c \in 1..n
    BY <1>1, <2>2, <2>3 DEF ClassesInv, TypeOK
  <2>5. PICK m \in 1..n : classes[m].decl = e /\ LayoutExtends(m, c)
    BY <2>2, <2>3 DEF ClassesInv, SharedCodeFits
  <2>6. LayoutExtends(m, c)'
    BY <1>4, <2>4, <2>5
  <2>7. m \in 1..(n + 1) /\ classes'[m].decl = e /\ c = compiledClosure'[e][s]
    BY <1>1, <2>1, <2>3, <2>5
  <2>8. QED
    BY <2>6, <2>7
<1>8. AccessFits'
  <2>1. access' = access
    BY DEF Declare
  <2>2. SUFFICES ASSUME access # NoAccess
                 PROVE  AccessFits'
    BY <2>1 DEF AccessFits, NoAccess
  <2>3. PICK c : c = access.class
    OBVIOUS
  <2>4. PICK l : l = access.layout
    OBVIOUS
  <2>5. c \in 1..n /\ l \in 1..n
    BY <1>1, <2>2, <2>3, <2>4 DEF ClassesInv, TypeOK, AccessFits
  <2>6. PICK m \in 1..n, e \in 1..n : \E s \in DOMAIN Uses[classes[m].decl] :
         /\ classes[m].decl = classes[e].decl /\ access.var = Uses[classes[m].decl][s]
         /\ LayoutExtends(m, c) /\ LayoutExtends(e, l)
    BY <2>2, <2>3, <2>4 DEF ClassesInv, AccessFits
  <2>7. LayoutExtends(m, c)' /\ LayoutExtends(e, l)'
    BY <1>4, <2>5, <2>6
  <2>8. /\ m \in 1..(n + 1) /\ e \in 1..(n + 1)
        /\ classes'[m] = classes[m] /\ classes'[e] = classes[e]
    BY <1>1
  <2>9. \E s \in DOMAIN Uses[classes'[m].decl] :
         /\ classes'[m].decl = classes'[e].decl /\ access'.var = Uses[classes'[m].decl][s]
         /\ LayoutExtends(m, c)' /\ LayoutExtends(e, l)'
    BY <2>1, <2>6, <2>7, <2>8
  <2>10. c = access'.class /\ l = access'.layout /\ c # 0 /\ l # 0
    BY <2>1, <2>3, <2>4, <2>5
  <2>11. LayoutExtends(m, access.class)' /\ LayoutExtends(e, access.layout)'
    BY <2>7, <2>10
  <2>12. QED
    BY <1>1, <2>8, <2>9, <2>10, <2>11 DEF AccessFits
<1>9. QED
  BY <1>5, <1>6, <1>7, <1>8

\* While the classes stay, the layouts do.
LEMMA SameLayouts ==
  ASSUME classes' = classes, NEW CONSTANT p, NEW CONSTANT c
  PROVE  LayoutExtends(p, c)' <=> LayoutExtends(p, c)
BY DEF LayoutExtends

LEMMA SameAccess ==
  ASSUME AccessFits, UNCHANGED <<classes, access>>
  PROVE  AccessFits'
BY DEF AccessFits, LayoutExtends

\* A step that changes no class, no code and not the last access.
LEMMA QuietKeeps ==
  ASSUME ClassesInv, objects' \in Seq(1..Len(classes)),
         UNCHANGED <<classes, classTable, function, compiledClosure, access>>
  PROVE  ClassesInv'
<1>1. TypeOK'
  BY DEF ClassesInv, TypeOK
<1>2. (InheritsLayout /\ CodeFits /\ SharedCodeFits /\ AccessFits)'
  BY DEF ClassesInv, InheritsLayout, CodeFits, SharedCodeFits, AccessFits, LayoutExtends
<1>3. QED
  BY <1>1, <1>2 DEF ClassesInv

LEMMA NewKeeps ==
  ASSUME ClassesInv, NEW n \in Names, New(n) \/ NewInCode(n)
  PROVE  ClassesInv'
<1>1. objects \in Seq(1..Len(classes)) /\ Len(classes) \in Nat
  BY DEF ClassesInv, TypeOK
<1>2. PICK c \in 1..Len(classes) : objects' = Append(objects, c)
  <2>1. CASE New(n)
    <3>1. n # None
      BY ClassesAssumption
    <3>2. classTable[n] \in 0..Len(classes) /\ classTable[n] # 0
      BY <2>1, <3>1 DEF ClassesInv, TypeOK, New, lookupClass
    <3>3. classTable[n] \in 1..Len(classes)
      BY <1>1, <3>2
    <3>4. QED
      BY <2>1, <3>1, <3>3 DEF New, lookupClass
  <2>2. CASE NewInCode(n)
    BY <2>2 DEF NewInCode
  <2>3. QED
    BY <2>1, <2>2
<1>3. objects' \in Seq(1..Len(classes))
  BY <1>1, <1>2
<1>4. UNCHANGED <<classes, classTable, function, compiledClosure, access>>
  BY DEF New, NewInCode
<1>5. QED
  BY <1>3, <1>4, QuietKeeps

\* A method of class m runs on object o with code for layout l, which was
\* compiled through the class e of the same declaration.
LEMMA NewAccessFits ==
  ASSUME ClassesInv, NEW CONSTANT o \in 1..Len(objects), NEW CONSTANT s,
         NEW CONSTANT m \in 1..Len(classes), NEW CONSTANT e \in 1..Len(classes),
         NEW CONSTANT l \in 1..Len(classes), Receives(o, s, m),
         classes[m].decl = classes[e].decl, LayoutExtends(e, l),
         Accesses(o, m, s, l), classes' = classes
  PROVE  /\ AccessFits'
         /\ access'.class \in 0..Len(classes) /\ access'.layout \in 0..Len(classes)
<1>1. Len(classes) \in Nat
  BY DEF ClassesInv, TypeOK
<1>2. PICK c : c = objects[o]
  OBVIOUS
<1>3. c \in 1..Len(classes) /\ s \in DOMAIN Uses[classes[m].decl] /\ LayoutExtends(m, c)
  BY <1>2, ReceiverFits DEF ClassesInv
<1>4. access'.class = c /\ access'.layout = l /\ access'.var = Uses[classes[m].decl][s]
  BY <1>2 DEF Accesses
<1>5. access'.class # 0 /\ access'.layout # 0
  BY <1>1, <1>3, <1>4
<1>6. LayoutExtends(m, access.class)' /\ LayoutExtends(e, access.layout)'
  <2>1. LayoutExtends(m, c)' /\ LayoutExtends(e, l)'
    BY <1>3, SameLayouts
  <2>2. QED
    BY <1>4, <2>1
<1>7. AccessFits'
  BY <1>3, <1>4, <1>5, <1>6 DEF AccessFits
<1>8. QED
  BY <1>1, <1>3, <1>4, <1>7

\* Compiling a method for the receiver's class.
LEMMA NewCodeFits ==
  ASSUME ClassesInv, NEW CONSTANT o \in 1..Len(objects), NEW CONSTANT s,
         NEW CONSTANT m \in 1..Len(classes), Receives(o, s, m),
         function' = [function EXCEPT ![m][s] = objects[o]], classes' = classes
  PROVE  /\ CodeFits'
         /\ function' \in Seq(CodeTable) /\ Len(function') = Len(classes)
         /\ \A c \in 1..Len(classes) :
              function'[c] \in [DOMAIN Uses[classes[c].decl] -> 0..Len(classes)]
<1> DEFINE n == Len(classes)
           code(k) == [DOMAIN Uses[classes[k].decl] -> 0..n]
<1>1. /\ n \in Nat /\ n <= MaxClasses /\ MaxClasses \in Nat
      /\ function \in Seq(CodeTable) /\ Len(function) = n
      /\ \A k \in 1..n : function[k] \in code(k)
  BY ClassesAssumption DEF ClassesInv, TypeOK
<1>2. PICK c : c = objects[o]
  OBVIOUS
<1>3. c \in 1..n /\ s \in DOMAIN Uses[classes[m].decl] /\ LayoutExtends(m, c)
  BY <1>2, ReceiverFits DEF ClassesInv
<1>4. c \in 0..n /\ 0..n \subseteq 0..MaxClasses
  BY <1>1, <1>3
<1>5. PICK t : t = [function[m] EXCEPT ![s] = c]
  OBVIOUS
<1>6. function' = [function EXCEPT ![m] = t]
  BY <1>2, <1>5
<1>7. t \in code(m) /\ t[s] = c /\ \A r \in DOMAIN Uses[classes[m].decl] : r # s => t[r] = function[m][r]
  BY <1>1, <1>3, <1>4, <1>5
<1>8. t \in CodeTable
  <2>1. classes[m].decl \in ClassDecls
    BY LayoutType DEF ClassesInv
  <2>2. t \in [DOMAIN Uses[classes[m].decl] -> 0..MaxClasses]
    BY <1>4, <1>7
  <2>3. QED
    BY <2>1, <2>2, Zenon DEF CodeTable
<1> HIDE DEF code
<1>9. /\ function' \in Seq(CodeTable) /\ Len(function') = n
      /\ function'[m] = t /\ \A k \in 1..n : k # m => function'[k] = function[k]
  BY <1>1, <1>6, <1>8
<1>10. \A k \in 1..n : function'[k] \in code(k)
  BY <1>1, <1>7, <1>9
<1>11. CodeFits'
  <2>1. SUFFICES ASSUME NEW CONSTANT k \in 1..n, NEW CONSTANT r \in DOMAIN Uses[classes[k].decl],
                        function'[k][r] # 0
                 PROVE  LayoutExtends(k, function[k][r])'
    BY DEF CodeFits
  <2>2. PICK l : l = function'[k][r]
    OBVIOUS
  <2>3. LayoutExtends(k, l)
    <3>1. CASE k = m /\ r = s
      BY <1>3, <1>7, <1>9, <2>2, <3>1
    <3>2. CASE ~(k = m /\ r = s)
      <4>1. l = function[k][r]
        BY <1>7, <1>9, <2>2, <3>2
      <4>2. QED
        BY <2>1, <2>2, <4>1 DEF ClassesInv, CodeFits
    <3>3. QED
      BY <3>1, <3>2
  <2>4. LayoutExtends(k, l)'
    BY <2>3, SameLayouts
  <2>5. QED
    BY <2>2, <2>4
<1>12. QED
  BY <1>9, <1>10, <1>11 DEF code

\* The calls that change no code.
LEMMA RunKeeps ==
  ASSUME ClassesInv, NEW CONSTANT o \in 1..Len(objects), NEW CONSTANT s \in Selectors,
         RunCode(o, s) \/ RunSharedCode(o, s) \/ Interpret(o, s)
  PROVE  ClassesInv'
<1>1. UNCHANGED <<classes, classTable, objects, function, compiledClosure>>
  BY DEF RunCode, RunSharedCode, Interpret
<1>2. Len(classes) \in Nat
  BY DEF ClassesInv, TypeOK
<1>3. \E m, e, l \in 1..Len(classes) :
        /\ Receives(o, s, m) /\ classes[m].decl = classes[e].decl /\ LayoutExtends(e, l)
        /\ Accesses(o, m, s, l)
  <2>1. CASE RunCode(o, s)
    <3>1. PICK m \in 1..Len(classes) : /\ Receives(o, s, m) /\ function[m][s] # 0
                                       /\ Accesses(o, m, s, function[m][s])
      BY <2>1 DEF RunCode
    <3>2. s \in DOMAIN Uses[classes[m].decl]
      BY <3>1, ReceiverFits DEF ClassesInv
    <3>3. function[m] \in [DOMAIN Uses[classes[m].decl] -> 0..Len(classes)]
      BY DEF ClassesInv, TypeOK
    <3>4. function[m][s] \in 0..Len(classes)
      BY <3>2, <3>3
    <3>5. function[m][s] \in 1..Len(classes)
      BY <1>2, <3>1, <3>4
    <3>6. LayoutExtends(m, function[m][s])
      BY <3>1, <3>2 DEF ClassesInv, CodeFits
    <3>7. QED
      BY <3>1, <3>5, <3>6
  <2>2. CASE RunSharedCode(o, s)
    <3>1. PICK m \in 1..Len(classes) :
            /\ Receives(o, s, m) /\ compiledClosure[classes[m].decl][s] # 0
            /\ Accesses(o, m, s, compiledClosure[classes[m].decl][s])
      BY <2>2 DEF RunSharedCode
    <3>2. classes[m].decl \in ClassDecls
      BY LayoutType DEF ClassesInv
    <3>3. compiledClosure[classes[m].decl][s] \in 0..Len(classes)
      BY <3>2 DEF ClassesInv, TypeOK
    <3>4. compiledClosure[classes[m].decl][s] \in 1..Len(classes)
      BY <1>2, <3>1, <3>3
    <3>5. PICK e \in 1..Len(classes) :
            /\ classes[e].decl = classes[m].decl
            /\ LayoutExtends(e, compiledClosure[classes[m].decl][s])
      BY <3>1, <3>2 DEF ClassesInv, SharedCodeFits
    <3>6. QED
      BY <3>1, <3>4, <3>5
  <2>3. CASE Interpret(o, s)
    <3>1. PICK m \in 1..Len(classes) : Receives(o, s, m) /\ Accesses(o, m, s, objects[o])
      BY <2>3 DEF Interpret
    <3>2. objects[o] \in 1..Len(classes) /\ LayoutExtends(m, objects[o])
      BY <3>1, ReceiverFits DEF ClassesInv
    <3>3. QED
      BY <3>1, <3>2
  <2>4. QED
    BY <2>1, <2>2, <2>3
<1>4. PICK m \in 1..Len(classes), e \in 1..Len(classes), l \in 1..Len(classes) :
        /\ Receives(o, s, m) /\ classes[m].decl = classes[e].decl /\ LayoutExtends(e, l)
        /\ Accesses(o, m, s, l)
  BY <1>3
<1>5. /\ AccessFits'
      /\ access'.class \in 0..Len(classes) /\ access'.layout \in 0..Len(classes)
  BY <1>1, <1>4, NewAccessFits
<1>6. TypeOK'
  BY <1>1, <1>5 DEF ClassesInv, TypeOK
<1>7. (InheritsLayout /\ CodeFits /\ SharedCodeFits)'
  BY <1>1 DEF ClassesInv, InheritsLayout, CodeFits, SharedCodeFits, LayoutExtends
<1>8. QED
  BY <1>5, <1>6, <1>7 DEF ClassesInv

LEMMA CompileKeeps ==
  ASSUME ClassesInv, NEW CONSTANT o \in 1..Len(objects), NEW CONSTANT s \in Selectors,
         CompileAndRun(o, s)
  PROVE  ClassesInv'
<1>1. UNCHANGED <<classes, classTable, objects>>
  BY DEF CompileAndRun
<1>2. PICK m \in 1..Len(classes) :
        /\ Receives(o, s, m) /\ Accesses(o, m, s, objects[o])
        /\ function' = [function EXCEPT ![m][s] = objects[o]]
        /\ compiledClosure' = [compiledClosure EXCEPT ![classes[m].decl][s] = objects[o]]
  BY DEF CompileAndRun
<1>3. PICK c : c = objects[o]
  OBVIOUS
<1>4. Len(classes) \in Nat /\ c \in 1..Len(classes) /\ LayoutExtends(m, c)
  BY <1>2, <1>3, ReceiverFits DEF ClassesInv, TypeOK
<1>5. /\ CodeFits' /\ function' \in Seq(CodeTable) /\ Len(function') = Len(classes)
      /\ \A k \in 1..Len(classes) :
           function'[k] \in [DOMAIN Uses[classes[k].decl] -> 0..Len(classes)]
  BY <1>1, <1>2, NewCodeFits
<1>6. /\ AccessFits'
      /\ access'.class \in 0..Len(classes) /\ access'.layout \in 0..Len(classes)
  BY <1>1, <1>2, <1>3, <1>4, NewAccessFits
<1>7. PICK d : d = classes[m].decl
  OBVIOUS
<1>8. d \in ClassDecls /\ c \in 0..Len(classes)
  BY <1>4, <1>7, LayoutType DEF ClassesInv
<1>9. compiledClosure \in [ClassDecls -> [Selectors -> 0..Len(classes)]]
  BY DEF ClassesInv, TypeOK
<1>10. compiledClosure' = [compiledClosure EXCEPT ![d][s] = c]
  BY <1>2, <1>3, <1>7
<1>11. compiledClosure' \in [ClassDecls -> [Selectors -> 0..Len(classes)]]
  BY <1>8, <1>9, <1>10
<1>12. /\ compiledClosure'[d][s] = c
       /\ \A e \in ClassDecls, r \in Selectors :
            ~(e = d /\ r = s) => compiledClosure'[e][r] = compiledClosure[e][r]
  BY <1>8, <1>9, <1>10
<1>13. SharedCodeFits'
  <2>1. SUFFICES ASSUME NEW CONSTANT e \in ClassDecls, NEW CONSTANT r \in Selectors,
                        compiledClosure'[e][r] # 0
                 PROVE  \E k \in 1..Len(classes) : /\ classes[k].decl = e
                                                   /\ LayoutExtends(k, compiledClosure[e][r])'
    BY <1>1 DEF SharedCodeFits
  <2>2. PICK l : l = compiledClosure'[e][r]
    OBVIOUS
  <2>3. PICK k \in 1..Len(classes) : classes[k].decl = e /\ LayoutExtends(k, l)
    <3>1. CASE e = d /\ r = s
      BY <1>4, <1>7, <1>12, <2>2, <3>1
    <3>2. CASE ~(e = d /\ r = s)
      <4>1. l = compiledClosure[e][r] /\ l # 0
        BY <1>12, <2>1, <2>2, <3>2
      <4>2. QED
        BY <4>1 DEF ClassesInv, SharedCodeFits
    <3>3. QED
      BY <3>1, <3>2
  <2>4. LayoutExtends(k, l)'
    BY <1>1, <2>3, SameLayouts
  <2>5. QED
    BY <2>2, <2>3, <2>4
<1>14. TypeOK'
  BY <1>1, <1>5, <1>6, <1>11 DEF ClassesInv, TypeOK
<1>15. InheritsLayout'
  BY <1>1 DEF ClassesInv, InheritsLayout, LayoutExtends
<1>16. QED
  BY <1>5, <1>6, <1>13, <1>14, <1>15 DEF ClassesInv

LEMMA RecompileKeeps ==
  ASSUME ClassesInv, NEW CONSTANT o \in 1..Len(objects), NEW CONSTANT s \in Selectors,
         Recompile(o, s)
  PROVE  ClassesInv'
<1>1. UNCHANGED <<classes, classTable, objects, compiledClosure, access>>
  BY DEF Recompile
<1>2. PICK m \in 1..Len(classes) :
        Receives(o, s, m) /\ function' = [function EXCEPT ![m][s] = objects[o]]
  BY DEF Recompile
<1>3. /\ CodeFits' /\ function' \in Seq(CodeTable) /\ Len(function') = Len(classes)
      /\ \A k \in 1..Len(classes) :
           function'[k] \in [DOMAIN Uses[classes[k].decl] -> 0..Len(classes)]
  BY <1>1, <1>2, NewCodeFits
<1>4. TypeOK'
  BY <1>1, <1>3 DEF ClassesInv, TypeOK
<1>5. (InheritsLayout /\ SharedCodeFits)'
  BY <1>1 DEF ClassesInv, InheritsLayout, SharedCodeFits, LayoutExtends
<1>6. AccessFits'
  BY <1>1, SameAccess DEF ClassesInv
<1>7. QED
  BY <1>3, <1>4, <1>5, <1>6 DEF ClassesInv

LEMMA ClassesStep ==
  ASSUME ClassesInv, [Next]_vars
  PROVE  ClassesInv'
<1>1. ASSUME NEW d \in ClassDecls, Declare(d) PROVE ClassesInv'
  BY <1>1, DeclareTypes, DeclareFits DEF ClassesInv
<1>2. ASSUME NEW n \in Names, New(n) \/ NewInCode(n) PROVE ClassesInv'
  BY <1>2, NewKeeps
<1>3. ASSUME NEW o \in 1..Len(objects), NEW s \in Selectors, Call(o, s) PROVE ClassesInv'
  BY <1>3, RunKeeps, CompileKeeps, RecompileKeeps DEF Call
<1>4. CASE UNCHANGED vars
  BY <1>4, QuietKeeps DEF ClassesInv, TypeOK, vars
<1>5. QED
  BY <1>1, <1>2, <1>3, <1>4 DEF Next

-----------------------------------------------------------------------------
(* The theorems.                                                           *)

\* The invariant holds of any program's classes.
THEOREM ClassesInvariant == Spec => []ClassesInv
<1>1. Init => ClassesInv
  BY ClassesInit
<1>2. ClassesInv /\ [Next]_vars => ClassesInv'
  BY ClassesStep
<1>3. QED
  BY <1>1, <1>2, PTL DEF Spec

\* Class structures, code and objects refer to structures that exist, and a
\* superclass is always the older structure, so a walk up the superclasses ends.
THEOREM ClassesTypes == Spec => []TypeOK
<1>1. ClassesInv => TypeOK
  BY DEF ClassesInv
<1>2. QED
  BY <1>1, ClassesInvariant, PTL

\* Declaring a class, again or for the first time, never changes which method
\* methodForSelector finds from a class that exists.
THEOREM LookupIsForever == Spec => LookupIsStable
<1> DEFINE Same == \A c \in 1..Len(classes), s \in Selectors :
                     methodForSelector(c, s)' = methodForSelector(c, s)
<1>1. ASSUME ClassesInv, [Next]_vars PROVE [Same]_vars
  <2>1. ASSUME NEW CONSTANT c \in 1..Len(classes), NEW CONSTANT s \in Selectors,
               NEW d \in ClassDecls, Declare(d)
        PROVE  methodForSelector(c, s)' = methodForSelector(c, s)
    <3>1. /\ Len(classes) \in Nat /\ Len(classes') = Len(classes) + 1 /\ Acyclic(classes')
          /\ \A k \in 1..Len(classes) : classes'[k] = classes[k]
      BY <1>1, <2>1, DeclareAdds DEF ClassesInv
    <3>2. Acyclic(classes) /\ Len(classes) <= Len(classes') /\ c \in 0..Len(classes)
      BY <1>1, <3>1 DEF ClassesInv, TypeOK, Acyclic
    <3>3. LookupIn(classes', s)[c] = LookupIn(classes, s)[c]
      BY <3>1, <3>2, LookupStays
    <3>4. QED
      BY <3>3, LookupIsWalk, LookupIsWalkAfter
  <2>2. ASSUME NEW CONSTANT c \in 1..Len(classes), NEW CONSTANT s \in Selectors,
               classes' = classes
        PROVE  methodForSelector(c, s)' = methodForSelector(c, s)
    <3>1. LookupIn(classes', s)[c] = LookupIn(classes, s)[c]
      BY <2>2
    <3>2. QED
      BY <3>1, LookupIsWalk, LookupIsWalkAfter
  <2>3. CASE Next
    <3>1. (\E d \in ClassDecls : Declare(d)) \/ classes' = classes
      BY <2>3 DEF Next, New, NewInCode, Call, RunCode, CompileAndRun, RunSharedCode,
                  Interpret, Recompile
    <3>2. QED
      BY <2>1, <2>2, <3>1
  <2>4. QED
    BY <1>1, <2>3
<1>2. QED
  BY <1>1, ClassesInvariant, PTL DEF Spec, LookupIsStable

\* Where a layout without repeated names puts a variable that it has.
LEMMA SlotIsUnique ==
  ASSUME TypeOK, NEW c \in 1..Len(classes), NEW i \in 1..Len(classes[c].ivars),
         \A j, k \in 1..Len(classes[c].ivars) : classes[c].ivars[j] = classes[c].ivars[k] => j = k
  PROVE  SlotOf(c, classes[c].ivars[i]) = i
<1> DEFINE slots == {j \in DOMAIN classes[c].ivars : classes[c].ivars[j] = classes[c].ivars[i]}
<1>1. DOMAIN classes[c].ivars = 1..Len(classes[c].ivars) /\ Len(classes[c].ivars) \in Nat
  BY LayoutType
<1>2. slots = {i}
  BY <1>1
<1>3. SlotOf(c, classes[c].ivars[i]) =
        IF slots = {} THEN 0 ELSE CHOOSE j \in slots : \A k \in slots : k <= j
  BY DEF SlotOf
<1> HIDE DEF slots
<1>4. i <= i
  BY <1>1
<1>5. (CHOOSE j \in slots : \A k \in slots : k <= j) = i
  BY <1>2, <1>4
<1>6. QED
  BY <1>2, <1>3, <1>5

\* When every method uses a variable that its class declares or inherits, its
\* code finds the variable in the slot where the interpreter finds it,
\* whichever receiver it was compiled for and whichever class of the
\* declaration it was compiled through.
THEOREM TiersShareSlots == Spec => [](VariablesDeclared => TiersFindTheSameSlot)
<1>1. ASSUME ClassesInv, VariablesDeclared PROVE TiersFindTheSameSlot
  <2>1. SUFFICES ASSUME access # NoAccess, OneLayoutPerDecl
                 PROVE  SlotOf(access.layout, access.var) = SlotOf(access.class, access.var)
    BY DEF TiersFindTheSameSlot
  <2>2. Len(classes) \in Nat /\ access.class \in 0..Len(classes) /\ access.layout \in 0..Len(classes)
    BY <1>1 DEF ClassesInv, TypeOK
  <2>3. access.class \in 1..Len(classes) /\ access.layout \in 1..Len(classes)
    BY <1>1, <2>1, <2>2 DEF ClassesInv, AccessFits
  <2>4. PICK m \in 1..Len(classes), e \in 1..Len(classes) : \E s \in DOMAIN Uses[classes[m].decl] :
         /\ classes[m].decl = classes[e].decl /\ access.var = Uses[classes[m].decl][s]
         /\ LayoutExtends(m, access.class) /\ LayoutExtends(e, access.layout)
    BY <1>1, <2>1 DEF ClassesInv, AccessFits
  <2>5. classes[m].ivars = classes[e].ivars
    BY <2>1, <2>4 DEF OneLayoutPerDecl
  <2>6. PICK i \in 1..Len(classes[m].ivars) : classes[m].ivars[i] = access.var
    <3>1. PICK s \in DOMAIN Uses[classes[m].decl] : access.var = Uses[classes[m].decl][s]
      BY <2>4
    <3>2. \E i \in 1..Len(classes[m].ivars) : classes[m].ivars[i] = Uses[classes[m].decl][s]
      BY <1>1, Zenon DEF VariablesDeclared
    <3>3. QED
      BY <3>1, <3>2
  <2>7. ASSUME NEW c \in 1..Len(classes), NEW p \in 1..Len(classes), LayoutExtends(p, c),
               classes[p].ivars = classes[m].ivars
        PROVE  SlotOf(c, access.var) = i
    <3>1. Len(classes[p].ivars) \in Nat /\ Len(classes[c].ivars) \in Nat
      BY <1>1, LayoutType DEF ClassesInv
    <3>2. i \in 1..Len(classes[c].ivars) /\ classes[c].ivars[i] = access.var
      BY <2>6, <2>7, <3>1 DEF LayoutExtends
    <3>3. \A j, k \in 1..Len(classes[c].ivars) :
            classes[c].ivars[j] = classes[c].ivars[k] => j = k
      BY <1>1 DEF VariablesDeclared
    <3>4. SlotOf(c, classes[c].ivars[i]) = i
      BY <1>1, <3>2, <3>3, SlotIsUnique DEF ClassesInv
    <3>5. QED
      BY <3>2, <3>4
  <2>8. SlotOf(access.class, access.var) = i /\ SlotOf(access.layout, access.var) = i
    BY <2>3, <2>4, <2>5, <2>7
  <2>9. QED
    BY <2>8
<1>2. QED
  BY <1>1, ClassesInvariant, PTL
=============================================================================
