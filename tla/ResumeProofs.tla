---------------------------- MODULE ResumeProofs ----------------------------
(***************************************************************************)
(* Types and the clean context for every program, side exits nested or     *)
(* not; and, when side exits do not nest and every body returns            *)
(* explicitly, that interpreting, compiling and resuming implement plain   *)
(* function activations.                                                   *)
(***************************************************************************)
EXTENDS Resume, SequenceTheorems, TLAPS

\* A search is over only while an activation is being resumed.
FoundWhileResumed ==
  astNodeFound => \E i \in 1..Len(frames) : frames[i].mode = "resumed"

CleanInv ==
  /\ TypeOK
  /\ FoundWhileResumed
  /\ isReturning => frames # <<>>

-----------------------------------------------------------------------------
\* The loop or the code is at the statement after the last one executed.
InStep(f) == f.pc = f.last + 1 /\ f.last <= Len(Body[f.decl])

\* An activation below the top is in the middle of a calling statement.
Waits(f) == InStep(f) /\ ~CodeReturned(f) /\ ~AtEnd(f) /\ Kind(f) \in Calling

\* skip_to has not passed the call that the code had reached.
OnTheWay(f) ==
  /\ f.node = f.last + 1 /\ f.pc >= 1 /\ f.pc <= f.node
  /\ f.node <= Len(Body[f.decl]) /\ Body[f.decl][f.node] \in Guarded
  /\ ~CodeReturned(f)

\* Compiled code has no value before its return statement, and an interpreted
\* activation calls from interpret only.
FrameOK(f) ==
  /\ f.mode = "compiled" /\ ~CodeReturned(f) => f.value = None
  /\ f.mode = "interpreted" => f.by = "interpret"

FramesOK == \A i \in 1..Len(frames) : FrameOK(frames[i])

CallersWait ==
  \A i \in 1..Len(frames) :
    i # Len(frames) => Waits(frames[i]) /\ (frames[i].mode = "resumed" => astNodeFound)

TopInStep ==
  frames # <<>> => IF Top.mode = "resumed" /\ ~astNodeFound THEN OnTheWay(Top) ELSE InStep(Top)

ReturningIsOfTop ==
  isReturning <=> frames # <<>> /\ Top.mode # "compiled" /\ CodeReturned(Top)

\* One activation is being resumed, and the result goes to its register.
OneResumed ==
  /\ \A i, j \in 1..Len(frames) :
       frames[i].mode = "resumed" /\ frames[j].mode = "resumed" => i = j
  /\ \A i \in 1..Len(frames) :
       frames[i].mode = "resumed" => return_register = Register[frames[i].decl]

ResumeInv ==
  /\ CleanInv
  /\ FramesOK
  /\ CallersWait
  /\ TopInStep
  /\ ReturningIsOfTop
  /\ OneResumed

-----------------------------------------------------------------------------
(* What the operators do to the activations.                               *)

LEMMA ExecutedFields ==
  ASSUME NEW f \in Frame
  PROVE  /\ Executed(f) \in Frame
         /\ Executed(f).decl = f.decl /\ Executed(f).mode = f.mode
         /\ Executed(f).pc = f.pc + 1 /\ Executed(f).last = f.pc
         /\ Executed(f).node = f.node /\ Executed(f).by = f.by /\ Executed(f).value = f.value
<1> DEFINE p == f.pc + 1
<1>1. f.pc \in Nat /\ p \in Nat
  BY DEF Frame
<1>2. Executed(f) = [[f EXCEPT !.last = f.pc] EXCEPT !.pc = p]
  BY DEF Executed
<1> HIDE DEF p
<1> DEFINE g == [f EXCEPT !.last = f.pc]
<1>3. /\ g \in Frame /\ g.decl = f.decl /\ g.mode = f.mode /\ g.last = f.pc
      /\ g.node = f.node /\ g.by = f.by /\ g.value = f.value
  BY <1>1 DEF Frame
<1> HIDE DEF g
<1>4. LET h == [g EXCEPT !.pc = p]
      IN /\ h \in Frame /\ h.decl = g.decl /\ h.mode = g.mode /\ h.pc = p /\ h.last = g.last
         /\ h.node = g.node /\ h.by = g.by /\ h.value = g.value
  BY <1>1, <1>3 DEF Frame
<1>5. QED
  BY <1>2, <1>3, <1>4 DEF p, g

\* Putting an activation in place of the top one.
LEMMA ReplaceTop ==
  ASSUME NEW s \in Seq(Frame), s # <<>>, NEW f \in Frame
  PROVE  LET t == [s EXCEPT ![Len(s)] = f]
         IN /\ t \in Seq(Frame) /\ Len(t) = Len(s) /\ t # <<>> /\ t[Len(s)] = f
            /\ \A i \in 1..Len(s) : i # Len(s) => t[i] = s[i]
<1>1. Len(s) \in 1..Len(s)
  OBVIOUS
<1>2. QED
  BY <1>1

LEMMA SetBy ==
  ASSUME NEW s \in Seq(Frame), s # <<>>, NEW by \in {"interpret", "skip_to"}
  PROVE  LET t == [s EXCEPT ![Len(s)].by = by]
             f == t[Len(s)]
         IN /\ t \in Seq(Frame) /\ Len(t) = Len(s) /\ t # <<>>
            /\ \A i \in 1..Len(s) : i # Len(s) => t[i] = s[i]
            /\ f \in Frame /\ f.decl = s[Len(s)].decl /\ f.mode = s[Len(s)].mode
            /\ f.pc = s[Len(s)].pc /\ f.last = s[Len(s)].last /\ f.node = s[Len(s)].node
            /\ f.value = s[Len(s)].value /\ f.by = by
<1> DEFINE g == [s[Len(s)] EXCEPT !.by = by]
<1>1. Len(s) \in 1..Len(s) /\ s[Len(s)] \in Frame
  OBVIOUS
<1>2. /\ g \in Frame /\ g.decl = s[Len(s)].decl /\ g.mode = s[Len(s)].mode
      /\ g.pc = s[Len(s)].pc /\ g.last = s[Len(s)].last /\ g.node = s[Len(s)].node
      /\ g.value = s[Len(s)].value /\ g.by = by
  BY <1>1 DEF Frame
<1>3. [s EXCEPT ![Len(s)].by = by] = [s EXCEPT ![Len(s)] = g]
  BY <1>1
<1> HIDE DEF g
<1> DEFINE t == [s EXCEPT ![Len(s)] = g]
<1>4. /\ t \in Seq(Frame) /\ Len(t) = Len(s) /\ t # <<>> /\ t[Len(s)] = g
      /\ \A i \in 1..Len(s) : i # Len(s) => t[i] = s[i]
  BY <1>2, ReplaceTop
<1> HIDE DEF t
<1>5. QED
  BY <1>2, <1>3, <1>4 DEF t

\* What is below the top activation.
LEMMA Below ==
  ASSUME NEW s \in Seq(Frame), s # <<>>
  PROVE  LET t == SubSeq(s, 1, Len(s) - 1)
         IN /\ t \in Seq(Frame) /\ Len(t) = Len(s) - 1
            /\ \A i \in 1..(Len(s) - 1) : t[i] = s[i]
<1>1. Len(s) \in Nat \ {0}
  OBVIOUS
<1>2. \A i \in 1..(Len(s) - 1) : 1 + i - 1 = i /\ i \in 1..Len(s)
  BY <1>1
<1>3. 1 \in 1..(Len(s) + 1) /\ Len(s) - 1 \in 0..Len(s) /\ (Len(s) - 1) - 1 + 1 = Len(s) - 1
  BY <1>1
<1>4. QED
  BY <1>2, <1>3, SubSeqProperties

\* The caller goes on: it finishes its statement, or skip_to passes over it.
LEMMA ContinueFields ==
  ASSUME NEW rest \in Seq(Frame), rest # <<>>, NEW r \in Values, NEW found \in BOOLEAN,
         NEW kept \in Values, Continue(rest, r, found, kept)
  PROVE  LET m == Len(rest)
             caller == rest[m]
             tail == Kind(caller) = "tail"
             finishes == caller.mode = "compiled" \/ caller.by = "interpret" \/ found
             f == frames'[m]
         IN /\ frames' \in Seq(Frame) /\ Len(frames') = m /\ frames' # <<>>
            /\ \A i \in 1..m : i # m => frames'[i] = rest[i]
            /\ f.decl = caller.decl /\ f.mode = caller.mode /\ f.by = caller.by
            /\ finishes => /\ f.pc = caller.pc + 1 /\ f.last = caller.pc
                           /\ f.value = IF tail /\ caller.mode = "compiled" THEN r ELSE caller.value
            /\ isReturning' = (tail /\ finishes /\ caller.mode # "compiled")
            /\ retVal' = IF tail /\ finishes /\ caller.mode # "compiled" THEN r ELSE kept
            /\ isReturning' \in BOOLEAN /\ retVal' \in Values
            /\ astNodeFound' = found /\ result' = r
<1> DEFINE m == Len(rest)
           caller == rest[m]
           tail == Kind(caller) = "tail"
           finishes == caller.mode = "compiled" \/ caller.by = "interpret" \/ found
           returns == tail /\ finishes /\ caller.mode # "compiled"
           p == caller.pc + 1
           skipped == [caller EXCEPT !.pc = p]
           done == [Executed(caller) EXCEPT !.value = IF tail /\ caller.mode = "compiled" THEN r ELSE @]
           after == IF ~finishes THEN skipped ELSE done
<1>1. /\ frames' = [rest EXCEPT ![m] = after] /\ isReturning' = returns
      /\ retVal' = (IF returns THEN r ELSE kept) /\ astNodeFound' = found /\ result' = r
  BY DEF Continue
<1>2. m \in 1..m /\ caller \in Frame
  OBVIOUS
<1>3. /\ skipped \in Frame /\ skipped.decl = caller.decl /\ skipped.mode = caller.mode
      /\ skipped.by = caller.by
  <2>1. p \in Nat
    BY <1>2 DEF Frame
  <2> HIDE DEF p
  <2>2. QED
    BY <1>2, <2>1 DEF Frame
<1>4. /\ done \in Frame /\ done.decl = caller.decl /\ done.mode = caller.mode
      /\ done.by = caller.by /\ done.pc = caller.pc + 1 /\ done.last = caller.pc
      /\ done.value = IF tail /\ caller.mode = "compiled" THEN r ELSE caller.value
  <2> DEFINE x == Executed(caller)
             v == IF tail /\ caller.mode = "compiled" THEN r ELSE x.value
  <2>1. /\ x \in Frame /\ x.decl = caller.decl /\ x.mode = caller.mode /\ x.by = caller.by
        /\ x.pc = caller.pc + 1 /\ x.last = caller.pc /\ x.value = caller.value
    BY <1>2, ExecutedFields
  <2>2. v \in Values
    BY <2>1 DEF Frame
  <2>3. done = [x EXCEPT !.value = v]
    OBVIOUS
  <2> HIDE DEF x, v, done, tail
  <2>4. /\ done \in Frame /\ done.decl = x.decl /\ done.mode = x.mode /\ done.by = x.by
        /\ done.pc = x.pc /\ done.last = x.last /\ done.value = v
    BY <2>1, <2>2, <2>3 DEF Frame
  <2>5. QED
    BY <2>1, <2>4 DEF v
<1> HIDE DEF skipped, done
<1>5. /\ after \in Frame /\ after.decl = caller.decl /\ after.mode = caller.mode
      /\ after.by = caller.by
      /\ finishes => /\ after.pc = caller.pc + 1 /\ after.last = caller.pc
                     /\ after.value = IF tail /\ caller.mode = "compiled" THEN r ELSE caller.value
  <2>1. CASE finishes
    BY <2>1, <1>4
  <2>2. CASE ~finishes
    BY <2>2, <1>3
  <2>3. QED
    BY <2>1, <2>2
<1> HIDE DEF after
<1>6. /\ frames' \in Seq(Frame) /\ Len(frames') = m /\ frames' # <<>> /\ frames'[m] = after
      /\ \A i \in 1..m : i # m => frames'[i] = rest[i]
  BY <1>1, <1>5, ReplaceTop
<1>7. isReturning' \in BOOLEAN /\ retVal' \in Values
  BY <1>1
<1>8. QED
  BY <1>1, <1>5, <1>6, <1>7

-----------------------------------------------------------------------------
(* The clean context.                                                      *)

LEMMA InitCleanInv == Init => CleanInv
<1>1. SUFFICES ASSUME Init PROVE CleanInv
  OBVIOUS
<1>2. frames = <<>> /\ frames \in Seq(Frame) /\ ~astNodeFound /\ ~isReturning
  BY <1>1 DEF Init
<1>3. TypeOK
  BY <1>1, <1>2 DEF Init, TypeOK, Values
<1>4. QED
  BY <1>2, <1>3 DEF CleanInv, FoundWhileResumed

\* A step that leaves the number of activations and their modes alone, and the
\* flags too or finds the node for a resumed activation.
LEMMA SameModes ==
  ASSUME CleanInv, frames' \in Seq(Frame), Len(frames') = Len(frames), frames # <<>>,
         \A i \in 1..Len(frames) : frames[i].mode = "resumed" => frames'[i].mode = "resumed",
         astNodeFound' = astNodeFound \/ (astNodeFound' = TRUE /\ Top.mode = "resumed"),
         isReturning' \in BOOLEAN, retVal' \in Values, result' \in Values,
         return_register' \in {Register[d] : d \in Decls} \cup {None}
  PROVE  CleanInv'
<1>1. frames \in Seq(Frame) /\ Len(frames) \in 1..Len(frames)
  BY DEF CleanInv, TypeOK
<1>2. astNodeFound' \in BOOLEAN
  BY Zenon DEF CleanInv, TypeOK
<1>3. TypeOK'
  BY <1>2 DEF TypeOK
<1>4. frames' # <<>>
  BY <1>1
<1>5. FoundWhileResumed'
  BY <1>1 DEF CleanInv, FoundWhileResumed, Top
<1>6. QED
  BY <1>3, <1>4, <1>5 DEF CleanInv

\* The end of an activation; when it was a resumed one, astNodeFound is cleared.
LEMMA DeliverKeepsClean ==
  ASSUME CleanInv, frames # <<>>, NEW r \in Values, NEW kept \in Values, NEW found \in BOOLEAN,
         found = FALSE \/ (found = astNodeFound /\ Top.mode # "resumed"),
         Deliver(r, found, kept), UNCHANGED return_register
  PROVE  CleanInv'
<1> DEFINE n == Len(frames)
           rest == SubSeq(frames, 1, n - 1)
<1>1. frames \in Seq(Frame) /\ n \in Nat \ {0}
  BY DEF CleanInv, TypeOK
<1>2. /\ rest \in Seq(Frame) /\ Len(rest) = n - 1 /\ \A i \in 1..(n - 1) : rest[i] = frames[i]
  BY <1>1, Below
<1>3. found => \E i \in 1..(n - 1) : frames[i].mode = "resumed"
  <2>1. SUFFICES ASSUME found PROVE \E i \in 1..(n - 1) : frames[i].mode = "resumed"
    OBVIOUS
  <2>2. PICK i \in 1..n : frames[i].mode = "resumed"
    BY <2>1 DEF CleanInv, FoundWhileResumed
  <2>3. i # n
    BY <2>1, <2>2 DEF Top
  <2>4. i \in 1..(n - 1)
    BY <2>3, <1>1
  <2>5. QED
    BY <2>2, <2>4
<1> HIDE DEF rest
<1>4. CASE rest # <<>> /\ Continue(rest, r, found, kept)
  <2> DEFINE m == Len(rest)
  <2>1. /\ frames' \in Seq(Frame) /\ Len(frames') = m /\ frames' # <<>>
        /\ \A i \in 1..m : i # m => frames'[i] = rest[i]
        /\ frames'[m].mode = rest[m].mode
        /\ isReturning' \in BOOLEAN /\ retVal' \in Values /\ astNodeFound' = found /\ result' = r
    BY <1>2, <1>4, ContinueFields
  <2>2. TypeOK'
    BY <2>1 DEF CleanInv, TypeOK
  <2>3. FoundWhileResumed'
    <3>1. \A i \in 1..(n - 1) : frames'[i].mode = frames[i].mode
      BY <1>2, <2>1
    <3>2. QED
      BY <3>1, <1>2, <1>3, <2>1 DEF FoundWhileResumed
  <2>4. QED
    BY <2>1, <2>2, <2>3 DEF CleanInv
<1>5. CASE rest = <<>> /\ frames' = <<>> /\ result' = r /\ isReturning' = FALSE
             /\ retVal' = kept /\ astNodeFound' = found
  <2>1. n - 1 = 0
    BY <1>2, <1>5
  <2>2. 1..0 = {}
    OBVIOUS
  <2>3. ~found
    BY <1>3, <2>1, <2>2, Zenon
  <2>4. frames' \in Seq(Frame) /\ astNodeFound' \in BOOLEAN /\ ~astNodeFound' /\ ~isReturning'
    BY <1>5, <2>3
  <2>5. TypeOK'
    BY <1>5, <2>4 DEF CleanInv, TypeOK
  <2>6. QED
    BY <2>4, <2>5 DEF CleanInv, FoundWhileResumed
<1>6. QED
  BY <1>4, <1>5 DEF Deliver, rest

\* A step of the top activation alone.
LEMMA ReplaceKeepsClean ==
  ASSUME CleanInv, frames # <<>>, NEW f \in Frame, Top.mode = "resumed" => f.mode = "resumed",
         Replace(f), UNCHANGED astNodeFound,
         isReturning' \in BOOLEAN, retVal' \in Values, result' \in Values,
         return_register' \in {Register[d] : d \in Decls} \cup {None}
  PROVE  CleanInv'
<1>1. frames \in Seq(Frame)
  BY DEF CleanInv, TypeOK
<1>2. frames' = [frames EXCEPT ![Len(frames)] = f]
  BY DEF Replace
<1>3. /\ frames' \in Seq(Frame) /\ Len(frames') = Len(frames) /\ frames'[Len(frames)] = f
      /\ \A i \in 1..Len(frames) : i # Len(frames) => frames'[i] = frames[i]
  BY <1>1, <1>2, ReplaceTop
<1>4. \A i \in 1..Len(frames) : frames[i].mode = "resumed" => frames'[i].mode = "resumed"
  BY <1>3 DEF Top
<1>5. QED
  BY <1>3, <1>4, SameModes

LEMMA TopIsFrame ==
  ASSUME frames \in Seq(Frame), frames # <<>>
  PROVE  Len(frames) \in 1..Len(frames) /\ Top = frames[Len(frames)] /\ Top \in Frame
BY DEF Top

\* The call statement is one of the top activation, and when it changes
\* astNodeFound that activation is a resumed one.
LEMMA ReachesCallMeans ==
  ASSUME NEW by \in {"interpret", "skip_to"}, NEW found \in BOOLEAN, ReachesCall(by, found)
  PROVE  /\ frames # <<>>
         /\ found = astNodeFound \/ (found = TRUE /\ Top.mode = "resumed")
BY DEF ReachesCall, Interprets, Runs, Searches

LEMMA EnterKeepsClean ==
  ASSUME CleanInv, NEW d \in Decls, NEW mode \in {"interpreted", "compiled"}, Enter(d, mode)
  PROVE  CleanInv'
<1> DEFINE new == [decl |-> d, mode |-> mode, pc |-> 1, last |-> 0, node |-> 0,
                   by |-> "interpret", value |-> None]
<1>1. frames \in Seq(Frame) /\ Len(frames) \in Nat
  BY DEF CleanInv, TypeOK
<1>2. new \in Frame
  BY DEF Frame, Values
<1>3. UNCHANGED <<isReturning, retVal, return_register, result>>
  BY DEF Enter
<1>4. CASE frames = <<>> /\ frames' = <<new>> /\ UNCHANGED astNodeFound
  <2> HIDE DEF new
  <2>1. frames' \in Seq(Frame) /\ frames' # <<>>
    BY <1>2, <1>4
  <2>2. ~astNodeFound
    <3>1. Len(frames) = 0 /\ 1..0 = {}
      BY <1>4
    <3>2. QED
      BY <3>1, Zenon DEF CleanInv, FoundWhileResumed
  <2>3. QED
    BY <1>3, <1>4, <2>1, <2>2 DEF CleanInv, TypeOK, FoundWhileResumed
<1>5. CASE \E by \in {"interpret", "skip_to"}, found \in BOOLEAN :
             /\ ReachesCall(by, found)
             /\ frames' = Append([frames EXCEPT ![Len(frames)].by = by], new)
             /\ astNodeFound' = found
  <2>1. PICK by \in {"interpret", "skip_to"}, found \in BOOLEAN :
             /\ ReachesCall(by, found)
             /\ frames' = Append([frames EXCEPT ![Len(frames)].by = by], new)
             /\ astNodeFound' = found
    BY <1>5
  <2> DEFINE s == [frames EXCEPT ![Len(frames)].by = by]
  <2> HIDE DEF new
  <2>2. /\ frames # <<>>
        /\ found = astNodeFound \/ (found = TRUE /\ Top.mode = "resumed")
    BY <2>1, ReachesCallMeans
  <2>3. /\ s \in Seq(Frame) /\ Len(s) = Len(frames)
        /\ \A i \in 1..Len(frames) : i # Len(frames) => s[i] = frames[i]
        /\ s[Len(frames)].mode = frames[Len(frames)].mode
    BY <1>1, <2>2, SetBy
  <2>4. frames' = Append(s, new)
    BY <2>1
  <2> HIDE DEF s
  <2>5. /\ frames' \in Seq(Frame) /\ Len(frames') = Len(frames) + 1 /\ frames' # <<>>
        /\ \A i \in 1..Len(frames) : frames'[i] = s[i]
    BY <1>1, <1>2, <2>3, <2>4
  <2>6. \A i \in 1..Len(frames) : frames'[i].mode = frames[i].mode
    BY <2>3, <2>5
  <2>7. found => \E i \in 1..Len(frames) : frames[i].mode = "resumed"
    <3>1. Len(frames) \in 1..Len(frames) /\ Top = frames[Len(frames)]
      BY <1>1, <2>2 DEF Top
    <3>2. QED
      BY <2>2, <3>1, Zenon DEF CleanInv, FoundWhileResumed
  <2>8. \A i \in 1..Len(frames) : i \in 1..Len(frames')
    BY <1>1, <2>5
  <2>9. FoundWhileResumed'
    BY <2>1, <2>6, <2>7, <2>8, Zenon DEF FoundWhileResumed
  <2>10. TypeOK'
    BY <1>3, <2>1, <2>5 DEF CleanInv, TypeOK
  <2>11. QED
    BY <2>5, <2>9, <2>10 DEF CleanInv
<1>6. QED
  BY <1>4, <1>5 DEF Enter

LEMMA NextCleanInv ==
  ASSUME CleanInv, [Next]_vars
  PROVE  CleanInv'
<1>1. /\ frames \in Seq(Frame) /\ isReturning \in BOOLEAN /\ astNodeFound \in BOOLEAN
      /\ retVal \in Values /\ result \in Values /\ None \in Values /\ Garbage \in Values
      /\ return_register \in {Register[d] : d \in Decls} \cup {None}
  BY DEF CleanInv, TypeOK, Values
<1>2. ASSUME frames # <<>>
      PROVE  /\ Top \in Frame /\ Top.decl \in Decls /\ Top.decl \in Values /\ Top.value \in Values
             /\ Executed(Top) \in Frame /\ Executed(Top).mode = Top.mode
  <2>1. Top \in Frame
    BY <1>1, <1>2, TopIsFrame
  <2>2. Top.decl \in Decls /\ Top.decl \in Values /\ Top.value \in Values
    BY <2>1 DEF Frame, Values
  <2>3. QED
    BY <2>1, <2>2, ExecutedFields
<1>3. CASE Work
  <2>1. /\ frames # <<>> /\ Replace(Executed(Top))
        /\ UNCHANGED <<context, return_register, result>>
    BY <1>3 DEF Work, Interprets, Runs
  <2>2. QED
    BY <1>1, <1>2, <2>1, ReplaceKeepsClean DEF context
<1>4. CASE InterpretReturn
  <2>1. /\ frames # <<>> /\ Replace(Executed(Top)) /\ retVal' = Top.decl /\ isReturning' = TRUE
        /\ UNCHANGED <<astNodeFound, return_register, result>>
    BY <1>4 DEF InterpretReturn, Interprets
  <2>2. QED
    BY <1>1, <1>2, <2>1, ReplaceKeepsClean
<1>5. CASE CompiledReturn
  <2> DEFINE x == Executed(Top)
             f == [x EXCEPT !.value = Top.decl]
  <2>1. /\ frames # <<>> /\ Replace(f) /\ UNCHANGED <<context, return_register, result>>
    BY <1>5 DEF CompiledReturn, Runs
  <2>2. x \in Frame /\ x.mode = Top.mode /\ Top.decl \in Values
    BY <1>2, <2>1
  <2> HIDE DEF x
  <2>3. f \in Frame /\ f.mode = Top.mode
    BY <2>2 DEF Frame
  <2> HIDE DEF f
  <2>4. QED
    BY <1>1, <2>1, <2>3, ReplaceKeepsClean DEF context
<1>6. CASE SkipStatement
  <2> DEFINE p == Top.pc + 1
             f == [Top EXCEPT !.pc = p]
  <2>1. /\ frames # <<>> /\ Replace(f) /\ UNCHANGED <<context, return_register, result>>
    BY <1>6 DEF SkipStatement, Searches
  <2>2. Top \in Frame /\ p \in Nat
    BY <1>2, <2>1 DEF Frame
  <2> HIDE DEF p
  <2>3. f \in Frame /\ f.mode = Top.mode
    BY <2>2 DEF Frame
  <2> HIDE DEF f
  <2>4. QED
    BY <1>1, <2>1, <2>3, ReplaceKeepsClean DEF context
<1>7. CASE \E d \in Decls, mode \in {"interpreted", "compiled"} : Enter(d, mode)
  BY <1>7, EnterKeepsClean
<1>8. CASE CallRuntime
  <2>1. PICK by \in {"interpret", "skip_to"}, found \in BOOLEAN :
          /\ ReachesCall(by, found)
          /\ Continue([frames EXCEPT ![Len(frames)].by = by], None, found, retVal)
    BY <1>8 DEF CallRuntime
  <2> DEFINE s == [frames EXCEPT ![Len(frames)].by = by]
  <2>2. /\ frames # <<>>
        /\ found = astNodeFound \/ (found = TRUE /\ Top.mode = "resumed")
    BY <2>1, ReachesCallMeans
  <2>3. /\ s \in Seq(Frame) /\ Len(s) = Len(frames) /\ s # <<>>
        /\ \A i \in 1..Len(frames) : i # Len(frames) => s[i] = frames[i]
        /\ s[Len(frames)].mode = frames[Len(frames)].mode
    BY <1>1, <2>2, SetBy
  <2>4. Continue(s, None, found, retVal)
    BY <2>1
  <2> HIDE DEF s
  <2>5. /\ frames' \in Seq(Frame) /\ Len(frames') = Len(s)
        /\ \A i \in 1..Len(s) : i # Len(s) => frames'[i] = s[i]
        /\ frames'[Len(s)].mode = s[Len(s)].mode
        /\ isReturning' \in BOOLEAN /\ retVal' \in Values /\ astNodeFound' = found /\ result' = None
    BY <1>1, <2>3, <2>4, ContinueFields
  <2>6. \A i \in 1..Len(frames) : frames[i].mode = "resumed" => frames'[i].mode = "resumed"
    BY <2>3, <2>5
  <2>7. return_register' = return_register
    BY <1>8 DEF CallRuntime
  <2>8. astNodeFound' = astNodeFound \/ (astNodeFound' = TRUE /\ Top.mode = "resumed")
    BY <2>2, <2>5
  <2>9. QED
    BY <1>1, <2>2, <2>3, <2>5, <2>6, <2>7, <2>8, SameModes
<1>9. CASE SideExit
  <2> DEFINE f == [Top EXCEPT !.mode = "resumed", !.node = Top.pc, !.pc = 1]
  <2>1. /\ frames # <<>> /\ Replace(f) /\ return_register' = Register[Top.decl]
        /\ UNCHANGED <<context, result>>
    BY <1>9 DEF SideExit, Runs
  <2>2. Top \in Frame /\ Top.decl \in Decls
    BY <1>2, <2>1
  <2>3. f \in Frame /\ f.mode = "resumed"
    BY <2>2 DEF Frame
  <2> HIDE DEF f
  <2>4. QED
    BY <1>1, <2>1, <2>2, <2>3, ReplaceKeepsClean DEF context
<1>10. CASE LeaveInterpreted
  <2>1. /\ frames # <<>> /\ Top.mode # "resumed" /\ Deliver(retVal, astNodeFound, None)
        /\ UNCHANGED return_register
    BY <1>10 DEF LeaveInterpreted
  <2>2. QED
    BY <1>1, <2>1, DeliverKeepsClean
<1>11. CASE LeaveCompiled
  <2>1. /\ frames # <<>> /\ Top.mode # "resumed" /\ Deliver(Top.value, astNodeFound, retVal)
        /\ UNCHANGED return_register
    BY <1>11 DEF LeaveCompiled
  <2>2. QED
    BY <1>1, <1>2, <2>1, DeliverKeepsClean
<1>12. CASE LeaveResumed
  <2> DEFINE r == IF return_register = Register[Top.decl] THEN retVal ELSE Garbage
  <2>1. frames # <<>> /\ Deliver(r, FALSE, retVal) /\ UNCHANGED return_register
    BY <1>12 DEF LeaveResumed
  <2>2. r \in Values /\ FALSE \in BOOLEAN
    BY <1>1
  <2> HIDE DEF r
  <2>3. QED
    BY <1>1, <2>1, <2>2, DeliverKeepsClean
<1>13. CASE UNCHANGED vars
  BY <1>13 DEF vars, context, CleanInv, TypeOK, FoundWhileResumed
<1>14. QED
  BY <1>3, <1>4, <1>5, <1>6, <1>7, <1>8, <1>9, <1>10, <1>11, <1>12, <1>13 DEF Next

\* The types, for all programs and however side exits nest.
THEOREM ResumeTypes == Spec => []TypeOK
<1>1. CleanInv => TypeOK
  BY DEF CleanInv
<1>2. CleanInv /\ [Next]_vars => CleanInv'
  BY NextCleanInv
<1>3. QED
  BY <1>1, <1>2, InitCleanInv, PTL DEF Spec

\* When a top-level statement ends, astNodeFound and isReturning are clear,
\* however side exits have nested below it: the flags that resumeInInterpreter
\* and skip_to share cannot make the next statement search or return.
THEOREM ContextEndsClean == Spec => []ContextIsClean
<1>1. ASSUME CleanInv PROVE ContextIsClean
  <2>1. SUFFICES ASSUME frames = <<>> PROVE ~astNodeFound /\ ~isReturning
    BY DEF ContextIsClean
  <2>2. Len(frames) = 0 /\ 1..0 = {}
    BY <2>1
  <2>3. QED
    BY <1>1, <2>1, <2>2, Zenon DEF CleanInv, FoundWhileResumed
<1>2. CleanInv /\ [Next]_vars => CleanInv'
  BY NextCleanInv
<1>3. QED
  BY <1>1, <1>2, InitCleanInv, PTL DEF Spec

-----------------------------------------------------------------------------
(* The inductive invariant of the refinement.                              *)

\* Every function ends with a return statement.
BodiesReturn ==
  \A d \in Decls : Body[d] # <<>> /\ Body[d][Len(Body[d])] \in Returning

LEMMA BodyFacts ==
  ASSUME NEW f \in Frame
  PROVE  /\ f.decl \in Decls /\ Body[f.decl] \in Seq(Statement) /\ Len(Body[f.decl]) \in Nat
         /\ f.pc \in Nat /\ f.last \in Nat /\ f.node \in Nat
         /\ \A k \in 1..Len(Body[f.decl]) : Body[f.decl][k] \in Statement
<1>1. /\ f.decl \in Decls /\ f.pc \in Nat /\ f.last \in Nat /\ f.node \in Nat
  BY DEF Frame
<1>2. Body[f.decl] \in Seq(Statement)
  BY <1>1, ResumeAssumption
<1>3. QED
  BY <1>1, <1>2

\* The predicates on activations read their control fields only.
LEMMA SameControl ==
  ASSUME NEW f, NEW g, g.decl = f.decl, g.pc = f.pc, g.last = f.last
  PROVE  /\ Waits(f) => Waits(g)
         /\ CodeReturned(g) <=> CodeReturned(f)
BY DEF Waits, InStep, CodeReturned, AtEnd, Kind

\* A body that ends without having returned is not over.
LEMMA EndIsReturn ==
  ASSUME BodiesReturn, NEW f \in Frame, InStep(f), AtEnd(f)
  PROVE  CodeReturned(f)
<1>1. f.last = Len(Body[f.decl]) /\ f.decl \in Decls
  BY BodyFacts DEF InStep, AtEnd
<1>2. Body[f.decl] \in Seq(Statement) /\ Body[f.decl] # <<>> /\ Body[f.decl][f.last] \in Returning
  BY <1>1, BodyFacts DEF BodiesReturn
<1>3. f.last > 0
  BY <1>1, <1>2
<1>4. QED
  BY <1>2, <1>3 DEF CodeReturned

\* A step of the top activation that changes neither the search nor, unless it
\* is a side exit, which activation is being resumed.
LEMMA ReplaceKeepsResume ==
  ASSUME ResumeInv, CleanInv', frames # <<>>, NEW f \in Frame, Replace(f),
         UNCHANGED astNodeFound, FrameOK(f),
         \/ f.mode = Top.mode /\ f.decl = Top.decl /\ UNCHANGED return_register
         \/ /\ \A i \in 1..Len(frames) : frames[i].mode # "resumed"
            /\ return_register' = Register[f.decl],
         IF f.mode = "resumed" /\ ~astNodeFound THEN OnTheWay(f) ELSE InStep(f),
         isReturning' <=> f.mode # "compiled" /\ CodeReturned(f)
  PROVE  ResumeInv'
<1> DEFINE n == Len(frames)
<1>1. frames \in Seq(Frame) /\ n \in 1..n /\ Top = frames[n]
  BY TopIsFrame DEF ResumeInv, CleanInv, TypeOK
<1>2. frames' = [frames EXCEPT ![n] = f]
  BY DEF Replace
<1>3. /\ frames' \in Seq(Frame) /\ Len(frames') = n /\ frames'[n] = f /\ frames' # <<>>
      /\ \A i \in 1..n : i # n => frames'[i] = frames[i]
  BY <1>1, <1>2, ReplaceTop
<1>4. Top' = f
  BY <1>3 DEF Top
<1>5. FramesOK'
  BY <1>3 DEF ResumeInv, FramesOK
<1>6. CallersWait'
  BY <1>3 DEF ResumeInv, CallersWait
<1>7. TopInStep' /\ ReturningIsOfTop'
  BY <1>3, <1>4 DEF TopInStep, ReturningIsOfTop
<1>8. OneResumed'
  <2>1. CASE f.mode = Top.mode /\ f.decl = Top.decl /\ UNCHANGED return_register
    <3>1. \A i \in 1..n : frames'[i].mode = frames[i].mode /\ frames'[i].decl = frames[i].decl
      BY <2>1, <1>1, <1>3
    <3>2. QED
      BY <2>1, <3>1, <1>3 DEF ResumeInv, OneResumed
  <2>2. CASE /\ \A i \in 1..Len(frames) : frames[i].mode # "resumed"
             /\ return_register' = Register[f.decl]
    <3>1. \A i \in 1..n : frames'[i].mode = "resumed" => i = n
      BY <2>2, <1>3
    <3>2. QED
      BY <2>2, <3>1, <1>3 DEF OneResumed
  <2>3. QED
    BY <2>1, <2>2
<1>9. QED
  BY <1>5, <1>6, <1>7, <1>8 DEF ResumeInv

\* At a call the top activation is one that can wait for its callee.
LEMMA CallerWaits ==
  ASSUME ResumeInv, NEW by \in {"interpret", "skip_to"}, NEW found \in BOOLEAN,
         ReachesCall(by, found)
  PROVE  /\ frames # <<>> /\ Waits(Top) /\ (Top.mode = "resumed" => found) /\ ~isReturning
         /\ Top.mode = "interpreted" => by = "interpret"
         /\ found = astNodeFound \/ (found = TRUE /\ Top.mode = "resumed")
<1>1. frames # <<>> /\ (found = astNodeFound \/ (found = TRUE /\ Top.mode = "resumed"))
  BY ReachesCallMeans
<1>2. Top \in Frame /\ Top.mode \in {"interpreted", "compiled", "resumed"}
  <2>1. Top \in Frame
    BY <1>1, TopIsFrame DEF ResumeInv, CleanInv, TypeOK
  <2>2. QED
    BY <2>1 DEF Frame
<1>3. CASE by = "interpret" /\ found = astNodeFound /\ Interprets(Calling)
  <2>1. /\ Top.mode = "interpreted" \/ (Top.mode = "resumed" /\ astNodeFound)
        /\ ~isReturning /\ ~AtEnd(Top) /\ Kind(Top) \in Calling
    BY <1>3 DEF Interprets
  <2>2. InStep(Top) /\ ~CodeReturned(Top)
    BY <1>1, <2>1 DEF ResumeInv, TopInStep, ReturningIsOfTop
  <2>3. QED
    BY <1>1, <1>3, <2>1, <2>2 DEF Waits
<1>4. CASE by = "interpret" /\ found = astNodeFound /\ Runs(Calling)
  <2>1. Top.mode = "compiled" /\ ~AtEnd(Top) /\ ~CodeReturned(Top) /\ Kind(Top) \in Calling
    BY <1>4 DEF Runs
  <2>2. InStep(Top) /\ ~isReturning
    BY <1>1, <2>1 DEF ResumeInv, TopInStep, ReturningIsOfTop
  <2>3. QED
    BY <1>1, <1>4, <2>1, <2>2 DEF Waits
<1>5. CASE by = "skip_to" /\ found = TRUE /\ Searches /\ Top.pc = Top.node
  <2>1. Top.mode = "resumed" /\ ~astNodeFound /\ ~isReturning /\ ~AtEnd(Top)
    BY <1>5 DEF Searches
  <2>2. OnTheWay(Top)
    BY <1>1, <2>1 DEF ResumeInv, TopInStep
  <2>3. InStep(Top)
    BY <1>2, <1>5, <2>2, BodyFacts DEF OnTheWay, InStep
  <2>4. Kind(Top) \in Calling /\ ~CodeReturned(Top)
    BY <1>5, <2>2 DEF OnTheWay, Kind, Guarded, Calling
  <2>5. QED
    BY <1>1, <1>5, <2>1, <2>3, <2>4 DEF Waits
<1>6. QED
  BY <1>3, <1>4, <1>5 DEF ReachesCall

\* A caller that waited finishes its statement.
LEMMA ContinueKeepsResume ==
  ASSUME CleanInv', NEW rest \in Seq(Frame), rest # <<>>, NEW r \in Values,
         NEW found \in BOOLEAN, NEW kept \in Values, Continue(rest, r, found, kept),
         \A i \in 1..Len(rest) : /\ FrameOK(rest[i]) /\ Waits(rest[i])
                                 /\ rest[i].mode = "resumed" => found,
         \A i, j \in 1..Len(rest) : rest[i].mode = "resumed" /\ rest[j].mode = "resumed" => i = j,
         \A i \in 1..Len(rest) : rest[i].mode = "resumed" => return_register' = Register[rest[i].decl]
  PROVE  /\ ResumeInv'
         /\ LET caller == rest[Len(rest)]
            IN caller.mode = "compiled" \/ caller.by = "interpret" \/ found
<1> DEFINE m == Len(rest)
           caller == rest[m]
           f == frames'[m]
           tail == Kind(caller) = "tail"
<1>1. m \in 1..m /\ caller \in Frame
  OBVIOUS
<1>2. Waits(caller) /\ FrameOK(caller) /\ (caller.mode = "resumed" => found)
  BY <1>1
<1>3. caller.mode = "compiled" \/ caller.by = "interpret" \/ found
  BY <1>1, <1>2 DEF FrameOK, Frame
<1>4. /\ frames' \in Seq(Frame) /\ Len(frames') = m /\ frames' # <<>>
      /\ \A i \in 1..m : i # m => frames'[i] = rest[i]
      /\ f.decl = caller.decl /\ f.mode = caller.mode /\ f.by = caller.by
      /\ f.pc = caller.pc + 1 /\ f.last = caller.pc
      /\ f.value = (IF tail /\ caller.mode = "compiled" THEN r ELSE caller.value)
      /\ isReturning' = (tail /\ caller.mode # "compiled") /\ astNodeFound' = found
  BY <1>3, ContinueFields
<1>5. /\ caller.pc \in Nat /\ caller.last \in Nat /\ Len(Body[caller.decl]) \in Nat
      /\ caller.pc = caller.last + 1 /\ caller.pc > 0 /\ caller.pc <= Len(Body[caller.decl])
      /\ Body[caller.decl][caller.pc] \in Calling /\ ~CodeReturned(caller)
  BY <1>1, <1>2, BodyFacts DEF Waits, InStep, AtEnd, Kind
<1>6. CodeReturned(f) <=> tail
  BY <1>4, <1>5 DEF CodeReturned, Kind, Calling, Returning
<1>7. InStep(f)
  BY <1>4, <1>5 DEF InStep
<1>8. FrameOK(f)
  BY <1>2, <1>4, <1>5, <1>6 DEF FrameOK
<1>9. Top' = f
  BY <1>4 DEF Top
<1> HIDE DEF f, caller, tail
<1>10. FramesOK'
  BY <1>4, <1>8 DEF FramesOK, f
<1>11. CallersWait'
  BY <1>4 DEF CallersWait
<1>12. TopInStep'
  BY <1>2, <1>4, <1>7, <1>9 DEF TopInStep
<1>13. ReturningIsOfTop'
  BY <1>4, <1>6, <1>9 DEF ReturningIsOfTop
<1>14. OneResumed'
  <2>1. \A i \in 1..m : frames'[i].mode = rest[i].mode /\ frames'[i].decl = rest[i].decl
    BY <1>4 DEF f, caller
  <2>2. QED
    BY <1>4, <2>1 DEF OneResumed
<1>15. QED
  BY <1>3, <1>10, <1>11, <1>12, <1>13, <1>14 DEF ResumeInv, caller

\* s is the activations with the caller's by noted, as a call leaves them.
CallersReady(s, found) ==
  /\ s \in Seq(Frame) /\ Len(s) = Len(frames) /\ s # <<>>
  /\ \A i \in 1..Len(frames) :
       /\ FrameOK(s[i]) /\ Waits(s[i]) /\ (s[i].mode = "resumed" => found)
       /\ s[i].mode = frames[i].mode /\ s[i].decl = frames[i].decl
       /\ s[i].last = frames[i].last /\ s[i].pc = frames[i].pc
       /\ s[i].value = frames[i].value

LEMMA CallersAtCall ==
  ASSUME ResumeInv, NEW by \in {"interpret", "skip_to"}, NEW found \in BOOLEAN,
         ReachesCall(by, found), NEW s, s = [frames EXCEPT ![Len(frames)].by = by]
  PROVE  CallersReady(s, found)
<1> DEFINE n == Len(frames)
<1>1. /\ frames # <<>> /\ Waits(Top) /\ (Top.mode = "resumed" => found)
      /\ Top.mode = "interpreted" => by = "interpret"
      /\ found = astNodeFound \/ (found = TRUE /\ Top.mode = "resumed")
  BY CallerWaits
<1>2. frames \in Seq(Frame) /\ n \in 1..n /\ Top = frames[n]
  BY <1>1, TopIsFrame DEF ResumeInv, CleanInv, TypeOK
<1>3. /\ s \in Seq(Frame) /\ Len(s) = n /\ s # <<>>
      /\ \A i \in 1..n : i # n => s[i] = frames[i]
      /\ s[n].decl = Top.decl /\ s[n].mode = Top.mode /\ s[n].pc = Top.pc
      /\ s[n].last = Top.last /\ s[n].value = Top.value /\ s[n].by = by
  <2> DEFINE t == [frames EXCEPT ![n].by = by]
  <2>1. /\ t \in Seq(Frame) /\ Len(t) = n /\ t # <<>>
        /\ \A i \in 1..n : i # n => t[i] = frames[i]
        /\ t[n].decl = frames[n].decl /\ t[n].mode = frames[n].mode /\ t[n].pc = frames[n].pc
        /\ t[n].last = frames[n].last /\ t[n].value = frames[n].value /\ t[n].by = by
    BY <1>1, <1>2, SetBy
  <2>2. s = t
    OBVIOUS
  <2> HIDE DEF t
  <2>3. QED
    BY <1>2, <2>1, <2>2
<1>4. \A i \in 1..n : /\ s[i].mode = frames[i].mode /\ s[i].decl = frames[i].decl
                      /\ s[i].last = frames[i].last /\ s[i].pc = frames[i].pc
                      /\ s[i].value = frames[i].value
  BY <1>2, <1>3
<1>5. Waits(s[n]) /\ (CodeReturned(s[n]) <=> CodeReturned(Top))
  BY <1>1, <1>3, SameControl
<1>6. FrameOK(Top)
  BY <1>2 DEF ResumeInv, FramesOK
<1>7. FrameOK(s[n]) /\ (s[n].mode = "resumed" => found)
  BY <1>1, <1>3, <1>5, <1>6 DEF FrameOK
<1>8. \A i \in 1..n : i # n => FrameOK(s[i]) /\ Waits(s[i]) /\ (s[i].mode = "resumed" => found)
  BY <1>1, <1>3 DEF ResumeInv, FramesOK, CallersWait
<1>9. QED
  BY <1>3, <1>4, <1>5, <1>7, <1>8 DEF CallersReady

LEMMA EnterKeepsResume ==
  ASSUME ResumeInv, CleanInv', NEW d \in Decls, NEW mode \in {"interpreted", "compiled"},
         Enter(d, mode)
  PROVE  ResumeInv'
<1> DEFINE new == [decl |-> d, mode |-> mode, pc |-> 1, last |-> 0, node |-> 0,
                   by |-> "interpret", value |-> None]
           n == Len(frames)
<1>1. frames \in Seq(Frame) /\ n \in Nat
  BY DEF ResumeInv, CleanInv, TypeOK
<1>2. new \in Frame
  BY DEF Frame, Values
<1>3. UNCHANGED <<isReturning, return_register>>
  BY DEF Enter
<1>4. /\ new.decl = d /\ new.mode = mode /\ new.pc = 1 /\ new.last = 0
      /\ new.by = "interpret" /\ new.value = None
  OBVIOUS
<1> HIDE DEF new
<1>5. InStep(new) /\ ~CodeReturned(new) /\ FrameOK(new) /\ new.mode # "resumed"
  <2>1. Len(Body[new.decl]) \in Nat
    BY <1>2, BodyFacts
  <2>2. QED
    BY <1>4, <2>1 DEF InStep, CodeReturned, FrameOK
<1>6. CASE frames = <<>> /\ frames' = <<new>> /\ UNCHANGED astNodeFound
  <2>1. Len(frames') = 1 /\ frames'[1] = new /\ frames' # <<>> /\ Top' = new
    BY <1>6 DEF Top
  <2>2. ~isReturning'
    BY <1>3, <1>6 DEF ResumeInv, CleanInv
  <2>3. FramesOK' /\ CallersWait' /\ OneResumed'
    BY <1>5, <2>1 DEF FramesOK, CallersWait, OneResumed
  <2>4. TopInStep' /\ ReturningIsOfTop'
    BY <1>5, <2>1, <2>2 DEF TopInStep, ReturningIsOfTop
  <2>5. QED
    BY <2>3, <2>4 DEF ResumeInv
<1>7. CASE \E by \in {"interpret", "skip_to"}, found \in BOOLEAN :
             /\ ReachesCall(by, found)
             /\ frames' = Append([frames EXCEPT ![Len(frames)].by = by], new)
             /\ astNodeFound' = found
  <2>1. PICK by \in {"interpret", "skip_to"}, found \in BOOLEAN :
             /\ ReachesCall(by, found)
             /\ frames' = Append([frames EXCEPT ![Len(frames)].by = by], new)
             /\ astNodeFound' = found
    BY <1>7
  <2>2. PICK s : s = [frames EXCEPT ![Len(frames)].by = by]
    OBVIOUS
  <2>3. /\ s \in Seq(Frame) /\ Len(s) = n
        /\ \A i \in 1..n : /\ FrameOK(s[i]) /\ Waits(s[i]) /\ (s[i].mode = "resumed" => found)
                           /\ s[i].mode = frames[i].mode /\ s[i].decl = frames[i].decl
    <3>1. CallersReady(s, found)
      BY <2>1, <2>2, CallersAtCall, Zenon
    <3>2. QED
      BY <3>1 DEF CallersReady
  <2>4. ~isReturning'
    BY <1>3, <2>1, CallerWaits
  <2>5. frames' = Append(s, new)
    BY <2>1, <2>2
  <2>6. /\ Len(frames') = n + 1 /\ frames' # <<>> /\ frames'[n + 1] = new
        /\ \A i \in 1..n : frames'[i] = s[i]
    <3>1. s \in Seq(Frame) /\ Len(s) = n
      BY <2>3
    <3>2. QED
      BY <1>1, <1>2, <2>5, <3>1
  <2>7. \A i \in 1..(n + 1) : i = n + 1 \/ i \in 1..n
    BY <1>1
  <2>8. FramesOK'
    BY <1>5, <2>3, <2>6, <2>7 DEF FramesOK
  <2>9. CallersWait'
    <3>1. SUFFICES ASSUME NEW i \in 1..(n + 1), i # n + 1
                   PROVE  Waits(frames'[i]) /\ (frames'[i].mode = "resumed" => astNodeFound')
      BY <2>6 DEF CallersWait
    <3>2. i \in 1..n
      BY <2>7, <3>1
    <3>3. QED
      BY <2>1, <2>3, <2>6, <3>2
  <2>10. Top' = new
    BY <2>6 DEF Top
  <2>11. TopInStep' /\ ReturningIsOfTop'
    BY <1>5, <2>4, <2>6, <2>10 DEF TopInStep, ReturningIsOfTop
  <2>12. OneResumed'
    <3>1. \A i \in 1..(n + 1) : frames'[i].mode = "resumed"
            => i \in 1..n /\ frames[i].mode = "resumed" /\ frames'[i].decl = frames[i].decl
      BY <1>5, <2>3, <2>6, <2>7
    <3>2. QED
      BY <1>3, <2>6, <3>1 DEF ResumeInv, OneResumed
  <2>13. QED
    BY <2>8, <2>9, <2>11, <2>12 DEF ResumeInv
<1>8. QED
  BY <1>6, <1>7 DEF Enter, new

\* The activations below the top, once it has ended.
LEMMA CallersAtReturn ==
  ASSUME ResumeInv, frames # <<>>, NEW found \in BOOLEAN,
         found = astNodeFound \/ Top.mode = "resumed",
         NEW rest, rest = SubSeq(frames, 1, Len(frames) - 1)
  PROVE  /\ rest \in Seq(Frame) /\ Len(rest) = Len(frames) - 1
         /\ \A i \in 1..Len(rest) : /\ FrameOK(rest[i]) /\ Waits(rest[i])
                                    /\ rest[i].mode = "resumed" => found
                                    /\ rest[i] = frames[i]
         /\ \A i, j \in 1..Len(rest) :
              rest[i].mode = "resumed" /\ rest[j].mode = "resumed" => i = j
         /\ \A i \in 1..Len(rest) :
              rest[i].mode = "resumed" => return_register = Register[rest[i].decl]
<1> DEFINE n == Len(frames)
<1>1. frames \in Seq(Frame) /\ n \in Nat \ {0} /\ n \in 1..n /\ Top = frames[n]
  BY TopIsFrame DEF ResumeInv, CleanInv, TypeOK
<1>2. rest \in Seq(Frame) /\ Len(rest) = n - 1 /\ \A i \in 1..(n - 1) : rest[i] = frames[i]
  BY <1>1, Below
<1>3. \A i \in 1..(n - 1) : i \in 1..n /\ i # n
  BY <1>1
<1>4. \A i \in 1..(n - 1) : /\ FrameOK(rest[i]) /\ Waits(rest[i])
                            /\ rest[i].mode = "resumed" => astNodeFound
  BY <1>2, <1>3 DEF ResumeInv, FramesOK, CallersWait
<1>5. \A i \in 1..(n - 1) : rest[i].mode = "resumed" => Top.mode # "resumed"
  BY <1>1, <1>2, <1>3 DEF ResumeInv, OneResumed
<1>6. \A i \in 1..(n - 1) : rest[i].mode = "resumed" => found
  BY <1>4, <1>5
<1>7. QED
  BY <1>2, <1>3, <1>4, <1>6 DEF ResumeInv, OneResumed

LEMMA DeliverKeepsResume ==
  ASSUME ResumeInv, CleanInv', frames # <<>>, NEW r \in Values, NEW kept \in Values,
         NEW found \in BOOLEAN, found = astNodeFound \/ Top.mode = "resumed",
         Deliver(r, found, kept), UNCHANGED return_register
  PROVE  ResumeInv'
<1> DEFINE rest == SubSeq(frames, 1, Len(frames) - 1)
<1>1. /\ rest \in Seq(Frame)
      /\ \A i \in 1..Len(rest) : /\ FrameOK(rest[i]) /\ Waits(rest[i])
                                 /\ rest[i].mode = "resumed" => found
      /\ \A i, j \in 1..Len(rest) :
           rest[i].mode = "resumed" /\ rest[j].mode = "resumed" => i = j
      /\ \A i \in 1..Len(rest) :
           rest[i].mode = "resumed" => return_register' = Register[rest[i].decl]
  BY CallersAtReturn
<1> HIDE DEF rest
<1>2. CASE rest # <<>> /\ Continue(rest, r, found, kept)
  BY <1>1, <1>2, ContinueKeepsResume
<1>3. CASE frames' = <<>> /\ isReturning' = FALSE
  <2>1. Len(frames') = 0 /\ frames' = <<>>
    BY <1>3
  <2>2. FramesOK' /\ CallersWait' /\ OneResumed'
    BY <2>1 DEF FramesOK, CallersWait, OneResumed
  <2>3. TopInStep' /\ ReturningIsOfTop'
    BY <1>3, <2>1 DEF TopInStep, ReturningIsOfTop
  <2>4. QED
    BY <2>2, <2>3 DEF ResumeInv
<1>4. QED
  BY <1>2, <1>3 DEF Deliver, rest

\* Executing a statement that makes no call: the top activation stays in step.
LEMMA ExecutedInStep ==
  ASSUME NEW f \in Frame, InStep(f), ~AtEnd(f), NEW g, g.decl = f.decl, g.pc = f.pc + 1, g.last = f.pc
  PROVE  /\ InStep(g)
         /\ CodeReturned(g) <=> Kind(f) \in Returning
<1>1. f.pc \in Nat /\ f.last \in Nat /\ Len(Body[f.decl]) \in Nat
  BY BodyFacts
<1>2. f.pc > 0 /\ f.pc <= Len(Body[f.decl])
  BY <1>1 DEF InStep, AtEnd
<1>3. QED
  BY <1>1, <1>2 DEF InStep, CodeReturned, Kind

LEMMA InitResumeInv == Init => ResumeInv
<1>1. SUFFICES ASSUME Init PROVE ResumeInv
  OBVIOUS
<1>2. frames = <<>> /\ Len(frames) = 0 /\ ~isReturning
  BY <1>1 DEF Init
<1>3. FramesOK /\ CallersWait /\ OneResumed
  BY <1>2 DEF FramesOK, CallersWait, OneResumed
<1>4. TopInStep /\ ReturningIsOfTop
  BY <1>2 DEF TopInStep, ReturningIsOfTop
<1>5. QED
  BY <1>1, <1>3, <1>4, InitCleanInv DEF ResumeInv

LEMMA NextResumeInv ==
  ASSUME ~NestedExits, ResumeInv, [Next]_vars
  PROVE  ResumeInv'
<1>1. /\ frames \in Seq(Frame) /\ isReturning \in BOOLEAN /\ astNodeFound \in BOOLEAN
      /\ retVal \in Values /\ None \in Values /\ Garbage \in Values /\ FALSE \in BOOLEAN
  BY DEF ResumeInv, CleanInv, TypeOK, Values
<1>2. CleanInv /\ CleanInv'
  BY NextCleanInv DEF ResumeInv
<1>3. ASSUME frames # <<>>
      PROVE  /\ Top \in Frame /\ FrameOK(Top) /\ Top.decl \in Values /\ Top.value \in Values
             /\ Top.mode \in {"interpreted", "compiled", "resumed"}
  <2>1. Top \in Frame /\ FrameOK(Top)
    BY <1>1, <1>3, TopIsFrame DEF ResumeInv, FramesOK
  <2>2. QED
    BY <2>1 DEF Frame, Values
<1>4. ASSUME NEW kinds, Interprets(kinds)
      PROVE  /\ frames # <<>> /\ InStep(Top) /\ ~AtEnd(Top) /\ ~isReturning /\ Top.mode # "compiled"
             /\ Kind(Top) \in kinds /\ ~(Top.mode = "resumed" /\ ~astNodeFound)
  BY <1>4 DEF Interprets, ResumeInv, TopInStep
<1>5. ASSUME NEW kinds, Runs(kinds)
      PROVE  /\ frames # <<>> /\ InStep(Top) /\ ~AtEnd(Top) /\ ~isReturning /\ Top.mode = "compiled"
             /\ Kind(Top) \in kinds /\ ~CodeReturned(Top)
  BY <1>5 DEF Runs, ResumeInv, TopInStep, ReturningIsOfTop
<1>6. CASE Work
  <2> DEFINE f == Executed(Top)
  <2>1. /\ frames # <<>> /\ InStep(Top) /\ ~AtEnd(Top) /\ ~isReturning /\ Kind(Top) = "work"
        /\ ~(Top.mode = "resumed" /\ ~astNodeFound)
        /\ Replace(f) /\ UNCHANGED <<context, return_register>>
        /\ Top.mode = "compiled" => ~CodeReturned(Top)
    BY <1>4, <1>5, <1>6 DEF Work
  <2>2. /\ f \in Frame /\ f.decl = Top.decl /\ f.mode = Top.mode /\ f.pc = Top.pc + 1
        /\ f.last = Top.pc /\ f.by = Top.by /\ f.value = Top.value
    BY <1>3, <2>1, ExecutedFields
  <2> HIDE DEF f
  <2>3. InStep(f) /\ ~CodeReturned(f)
    BY <1>3, <2>1, <2>2, ExecutedInStep DEF Returning
  <2>4. FrameOK(f)
    BY <1>3, <2>1, <2>2 DEF FrameOK
  <2>5. QED
    BY <1>2, <2>1, <2>2, <2>3, <2>4, ReplaceKeepsResume DEF context
<1>7. CASE InterpretReturn
  <2> DEFINE f == Executed(Top)
  <2>1. /\ frames # <<>> /\ InStep(Top) /\ ~AtEnd(Top) /\ Kind(Top) = "return"
        /\ ~(Top.mode = "resumed" /\ ~astNodeFound) /\ Top.mode # "compiled"
        /\ Replace(f) /\ UNCHANGED <<astNodeFound, return_register>> /\ isReturning'
    BY <1>4, <1>7 DEF InterpretReturn
  <2>2. /\ f \in Frame /\ f.decl = Top.decl /\ f.mode = Top.mode /\ f.pc = Top.pc + 1
        /\ f.last = Top.pc /\ f.by = Top.by
    BY <1>3, <2>1, ExecutedFields
  <2> HIDE DEF f
  <2>3. InStep(f) /\ CodeReturned(f)
    BY <1>3, <2>1, <2>2, ExecutedInStep DEF Returning
  <2>4. FrameOK(f)
    BY <1>3, <2>1, <2>2 DEF FrameOK
  <2>5. QED
    BY <1>2, <2>1, <2>2, <2>3, <2>4, ReplaceKeepsResume
<1>8. CASE CompiledReturn
  <2> DEFINE x == Executed(Top)
             f == [x EXCEPT !.value = Top.decl]
  <2>1. /\ frames # <<>> /\ InStep(Top) /\ ~AtEnd(Top) /\ Kind(Top) = "return"
        /\ Top.mode = "compiled" /\ ~isReturning
        /\ Replace(f) /\ UNCHANGED <<context, return_register>>
    BY <1>5, <1>8 DEF CompiledReturn
  <2>2. /\ x \in Frame /\ x.decl = Top.decl /\ x.mode = Top.mode /\ x.pc = Top.pc + 1
        /\ x.last = Top.pc /\ Top.decl \in Values
    BY <1>3, <2>1, ExecutedFields
  <2> HIDE DEF x
  <2>3. /\ f \in Frame /\ f.decl = Top.decl /\ f.mode = Top.mode /\ f.pc = Top.pc + 1
        /\ f.last = Top.pc
    BY <2>2 DEF Frame
  <2> HIDE DEF f
  <2>4. InStep(f) /\ CodeReturned(f)
    BY <1>3, <2>1, <2>3, ExecutedInStep DEF Returning
  <2>5. FrameOK(f)
    BY <2>1, <2>3, <2>4 DEF FrameOK
  <2>6. QED
    BY <1>2, <2>1, <2>3, <2>4, <2>5, ReplaceKeepsResume DEF context
<1>9. CASE SkipStatement
  <2> DEFINE p == Top.pc + 1
             f == [Top EXCEPT !.pc = p]
  <2>1. /\ frames # <<>> /\ Top.mode = "resumed" /\ ~astNodeFound /\ ~isReturning
        /\ Top.pc # Top.node /\ Replace(f) /\ UNCHANGED <<context, return_register>>
    BY <1>9 DEF SkipStatement, Searches
  <2>2. OnTheWay(Top) /\ Top \in Frame
    BY <1>3, <2>1 DEF ResumeInv, TopInStep
  <2>3. p \in Nat /\ p >= 1 /\ p <= Top.node
    BY <2>1, <2>2, BodyFacts DEF OnTheWay
  <2> HIDE DEF p
  <2>4. /\ f \in Frame /\ f.decl = Top.decl /\ f.mode = Top.mode /\ f.pc = p
        /\ f.last = Top.last /\ f.node = Top.node
    BY <2>2, <2>3 DEF Frame
  <2> HIDE DEF f
  <2>5. OnTheWay(f) /\ ~CodeReturned(f)
    BY <2>2, <2>3, <2>4 DEF OnTheWay, CodeReturned
  <2>6. FrameOK(f)
    BY <2>1, <2>4 DEF FrameOK
  <2>7. QED
    BY <1>2, <2>1, <2>4, <2>5, <2>6, ReplaceKeepsResume DEF context
<1>10. CASE \E d \in Decls, mode \in {"interpreted", "compiled"} : Enter(d, mode)
  BY <1>2, <1>10, EnterKeepsResume
<1>11. CASE CallRuntime
  <2>1. PICK by \in {"interpret", "skip_to"}, found \in BOOLEAN :
          /\ ReachesCall(by, found)
          /\ Continue([frames EXCEPT ![Len(frames)].by = by], None, found, retVal)
    BY <1>11 DEF CallRuntime
  <2>2. PICK s : s = [frames EXCEPT ![Len(frames)].by = by]
    OBVIOUS
  <2>3. CallersReady(s, found)
    BY <2>1, <2>2, CallersAtCall, Zenon
  <2>4. Continue(s, None, found, retVal) /\ return_register' = return_register
    BY <1>11, <2>1, <2>2 DEF CallRuntime
  <2>5. s \in Seq(Frame) /\ s # <<>> /\ Len(s) = Len(frames)
    BY <2>3 DEF CallersReady
  <2>6. \A i \in 1..Len(s) : /\ FrameOK(s[i]) /\ Waits(s[i])
                             /\ s[i].mode = "resumed" => found
    BY <2>3, <2>5 DEF CallersReady
  <2>7. \A i \in 1..Len(s) : s[i].mode = frames[i].mode /\ s[i].decl = frames[i].decl
    BY <2>3, <2>5 DEF CallersReady
  <2>8. /\ \A i, j \in 1..Len(s) : s[i].mode = "resumed" /\ s[j].mode = "resumed" => i = j
        /\ \A i \in 1..Len(s) : s[i].mode = "resumed" => return_register' = Register[s[i].decl]
    BY <2>4, <2>5, <2>7 DEF ResumeInv, OneResumed
  <2>9. QED
    BY <1>1, <1>2, <2>4, <2>5, <2>6, <2>8, ContinueKeepsResume
<1>12. CASE SideExit
  <2> DEFINE f == [Top EXCEPT !.mode = "resumed", !.node = Top.pc, !.pc = 1]
  <2>1. /\ frames # <<>> /\ InStep(Top) /\ ~AtEnd(Top) /\ ~isReturning
        /\ Kind(Top) \in Guarded /\ ~CodeReturned(Top)
        /\ \A i \in 1..Len(frames) : frames[i].mode # "resumed"
        /\ Replace(f) /\ return_register' = Register[Top.decl] /\ UNCHANGED context
    BY <1>5, <1>12 DEF SideExit
  <2>2. Top \in Frame
    BY <1>3, <2>1
  <2>3. /\ f \in Frame /\ f.decl = Top.decl /\ f.mode = "resumed" /\ f.pc = 1
        /\ f.last = Top.last /\ f.node = Top.pc
    BY <2>2 DEF Frame
  <2> HIDE DEF f
  <2>4. /\ Top.pc = Top.last + 1 /\ Top.pc <= Len(Body[Top.decl]) /\ Top.pc >= 1
    BY <2>1, <2>2, BodyFacts DEF InStep, AtEnd
  <2>5. OnTheWay(f) /\ ~CodeReturned(f)
    BY <2>1, <2>3, <2>4 DEF OnTheWay, CodeReturned, Kind
  <2>6. FrameOK(f)
    BY <2>3 DEF FrameOK
  <2>7. ~astNodeFound
    BY <1>2, <2>1 DEF CleanInv, FoundWhileResumed
  <2>8. QED
    BY <1>2, <2>1, <2>3, <2>5, <2>6, <2>7, ReplaceKeepsResume DEF context
<1>13. CASE LeaveInterpreted
  <2>1. /\ frames # <<>> /\ Deliver(retVal, astNodeFound, None) /\ UNCHANGED return_register
    BY <1>13 DEF LeaveInterpreted
  <2>2. QED
    BY <1>1, <1>2, <2>1, DeliverKeepsResume
<1>14. CASE LeaveCompiled
  <2>1. /\ frames # <<>> /\ Deliver(Top.value, astNodeFound, retVal) /\ UNCHANGED return_register
    BY <1>14 DEF LeaveCompiled
  <2>2. QED
    BY <1>1, <1>2, <1>3, <2>1, DeliverKeepsResume
<1>15. CASE LeaveResumed
  <2> DEFINE r == IF return_register = Register[Top.decl] THEN retVal ELSE Garbage
  <2>1. /\ frames # <<>> /\ Top.mode = "resumed" /\ Deliver(r, FALSE, retVal)
        /\ UNCHANGED return_register
    BY <1>15 DEF LeaveResumed
  <2>2. r \in Values
    BY <1>1
  <2> HIDE DEF r
  <2>3. QED
    BY <1>1, <1>2, <2>1, <2>2, DeliverKeepsResume
<1>16. CASE UNCHANGED vars
  BY <1>2, <1>16 DEF vars, context, ResumeInv, FramesOK, CallersWait, TopInStep, Top,
                     ReturningIsOfTop, OneResumed
<1>17. QED
  BY <1>6, <1>7, <1>8, <1>9, <1>10, <1>11, <1>12, <1>13, <1>14, <1>15, <1>16 DEF Next

-----------------------------------------------------------------------------
(* The refinement.                                                         *)

\* What an activation is in the abstract specification.
Activation(i) ==
  [decl |-> frames[i].decl, done |-> frames[i].last, value |-> ValueOf(i)]

AbstractStack == [i \in 1..Len(frames) |-> Activation(i)]

AbstractFrame == [decl : Decls, done : Nat, value : Values]

Last(s) == s[Len(s)]

Finished(a) ==
  a.done = Len(Body[a.decl]) \/ (a.done > 0 /\ Body[a.decl][a.done] \in Returning)

\* The actions of the abstract specification, on the abstract stack.
LEMMA AbstractWork ==
  ASSUME AbstractStack # <<>>, ~Finished(Last(AbstractStack)),
         Body[Last(AbstractStack).decl][Last(AbstractStack).done + 1] = "work",
         AbstractStack' = [AbstractStack EXCEPT ![Len(AbstractStack)] =
                             [Last(AbstractStack) EXCEPT !.done = @ + 1]],
         UNCHANGED result
  PROVE  Abstract!Next
BY DEF Abstract!Next, Abstract!Work, Abstract!At, Abstract!Finished, Abstract!Top,
       Abstract!Replace, Abstract!Returning, AbstractStack, Activation, Finished, Last, Returning

LEMMA AbstractReturn ==
  ASSUME AbstractStack # <<>>, ~Finished(Last(AbstractStack)),
         Body[Last(AbstractStack).decl][Last(AbstractStack).done + 1] = "return",
         AbstractStack' = [AbstractStack EXCEPT ![Len(AbstractStack)] =
                             [Last(AbstractStack) EXCEPT !.done = @ + 1,
                                                         !.value = Last(AbstractStack).decl]],
         UNCHANGED result
  PROVE  Abstract!Next
<1>1. Abstract!At({"return"})
  BY DEF Abstract!At, Abstract!Finished, Abstract!Top, Abstract!Returning,
         AbstractStack, Activation, Finished, Last, Returning
<1>2. Abstract!Return
  BY <1>1 DEF Abstract!Return, Abstract!Top, Abstract!Replace, AbstractStack, Activation, Last
<1>3. QED
  BY <1>2 DEF Abstract!Next

LEMMA AbstractCall ==
  ASSUME \/ AbstractStack = <<>>
         \/ /\ AbstractStack # <<>> /\ ~Finished(Last(AbstractStack))
            /\ Body[Last(AbstractStack).decl][Last(AbstractStack).done + 1] \in Calling,
         Len(AbstractStack) < MaxDepth, NEW d \in Decls,
         AbstractStack' = Append(AbstractStack, [decl |-> d, done |-> 0, value |-> None]),
         UNCHANGED result
  PROVE  Abstract!Next
<1>1. Abstract!Call(d)
  BY DEF Abstract!Call, Abstract!At, Abstract!Finished, Abstract!Top, Abstract!Calling,
         Abstract!Returning, AbstractStack, Activation, Finished, Last, Calling, Returning
<1>2. QED
  BY <1>1 DEF Abstract!Next

\* An activation after its next statement, a call that produced r.
Called(a, r) ==
  [a EXCEPT !.done = @ + 1, !.value = IF Body[a.decl][a.done + 1] = "tail" THEN r ELSE @]

LEMMA AbstractCallOther ==
  ASSUME AbstractStack # <<>>, ~Finished(Last(AbstractStack)),
         Body[Last(AbstractStack).decl][Last(AbstractStack).done + 1] \in Calling,
         AbstractStack' = [AbstractStack EXCEPT ![Len(AbstractStack)] =
                             Called(Last(AbstractStack), None)],
         result' = None
  PROVE  Abstract!Next
BY DEF Abstract!Next, Abstract!CallOther, Abstract!At, Abstract!Finished, Abstract!Top,
       Abstract!Replace, Abstract!Calling, Abstract!Returning, Abstract!Called, Called,
       AbstractStack, Activation, Finished, Last, Calling, Returning

LEMMA AbstractLeave ==
  ASSUME AbstractStack # <<>>, Finished(Last(AbstractStack)),
         result' = Last(AbstractStack).value,
         LET below == SubSeq(AbstractStack, 1, Len(AbstractStack) - 1)
         IN AbstractStack' = IF below = <<>> THEN <<>>
                             ELSE [below EXCEPT ![Len(below)] = Called(@, Last(AbstractStack).value)]
  PROVE  Abstract!Next
BY DEF Abstract!Next, Abstract!Leave, Abstract!Finished, Abstract!Top, Abstract!Returning,
       Abstract!Called, Called, AbstractStack, Activation, Finished, Last, Returning

\* The abstract stack, activation by activation.
AbstractFields ==
  /\ AbstractStack \in Seq(AbstractFrame) /\ Len(AbstractStack) = Len(frames)
  /\ \A i \in 1..Len(frames) : /\ AbstractStack[i].decl = frames[i].decl
                               /\ AbstractStack[i].done = frames[i].last
                               /\ AbstractStack[i].value = ValueOf(i)

LEMMA AbstractStackFields == TypeOK => AbstractFields
<1>1. SUFFICES ASSUME TypeOK PROVE AbstractFields
  OBVIOUS
<1> DEFINE n == Len(frames)
<1>2. frames \in Seq(Frame) /\ n \in Nat /\ \A i \in 1..n : frames[i] \in Frame
  BY <1>1 DEF TypeOK
<1>3. \A i \in 1..n : frames[i].decl \in Decls /\ frames[i].last \in Nat /\ frames[i].value \in Values
  BY <1>2 DEF Frame
<1>4. \A i \in 1..n : ValueOf(i) \in Values
  BY <1>1, <1>3 DEF ValueOf, Values, TypeOK
<1>5. \A i \in 1..n : Activation(i) \in AbstractFrame
  BY <1>3, <1>4 DEF Activation, AbstractFrame
<1>6. AbstractStack \in [1..n -> AbstractFrame]
  BY <1>5 DEF AbstractStack
<1>7. AbstractStack \in Seq(AbstractFrame) /\ Len(AbstractStack) = n
  BY <1>2, <1>6
<1>8. \A i \in 1..n : AbstractStack[i] = Activation(i)
  BY DEF AbstractStack
<1>9. \A i \in 1..n : /\ AbstractStack[i].decl = frames[i].decl
                      /\ AbstractStack[i].done = frames[i].last
                      /\ AbstractStack[i].value = ValueOf(i)
  <2>1. ASSUME NEW i \in 1..n
        PROVE  /\ Activation(i).decl = frames[i].decl /\ Activation(i).done = frames[i].last
               /\ Activation(i).value = ValueOf(i)
    BY DEF Activation
  <2>2. QED
    BY <1>8, <2>1
<1>10. QED
  BY <1>7, <1>9 DEF AbstractFields

LEMMA AbstractStackFieldsAfter == TypeOK' => AbstractFields'
BY AbstractStackFields, PTL

\* Two abstract stacks with the same fields are the same.
LEMMA AbstractEqual ==
  ASSUME NEW s \in Seq(AbstractFrame), NEW t \in Seq(AbstractFrame), Len(s) = Len(t),
         \A i \in 1..Len(s) : s[i].decl = t[i].decl /\ s[i].done = t[i].done /\ s[i].value = t[i].value
  PROVE  s = t
<1>1. ASSUME NEW i \in 1..Len(s) PROVE s[i] = t[i]
  <2>1. s[i] \in AbstractFrame /\ t[i] \in AbstractFrame
    BY <1>1
  <2>2. QED
    BY <1>1, <2>1 DEF AbstractFrame
<1>2. QED
  BY <1>1, SeqEqual

LEMMA CalledFields ==
  ASSUME NEW a \in AbstractFrame, NEW r \in Values
  PROVE  /\ Called(a, r) \in AbstractFrame
         /\ Called(a, r).decl = a.decl /\ Called(a, r).done = a.done + 1
         /\ Called(a, r).value = IF Body[a.decl][a.done + 1] = "tail" THEN r ELSE a.value
<1> DEFINE p == a.done + 1
           v == IF Body[a.decl][a.done + 1] = "tail" THEN r ELSE a.value
<1>1. p \in Nat /\ v \in Values
  BY DEF AbstractFrame
<1>2. Called(a, r) = [a EXCEPT !.done = p, !.value = v]
  BY DEF Called, AbstractFrame
<1> HIDE DEF p, v
<1>3. LET b == [a EXCEPT !.done = p, !.value = v]
      IN b \in AbstractFrame /\ b.decl = a.decl /\ b.done = p /\ b.value = v
  BY <1>1 DEF AbstractFrame
<1>4. QED
  BY <1>2, <1>3 DEF p, v

\* An activation that has not returned has no value yet.
NoValueYet ==
  \A i \in 1..Len(frames) : ~CodeReturned(frames[i]) => ValueOf(i) = None

LEMMA ValuesOfReturned == ResumeInv => NoValueYet
<1>1. SUFFICES ASSUME ResumeInv, NEW i \in 1..Len(frames), ~CodeReturned(frames[i])
               PROVE  ValueOf(i) = None
  BY DEF NoValueYet
<1>2. FrameOK(frames[i])
  BY <1>1 DEF ResumeInv, FramesOK
<1>3. i = Len(frames) => Top = frames[i] /\ (isReturning => frames[i].mode = "compiled")
  BY <1>1 DEF ResumeInv, ReturningIsOfTop, Top
<1>4. QED
  BY <1>1, <1>2, <1>3 DEF ValueOf, FrameOK

LEMMA ValuesOfReturnedAfter == ResumeInv' => NoValueYet'
BY ValuesOfReturned, PTL

\* The top activation becomes a, the others stay.
LEMMA AbstractReplace ==
  ASSUME AbstractFields, AbstractFields', frames # <<>>, Len(frames') = Len(frames),
         frames \in Seq(Frame), NEW a \in AbstractFrame,
         \A i \in 1..Len(frames) :
           IF i = Len(frames)
             THEN frames'[i].decl = a.decl /\ frames'[i].last = a.done /\ ValueOf(i)' = a.value
             ELSE /\ frames'[i].decl = frames[i].decl /\ frames'[i].last = frames[i].last
                  /\ ValueOf(i)' = ValueOf(i)
  PROVE  AbstractStack' = [AbstractStack EXCEPT ![Len(AbstractStack)] = a]
<1> DEFINE n == Len(frames)
           t == [AbstractStack EXCEPT ![n] = a]
<1>1. /\ AbstractStack \in Seq(AbstractFrame) /\ Len(AbstractStack) = n
      /\ AbstractStack' \in Seq(AbstractFrame) /\ Len(AbstractStack') = n /\ n \in 1..n
  BY DEF AbstractFields
<1>2. /\ t \in Seq(AbstractFrame) /\ Len(t) = n /\ t[n] = a
      /\ \A i \in 1..n : i # n => t[i] = AbstractStack[i]
  BY <1>1
<1>3. ASSUME NEW i \in 1..n
      PROVE  /\ AbstractStack'[i].decl = t[i].decl /\ AbstractStack'[i].done = t[i].done
             /\ AbstractStack'[i].value = t[i].value
  <2>1. /\ AbstractStack'[i].decl = frames'[i].decl /\ AbstractStack'[i].done = frames'[i].last
        /\ AbstractStack'[i].value = ValueOf(i)'
    BY <1>3 DEF AbstractFields
  <2>2. /\ AbstractStack[i].decl = frames[i].decl /\ AbstractStack[i].done = frames[i].last
        /\ AbstractStack[i].value = ValueOf(i)
    BY <1>3 DEF AbstractFields
  <2> HIDE DEF t
  <2>3. CASE i = n
    BY <2>1, <2>3, <1>2
  <2>4. CASE i # n
    BY <2>1, <2>2, <2>4, <1>2, <1>3
  <2>5. QED
    BY <2>3, <2>4
<1> HIDE DEF t
<1>4. AbstractStack' = t
  BY <1>1, <1>2, <1>3, AbstractEqual
<1>5. QED
  BY <1>1, <1>4 DEF t

-----------------------------------------------------------------------------
(* Every step is a step of the abstract specification, or none.            *)

\* The last activation of the abstract stack is the top one.
LEMMA AbstractTop ==
  ASSUME AbstractFields, frames \in Seq(Frame), frames # <<>>
  PROVE  /\ AbstractStack # <<>> /\ Last(AbstractStack) \in AbstractFrame
         /\ Last(AbstractStack).decl = Top.decl /\ Last(AbstractStack).done = Top.last
         /\ Last(AbstractStack).value = ValueOf(Len(frames))
         /\ Finished(Last(AbstractStack)) <=> Top.last = Len(Body[Top.decl]) \/ CodeReturned(Top)
<1>1. Len(frames) \in 1..Len(frames) /\ Top = frames[Len(frames)]
  BY DEF Top
<1>2. /\ AbstractStack \in Seq(AbstractFrame) /\ Len(AbstractStack) = Len(frames)
      /\ AbstractStack[Len(frames)].decl = Top.decl /\ AbstractStack[Len(frames)].done = Top.last
      /\ AbstractStack[Len(frames)].value = ValueOf(Len(frames))
  BY <1>1 DEF AbstractFields
<1>3. AbstractStack # <<>> /\ AbstractStack[Len(frames)] \in AbstractFrame
  BY <1>1, <1>2
<1>4. Last(AbstractStack) = AbstractStack[Len(frames)]
  BY <1>2 DEF Last
<1>5. QED
  BY <1>2, <1>3, <1>4 DEF Finished, CodeReturned

\* An activation that is in step and not at its end has statements left.
LEMMA NotFinished ==
  ASSUME AbstractFields, frames \in Seq(Frame), frames # <<>>, InStep(Top), ~AtEnd(Top),
         ~CodeReturned(Top)
  PROVE  /\ AbstractStack # <<>> /\ ~Finished(Last(AbstractStack))
         /\ Body[Last(AbstractStack).decl][Last(AbstractStack).done + 1] = Kind(Top)
<1>1. /\ AbstractStack # <<>>
      /\ Last(AbstractStack).decl = Top.decl /\ Last(AbstractStack).done = Top.last
      /\ Finished(Last(AbstractStack)) <=> Top.last = Len(Body[Top.decl]) \/ CodeReturned(Top)
  BY AbstractTop
<1>2. Top \in Frame
  BY TopIsFrame
<1>3. Top.pc = Top.last + 1 /\ Top.last # Len(Body[Top.decl])
  BY <1>2, BodyFacts DEF InStep, AtEnd
<1>4. QED
  BY <1>1, <1>3 DEF Kind

\* A step that replaces the top activation by f, which has executed the
\* statement that Top was at and made no call.
LEMMA ExecutedStep ==
  ASSUME ResumeInv, ResumeInv', frames # <<>>, NEW f \in Frame, Replace(f),
         f.decl = Top.decl, f.last = Top.last + 1, NEW a \in AbstractFrame,
         a.decl = Top.decl, a.done = Top.last + 1,
         \A i \in 1..Len(frames) : i = Len(frames) => ValueOf(i)' = a.value
  PROVE  AbstractStack' = [AbstractStack EXCEPT ![Len(AbstractStack)] = a]
<1> DEFINE n == Len(frames)
<1>1. frames \in Seq(Frame) /\ AbstractFields /\ AbstractFields' /\ NoValueYet /\ NoValueYet'
  BY AbstractStackFields, AbstractStackFieldsAfter, ValuesOfReturned, ValuesOfReturnedAfter
     DEF ResumeInv, CleanInv, TypeOK
<1>2. /\ Len(frames') = n /\ frames'[n] = f
      /\ \A i \in 1..n : i # n => frames'[i] = frames[i]
  BY <1>1, ReplaceTop DEF Replace
<1>3. \A i \in 1..n : i # n => ~CodeReturned(frames[i])
  BY DEF ResumeInv, CallersWait, Waits
<1>4. \A i \in 1..n : i # n => ValueOf(i) = None /\ ValueOf(i)' = None
  BY <1>1, <1>2, <1>3 DEF NoValueYet
<1>5. QED
  BY <1>1, <1>2, <1>4, AbstractReplace

\* Searching, and leaving compiled code for the search, are not visible.
LEMMA SearchIsInvisible ==
  ASSUME ResumeInv, ResumeInv', frames # <<>>, NEW f \in Frame, Replace(f),
         f.decl = Top.decl, f.last = Top.last, ~CodeReturned(Top)
  PROVE  UNCHANGED AbstractStack
<1> DEFINE n == Len(frames)
<1>1. frames \in Seq(Frame) /\ AbstractFields /\ AbstractFields' /\ NoValueYet /\ NoValueYet'
  BY AbstractStackFields, AbstractStackFieldsAfter, ValuesOfReturned, ValuesOfReturnedAfter
     DEF ResumeInv, CleanInv, TypeOK
<1>2. /\ Len(frames') = n /\ frames'[n] = f /\ n \in 1..n /\ Top = frames[n]
      /\ \A i \in 1..n : i # n => frames'[i] = frames[i]
  BY <1>1, ReplaceTop, TopIsFrame DEF Replace
<1>3. \A i \in 1..n : /\ frames'[i].decl = frames[i].decl /\ frames'[i].last = frames[i].last
                      /\ ~CodeReturned(frames[i])
  BY <1>2 DEF ResumeInv, CallersWait, Waits
<1>4. \A i \in 1..n : ~CodeReturned(frames'[i])
  BY <1>3 DEF CodeReturned
<1>5. \A i \in 1..n : ValueOf(i) = None /\ ValueOf(i)' = None
  BY <1>1, <1>2, <1>3, <1>4 DEF NoValueYet
<1>6. /\ AbstractStack \in Seq(AbstractFrame) /\ Len(AbstractStack) = n
      /\ AbstractStack' \in Seq(AbstractFrame) /\ Len(AbstractStack') = n
  BY <1>1, <1>2 DEF AbstractFields
<1>7. \A i \in 1..n : /\ AbstractStack[i].decl = frames[i].decl
                      /\ AbstractStack[i].done = frames[i].last
                      /\ AbstractStack[i].value = ValueOf(i)
  BY <1>1 DEF AbstractFields
<1>8. \A i \in 1..n : /\ AbstractStack'[i].decl = frames'[i].decl
                      /\ AbstractStack'[i].done = frames'[i].last
                      /\ AbstractStack'[i].value = ValueOf(i)'
  BY <1>1, <1>2 DEF AbstractFields
<1>9. \A i \in 1..n : /\ AbstractStack'[i].decl = AbstractStack[i].decl
                      /\ AbstractStack'[i].done = AbstractStack[i].done
                      /\ AbstractStack'[i].value = AbstractStack[i].value
  BY <1>3, <1>5, <1>7, <1>8
<1>10. QED
  BY <1>6, <1>9, AbstractEqual

\* Compiled code and the loops of interpret and skip_to execute a statement of
\* an activation that is in step.
LEMMA AtStatement ==
  ASSUME ResumeInv, NEW kinds, Interprets(kinds) \/ Runs(kinds)
  PROVE  /\ frames \in Seq(Frame) /\ frames # <<>> /\ Top \in Frame /\ AbstractFields
         /\ InStep(Top) /\ ~AtEnd(Top) /\ ~CodeReturned(Top) /\ Kind(Top) \in kinds
         /\ Top.pc = Top.last + 1 /\ ValueOf(Len(frames)) = None
         /\ Interprets(kinds) => Top.mode # "compiled"
         /\ Runs(kinds) => Top.mode = "compiled"
<1>1. frames \in Seq(Frame) /\ frames # <<>>
  BY DEF ResumeInv, CleanInv, TypeOK, Interprets, Runs
<1>2. Top \in Frame /\ Len(frames) \in 1..Len(frames) /\ Top = frames[Len(frames)]
  BY <1>1, TopIsFrame
<1>3. /\ ~AtEnd(Top) /\ Kind(Top) \in kinds
      /\ Interprets(kinds) => /\ Top.mode # "compiled" /\ ~isReturning
                              /\ ~(Top.mode = "resumed" /\ ~astNodeFound)
      /\ Runs(kinds) => Top.mode = "compiled" /\ ~CodeReturned(Top)
  BY DEF Interprets, Runs
<1>4. InStep(Top) /\ ~CodeReturned(Top)
  BY <1>1, <1>3 DEF ResumeInv, TopInStep, ReturningIsOfTop
<1>5. AbstractFields /\ NoValueYet
  BY AbstractStackFields, ValuesOfReturned DEF ResumeInv, CleanInv
<1>6. ValueOf(Len(frames)) = None
  BY <1>2, <1>4, <1>5 DEF NoValueYet
<1>7. Top.pc = Top.last + 1
  BY <1>4 DEF InStep
<1>8. QED
  BY <1>1, <1>2, <1>3, <1>4, <1>5, <1>6, <1>7

LEMMA WorkStep ==
  ASSUME ResumeInv, ResumeInv', Work
  PROVE  Abstract!Next
<1> DEFINE f == Executed(Top)
           last == Last(AbstractStack)
           p == last.done + 1
           a == [last EXCEPT !.done = p]
<1>1. (Interprets({"work"}) \/ Runs({"work"})) /\ Replace(f) /\ UNCHANGED result
  BY DEF Work
<1>2. /\ frames \in Seq(Frame) /\ frames # <<>> /\ Top \in Frame /\ AbstractFields
      /\ InStep(Top) /\ ~AtEnd(Top) /\ ~CodeReturned(Top) /\ Kind(Top) = "work"
      /\ Top.pc = Top.last + 1 /\ ValueOf(Len(frames)) = None
  BY <1>1, AtStatement
<1>3. /\ f \in Frame /\ f.decl = Top.decl /\ f.pc = Top.pc + 1 /\ f.last = Top.pc
  BY <1>2, ExecutedFields
<1>4. /\ last \in AbstractFrame /\ last.decl = Top.decl /\ last.done = Top.last /\ last.value = None
  BY <1>2, AbstractTop
<1>5. /\ AbstractStack # <<>> /\ ~Finished(last) /\ Body[last.decl][last.done + 1] = "work"
  BY <1>2, NotFinished
<1> HIDE DEF f, last
<1>6. p \in Nat
  BY <1>4 DEF AbstractFrame
<1> HIDE DEF p
<1>7. a \in AbstractFrame /\ a.decl = last.decl /\ a.done = p /\ a.value = last.value
  BY <1>4, <1>6 DEF AbstractFrame
<1>8. ~CodeReturned(f)
  BY <1>2, <1>3, ExecutedInStep DEF Returning
<1>9. \A i \in 1..Len(frames) : i = Len(frames) => ValueOf(i)' = None
  <2>1. NoValueYet'
    BY ValuesOfReturnedAfter
  <2>2. Len(frames') = Len(frames) /\ frames'[Len(frames)] = f
    BY <1>1, <1>2, <1>3, ReplaceTop DEF Replace
  <2>3. QED
    BY <1>8, <2>1, <2>2 DEF NoValueYet
<1> HIDE DEF a
<1>10. /\ a.decl = Top.decl /\ a.done = Top.last + 1 /\ a.value = None
       /\ f.last = Top.last + 1
  BY <1>2, <1>3, <1>4, <1>7 DEF p
<1>11. AbstractStack' = [AbstractStack EXCEPT ![Len(AbstractStack)] = a]
  BY <1>1, <1>2, <1>3, <1>7, <1>9, <1>10, ExecutedStep
<1>12. a = [last EXCEPT !.done = @ + 1]
  BY <1>4 DEF a, p, AbstractFrame
<1>13. QED
  BY <1>1, <1>5, <1>11, <1>12, AbstractWork DEF last

\* Both ways of executing a return statement leave the value to be returned.
LEMMA ReturnStep ==
  ASSUME ResumeInv, ResumeInv', InterpretReturn \/ CompiledReturn
  PROVE  Abstract!Next
<1> DEFINE x == Executed(Top)
           y == [x EXCEPT !.value = Top.decl]
           last == Last(AbstractStack)
           p == last.done + 1
           v == last.decl
           a == [last EXCEPT !.done = p, !.value = v]
<1>1. (Interprets({"return"}) \/ Runs({"return"})) /\ UNCHANGED result
  BY DEF InterpretReturn, CompiledReturn
<1>2. /\ frames \in Seq(Frame) /\ frames # <<>> /\ Top \in Frame /\ AbstractFields
      /\ InStep(Top) /\ ~AtEnd(Top) /\ ~CodeReturned(Top) /\ Kind(Top) = "return"
      /\ Top.pc = Top.last + 1
      /\ Interprets({"return"}) => Top.mode # "compiled"
      /\ Runs({"return"}) => Top.mode = "compiled"
  BY <1>1, AtStatement
<1>3. /\ x \in Frame /\ x.decl = Top.decl /\ x.mode = Top.mode /\ x.last = Top.pc
  BY <1>2, ExecutedFields
<1>4. /\ last \in AbstractFrame /\ last.decl = Top.decl /\ last.done = Top.last
  BY <1>2, AbstractTop
<1>5. /\ AbstractStack # <<>> /\ ~Finished(last) /\ Body[last.decl][last.done + 1] = "return"
  BY <1>2, NotFinished
<1>6. Top.decl \in Values
  BY <1>2 DEF Frame, Values
<1> HIDE DEF x, last
<1>7. /\ y \in Frame /\ y.decl = Top.decl /\ y.mode = Top.mode /\ y.last = Top.pc
      /\ y.value = Top.decl
  BY <1>3, <1>6 DEF Frame
<1> HIDE DEF y
<1>8. p \in Nat /\ v \in Values
  BY <1>4, <1>6 DEF AbstractFrame
<1>9. p = Top.last + 1 /\ v = Top.decl
  BY <1>4
<1> HIDE DEF p, v
<1>10. a \in AbstractFrame /\ a.decl = last.decl /\ a.done = p /\ a.value = v
  BY <1>4, <1>8 DEF AbstractFrame
<1> HIDE DEF a
<1>11. a.decl = Top.decl /\ a.done = Top.last + 1 /\ a.value = Top.decl
  BY <1>4, <1>9, <1>10
<1>12. ASSUME InterpretReturn
       PROVE  AbstractStack' = [AbstractStack EXCEPT ![Len(AbstractStack)] = a]
  <2>1. /\ Top.mode # "compiled" /\ Replace(x) /\ isReturning' = TRUE /\ retVal' = Top.decl
    BY <1>2, <1>12 DEF InterpretReturn, x
  <2>2. Len(frames') = Len(frames) /\ frames'[Len(frames)] = x
    BY <1>2, <1>3, <2>1, ReplaceTop DEF Replace
  <2>3. \A i \in 1..Len(frames) : i = Len(frames) => ValueOf(i)' = a.value
    BY <1>3, <1>11, <2>1, <2>2 DEF ValueOf
  <2>4. x.last = Top.last + 1
    BY <1>2, <1>3
  <2>5. QED
    BY <1>2, <1>3, <1>10, <1>11, <2>1, <2>3, <2>4, ExecutedStep
<1>13. ASSUME CompiledReturn
       PROVE  AbstractStack' = [AbstractStack EXCEPT ![Len(AbstractStack)] = a]
  <2>1. /\ Top.mode = "compiled" /\ Replace(y)
    BY <1>2, <1>13 DEF CompiledReturn, x, y
  <2>2. Len(frames') = Len(frames) /\ frames'[Len(frames)] = y
    BY <1>2, <1>7, <2>1, ReplaceTop DEF Replace
  <2>3. \A i \in 1..Len(frames) : i = Len(frames) => ValueOf(i)' = a.value
    BY <1>7, <1>11, <2>1, <2>2 DEF ValueOf
  <2>4. y.last = Top.last + 1
    BY <1>2, <1>7
  <2>5. QED
    BY <1>2, <1>7, <1>10, <1>11, <2>1, <2>3, <2>4, ExecutedStep
<1>14. AbstractStack' = [AbstractStack EXCEPT ![Len(AbstractStack)] = a]
  BY <1>12, <1>13
<1>15. a = [last EXCEPT !.done = @ + 1, !.value = last.decl]
  BY <1>4 DEF a, p, v, AbstractFrame
<1>16. QED
  BY <1>1, <1>5, <1>14, <1>15, AbstractReturn DEF last

\* An activation of d comes on top.
LEMMA AbstractPush ==
  ASSUME AbstractFields, AbstractFields', frames \in Seq(Frame), NEW d \in Decls,
         Len(frames') = Len(frames) + 1,
         \A i \in 1..(Len(frames) + 1) :
           IF i = Len(frames) + 1
             THEN frames'[i].decl = d /\ frames'[i].last = 0 /\ ValueOf(i)' = None
             ELSE /\ frames'[i].decl = frames[i].decl /\ frames'[i].last = frames[i].last
                  /\ ValueOf(i)' = ValueOf(i)
  PROVE  AbstractStack' = Append(AbstractStack, [decl |-> d, done |-> 0, value |-> None])
<1> DEFINE n == Len(frames)
           a == [decl |-> d, done |-> 0, value |-> None]
           t == Append(AbstractStack, a)
<1>1. /\ AbstractStack \in Seq(AbstractFrame) /\ Len(AbstractStack) = n /\ n \in Nat
      /\ AbstractStack' \in Seq(AbstractFrame) /\ Len(AbstractStack') = n + 1
  BY DEF AbstractFields
<1>2. a \in AbstractFrame /\ a.decl = d /\ a.done = 0 /\ a.value = None
  BY DEF AbstractFrame, Values
<1> HIDE DEF a
<1>3. /\ t \in Seq(AbstractFrame) /\ Len(t) = n + 1 /\ t[n + 1] = a
      /\ \A i \in 1..n : t[i] = AbstractStack[i]
  BY <1>1, <1>2
<1> HIDE DEF t
<1>4. ASSUME NEW i \in 1..(n + 1)
      PROVE  /\ AbstractStack'[i].decl = t[i].decl /\ AbstractStack'[i].done = t[i].done
             /\ AbstractStack'[i].value = t[i].value
  <2>1. /\ AbstractStack'[i].decl = frames'[i].decl /\ AbstractStack'[i].done = frames'[i].last
        /\ AbstractStack'[i].value = ValueOf(i)'
    BY <1>4 DEF AbstractFields
  <2>2. CASE i = n + 1
    BY <2>1, <2>2, <1>2, <1>3
  <2>3. CASE i # n + 1
    <3>1. i \in 1..n
      BY <2>3, <1>1
    <3>2. /\ t[i].decl = frames[i].decl /\ t[i].done = frames[i].last /\ t[i].value = ValueOf(i)
      BY <3>1, <1>3 DEF AbstractFields
    <3>3. QED
      BY <2>1, <2>3, <3>2, <1>4
  <2>4. QED
    BY <2>2, <2>3
<1>5. AbstractStack' = t
  BY <1>1, <1>3, <1>4, AbstractEqual
<1>6. QED
  BY <1>5 DEF t, a

\* A call of a function of the program.
LEMMA EnterStep ==
  ASSUME ResumeInv, ResumeInv', NEW d \in Decls, NEW mode \in {"interpreted", "compiled"},
         Enter(d, mode)
  PROVE  Abstract!Next
<1> DEFINE new == [decl |-> d, mode |-> mode, pc |-> 1, last |-> 0, node |-> 0,
                   by |-> "interpret", value |-> None]
           n == Len(frames)
<1>1. /\ frames \in Seq(Frame) /\ n \in Nat /\ AbstractFields /\ AbstractFields'
      /\ NoValueYet /\ NoValueYet'
  BY AbstractStackFields, AbstractStackFieldsAfter, ValuesOfReturned, ValuesOfReturnedAfter
     DEF ResumeInv, CleanInv, TypeOK
<1>2. n < MaxDepth /\ UNCHANGED result
  BY DEF Enter
<1>3. new \in Frame /\ new.decl = d /\ new.last = 0
  BY DEF Frame, Values
<1> HIDE DEF new
<1>4. ~CodeReturned(new)
  BY <1>3 DEF CodeReturned
<1>5. Len(AbstractStack) < MaxDepth
  BY <1>1, <1>2 DEF AbstractFields
<1>6. CASE frames = <<>> /\ frames' = <<new>>
  <2>1. n = 0 /\ Len(frames') = n + 1 /\ frames'[n + 1] = new /\ 1..(n + 1) = {n + 1}
    BY <1>6
  <2>2. \A i \in 1..(n + 1) :
          i = n + 1 /\ frames'[i].decl = d /\ frames'[i].last = 0 /\ ValueOf(i)' = None
    BY <1>1, <1>3, <1>4, <2>1 DEF NoValueYet
  <2>3. AbstractStack' = Append(AbstractStack, [decl |-> d, done |-> 0, value |-> None])
    BY <1>1, <2>1, <2>2, AbstractPush
  <2>4. AbstractStack = <<>>
    BY <1>1, <2>1 DEF AbstractFields
  <2>5. QED
    BY <1>2, <1>5, <2>3, <2>4, AbstractCall
<1>7. CASE \E by \in {"interpret", "skip_to"}, found \in BOOLEAN :
             /\ ReachesCall(by, found)
             /\ frames' = Append([frames EXCEPT ![Len(frames)].by = by], new)
  <2>1. PICK by \in {"interpret", "skip_to"}, found \in BOOLEAN :
             /\ ReachesCall(by, found)
             /\ frames' = Append([frames EXCEPT ![Len(frames)].by = by], new)
    BY <1>7
  <2>2. PICK s : s = [frames EXCEPT ![Len(frames)].by = by]
    OBVIOUS
  <2>3. CallersReady(s, found)
    BY <2>1, <2>2, CallersAtCall, Zenon
  <2>4. /\ s \in Seq(Frame) /\ Len(s) = n
        /\ \A i \in 1..n : /\ Waits(s[i])
                           /\ s[i].decl = frames[i].decl /\ s[i].last = frames[i].last
    BY <2>3 DEF CallersReady
  <2>5. frames' = Append(s, new)
    BY <2>1, <2>2
  <2>6. /\ Len(frames') = n + 1 /\ frames'[n + 1] = new
        /\ \A i \in 1..n : frames'[i] = s[i]
    <3>1. s \in Seq(Frame) /\ Len(s) = n
      BY <2>4
    <3>2. QED
      BY <1>1, <1>3, <2>5, <3>1
  <2>7. /\ frames # <<>> /\ Waits(Top)
    BY <2>1, CallerWaits
  <2>8. \A i \in 1..n : ~CodeReturned(frames[i]) /\ ~CodeReturned(frames'[i])
    BY <2>4, <2>6 DEF Waits, CodeReturned
  <2>9. \A i \in 1..(n + 1) : i = n + 1 \/ i \in 1..n
    BY <1>1
  <2>10. \A i \in 1..n : ValueOf(i) = None
    BY <1>1, <2>8 DEF NoValueYet
  <2>11. \A i \in 1..(n + 1) : ValueOf(i)' = None
    BY <1>1, <1>4, <2>6, <2>8, <2>9 DEF NoValueYet
  <2>12. AbstractStack' = Append(AbstractStack, [decl |-> d, done |-> 0, value |-> None])
    BY <1>1, <1>3, <2>4, <2>6, <2>9, <2>10, <2>11, AbstractPush
  <2>13. /\ AbstractStack # <<>> /\ ~Finished(Last(AbstractStack))
         /\ Body[Last(AbstractStack).decl][Last(AbstractStack).done + 1] \in Calling
    BY <1>1, <2>7, NotFinished DEF Waits
  <2>14. QED
    BY <1>2, <1>5, <2>12, <2>13, AbstractCall
<1>8. QED
  BY <1>6, <1>7 DEF Enter, new

\* The callers of a call that produced r: the last one has executed its
\* statement and, if that returns what the callee returned, returns r.
Continued(rest, r) ==
  /\ Len(frames') = Len(rest)
  /\ \A i \in 1..Len(rest) :
       /\ frames'[i].decl = rest[i].decl
       /\ IF i = Len(rest)
            THEN /\ frames'[i].last = rest[i].last + 1
                 /\ ValueOf(i)' = IF Body[rest[i].decl][rest[i].last + 1] = "tail" THEN r ELSE None
            ELSE frames'[i].last = rest[i].last /\ ValueOf(i)' = None

LEMMA CallerContinues ==
  ASSUME CleanInv', NEW rest \in Seq(Frame), rest # <<>>, NEW r \in Values,
         NEW found \in BOOLEAN, NEW kept \in Values, Continue(rest, r, found, kept),
         \A i \in 1..Len(rest) : /\ FrameOK(rest[i]) /\ Waits(rest[i])
                                 /\ rest[i].mode = "resumed" => found,
         \A i, j \in 1..Len(rest) : rest[i].mode = "resumed" /\ rest[j].mode = "resumed" => i = j,
         \A i \in 1..Len(rest) : rest[i].mode = "resumed" => return_register' = Register[rest[i].decl]
  PROVE  Continued(rest, r) /\ result' = r
<1> DEFINE m == Len(rest)
           caller == rest[m]
           f == frames'[m]
           tail == Kind(caller) = "tail"
<1>1. ResumeInv' /\ (caller.mode = "compiled" \/ caller.by = "interpret" \/ found)
  BY ContinueKeepsResume
<1>2. /\ Len(frames') = m
      /\ \A i \in 1..m : i # m => frames'[i] = rest[i]
      /\ f.decl = caller.decl /\ f.mode = caller.mode /\ f.last = caller.pc
      /\ f.value = (IF tail /\ caller.mode = "compiled" THEN r ELSE caller.value)
      /\ isReturning' = (tail /\ caller.mode # "compiled")
      /\ retVal' = (IF tail /\ caller.mode # "compiled" THEN r ELSE kept)
      /\ result' = r
  BY <1>1, ContinueFields
<1>3. m \in 1..m /\ caller \in Frame
  OBVIOUS
<1>4. /\ caller.pc = caller.last + 1 /\ caller.pc > 0
      /\ Body[caller.decl][caller.pc] \in Calling /\ ~CodeReturned(caller)
  BY <1>3, BodyFacts DEF Waits, InStep, Kind
<1>5. CodeReturned(f) <=> tail
  BY <1>2, <1>4 DEF CodeReturned, Kind, Calling, Returning
<1>6. NoValueYet'
  BY <1>1, ValuesOfReturnedAfter
<1>7. ASSUME NEW i \in 1..m, i # m
      PROVE  frames'[i].decl = rest[i].decl /\ frames'[i].last = rest[i].last /\ ValueOf(i)' = None
  <2>1. ~CodeReturned(rest[i]) /\ frames'[i] = rest[i]
    BY <1>2, <1>7 DEF Waits
  <2>2. QED
    BY <1>2, <1>6, <1>7, <2>1 DEF NoValueYet
<1>8. ASSUME NEW i \in 1..m, i = m
      PROVE  ValueOf(i)' = IF tail THEN r ELSE None
  <2>1. CASE tail
    BY <1>2, <1>8, <2>1 DEF ValueOf
  <2>2. CASE ~tail
    BY <1>2, <1>5, <1>6, <1>8, <2>2 DEF NoValueYet
  <2>3. QED
    BY <2>1, <2>2
<1>9. tail <=> Body[caller.decl][caller.last + 1] = "tail"
  BY <1>4 DEF Kind
<1> HIDE DEF f, tail
<1>10. QED
  BY <1>2, <1>4, <1>7, <1>8, <1>9 DEF Continued, f

\* A call of a method of the runtime.
LEMMA CallRuntimeStep ==
  ASSUME ResumeInv, ResumeInv', CallRuntime
  PROVE  Abstract!Next
<1> DEFINE n == Len(frames)
           last == Last(AbstractStack)
           a == Called(last, None)
<1>1. /\ frames \in Seq(Frame) /\ CleanInv' /\ retVal \in Values /\ None \in Values
      /\ AbstractFields /\ AbstractFields' /\ NoValueYet
  BY AbstractStackFields, AbstractStackFieldsAfter, ValuesOfReturned
     DEF ResumeInv, CleanInv, TypeOK, Values
<1>2. PICK by \in {"interpret", "skip_to"}, found \in BOOLEAN :
        /\ ReachesCall(by, found)
        /\ Continue([frames EXCEPT ![Len(frames)].by = by], None, found, retVal)
  BY DEF CallRuntime
<1>3. PICK s : s = [frames EXCEPT ![Len(frames)].by = by]
  OBVIOUS
<1>4. CallersReady(s, found)
  BY <1>2, <1>3, CallersAtCall, Zenon
<1>5. Continue(s, None, found, retVal) /\ return_register' = return_register
  BY <1>2, <1>3 DEF CallRuntime
<1>6. /\ s \in Seq(Frame) /\ s # <<>> /\ Len(s) = n
      /\ \A i \in 1..Len(s) : /\ FrameOK(s[i]) /\ Waits(s[i])
                              /\ s[i].mode = "resumed" => found
  BY <1>4 DEF CallersReady
<1>7. \A i \in 1..Len(s) : /\ s[i].mode = frames[i].mode /\ s[i].decl = frames[i].decl
                           /\ s[i].last = frames[i].last
  BY <1>4, <1>6 DEF CallersReady
<1>8. /\ \A i, j \in 1..Len(s) : s[i].mode = "resumed" /\ s[j].mode = "resumed" => i = j
      /\ \A i \in 1..Len(s) : s[i].mode = "resumed" => return_register' = Register[s[i].decl]
  BY <1>5, <1>6, <1>7 DEF ResumeInv, OneResumed
<1>9. Continued(s, None) /\ result' = None
  BY <1>1, <1>5, <1>6, <1>8, CallerContinues
<1>10. frames # <<>> /\ Waits(Top) /\ n \in 1..n /\ Top = frames[n]
  BY <1>1, <1>2, CallerWaits, TopIsFrame
<1>11. /\ AbstractStack # <<>> /\ ~Finished(last)
       /\ Body[last.decl][last.done + 1] \in Calling
  BY <1>1, <1>10, NotFinished DEF Waits
<1>12. /\ last \in AbstractFrame /\ last.decl = Top.decl /\ last.done = Top.last
       /\ last.value = ValueOf(n)
  BY <1>1, <1>10, AbstractTop
<1>13. \A i \in 1..n : ~CodeReturned(frames[i])
  BY <1>10 DEF ResumeInv, CallersWait, Waits
<1>14. \A i \in 1..n : ValueOf(i) = None
  BY <1>1, <1>13 DEF NoValueYet
<1> HIDE DEF last
<1>15. /\ a \in AbstractFrame /\ a.decl = last.decl /\ a.done = last.done + 1
       /\ a.value = IF Body[last.decl][last.done + 1] = "tail" THEN None ELSE last.value
  BY <1>1, <1>12, CalledFields
<1> HIDE DEF a
<1>16. a.value = None
  BY <1>10, <1>12, <1>14, <1>15
<1>17. \A i \in 1..n :
         IF i = n THEN frames'[i].decl = a.decl /\ frames'[i].last = a.done /\ ValueOf(i)' = a.value
                  ELSE /\ frames'[i].decl = frames[i].decl /\ frames'[i].last = frames[i].last
                       /\ ValueOf(i)' = ValueOf(i)
  BY <1>6, <1>7, <1>9, <1>10, <1>12, <1>14, <1>15, <1>16 DEF Continued
<1>18. Len(frames') = n
  BY <1>6, <1>9 DEF Continued
<1>19. AbstractStack' = [AbstractStack EXCEPT ![Len(AbstractStack)] = a]
  BY <1>1, <1>10, <1>15, <1>17, <1>18, AbstractReplace
<1>20. QED
  BY <1>9, <1>11, <1>19, AbstractCallOther DEF last, a

\* The abstract stack without its last activation.
LEMMA AbstractBelow ==
  ASSUME NEW s \in Seq(AbstractFrame), s # <<>>
  PROVE  LET t == SubSeq(s, 1, Len(s) - 1)
         IN /\ t \in Seq(AbstractFrame) /\ Len(t) = Len(s) - 1
            /\ \A i \in 1..(Len(s) - 1) : t[i] = s[i]
<1>1. Len(s) \in Nat \ {0}
  OBVIOUS
<1>2. \A i \in 1..(Len(s) - 1) : 1 + i - 1 = i /\ i \in 1..Len(s)
  BY <1>1
<1>3. 1 \in 1..(Len(s) + 1) /\ Len(s) - 1 \in 0..Len(s) /\ (Len(s) - 1) - 1 + 1 = Len(s) - 1
  BY <1>1
<1>4. QED
  BY <1>2, <1>3, SubSeqProperties

\* An activation that has returned ends, and its caller gets its value.
LEMMA DeliverStep ==
  ASSUME ResumeInv, ResumeInv', frames # <<>>, CodeReturned(Top), NEW r \in Values,
         r = ValueOf(Len(frames)), NEW kept \in Values, NEW found \in BOOLEAN,
         found = astNodeFound \/ Top.mode = "resumed",
         Deliver(r, found, kept), UNCHANGED return_register
  PROVE  Abstract!Next
<1> DEFINE n == Len(frames)
           last == Last(AbstractStack)
           below == SubSeq(AbstractStack, 1, Len(AbstractStack) - 1)
<1>1. /\ frames \in Seq(Frame) /\ n \in Nat \ {0} /\ CleanInv'
      /\ AbstractFields /\ AbstractFields' /\ NoValueYet
  BY AbstractStackFields, AbstractStackFieldsAfter, ValuesOfReturned
     DEF ResumeInv, CleanInv, TypeOK
<1>2. AbstractStack # <<>> /\ Finished(last) /\ last.value = r
  BY <1>1, AbstractTop
<1>3. /\ AbstractStack \in Seq(AbstractFrame) /\ Len(AbstractStack) = n
      /\ \A i \in 1..n : /\ AbstractStack[i].decl = frames[i].decl
                         /\ AbstractStack[i].done = frames[i].last
                         /\ AbstractStack[i].value = ValueOf(i)
  BY <1>1 DEF AbstractFields
<1>4. /\ below \in Seq(AbstractFrame) /\ Len(below) = n - 1
      /\ \A i \in 1..(n - 1) : below[i] = AbstractStack[i]
  BY <1>2, <1>3, AbstractBelow
<1>5. PICK rest : rest = SubSeq(frames, 1, Len(frames) - 1)
  OBVIOUS
<1>6. /\ rest \in Seq(Frame) /\ Len(rest) = n - 1
      /\ \A i \in 1..Len(rest) : /\ FrameOK(rest[i]) /\ Waits(rest[i])
                                 /\ rest[i].mode = "resumed" => found
                                 /\ rest[i] = frames[i]
      /\ \A i, j \in 1..Len(rest) :
           rest[i].mode = "resumed" /\ rest[j].mode = "resumed" => i = j
      /\ \A i \in 1..Len(rest) :
           rest[i].mode = "resumed" => return_register' = Register[rest[i].decl]
  BY <1>5, CallersAtReturn
<1> HIDE DEF below, last
<1>7. CASE rest = <<>> /\ frames' = <<>> /\ result' = r
  <2>1. below = <<>>
    <3>1. Len(rest) = 0
      BY <1>7
    <3>2. below \in Seq(AbstractFrame) /\ Len(below) = 0
      BY <1>4, <1>6, <3>1
    <3>3. QED
      BY <3>2
  <2>2. AbstractStack' = <<>>
    BY <1>1, <1>7 DEF AbstractFields
  <2>3. QED
    BY <1>2, <1>7, <2>1, <2>2, AbstractLeave DEF below, last
<1>8. CASE rest # <<>> /\ Continue(rest, r, found, kept)
  <2> DEFINE m == Len(rest)
             a == Called(below[m], r)
             t == [below EXCEPT ![m] = a]
  <2>1. Continued(rest, r) /\ result' = r
    BY <1>1, <1>6, <1>8, CallerContinues
  <2>2. m \in 1..m /\ m = n - 1 /\ below[m] \in AbstractFrame
    BY <1>1, <1>4, <1>6, <1>8
  <2>3. ASSUME NEW i \in 1..m
        PROVE  /\ below[i].decl = rest[i].decl /\ below[i].done = rest[i].last
               /\ below[i].value = None /\ below[i] \in AbstractFrame
    <3>1. i \in 1..n /\ i \in 1..(n - 1)
      BY <1>1, <2>2, <2>3
    <3>2. ~CodeReturned(frames[i]) /\ rest[i] = frames[i]
      BY <1>6, <2>3 DEF Waits
    <3>3. ValueOf(i) = None
      BY <1>1, <3>1, <3>2 DEF NoValueYet
    <3>4. QED
      BY <1>3, <1>4, <3>1, <3>2, <3>3
  <2>4. /\ a \in AbstractFrame /\ a.decl = below[m].decl /\ a.done = below[m].done + 1
        /\ a.value = IF Body[below[m].decl][below[m].done + 1] = "tail" THEN r ELSE below[m].value
    BY <2>2, CalledFields
  <2> HIDE DEF a
  <2>5. /\ t \in Seq(AbstractFrame) /\ Len(t) = m /\ t[m] = a
        /\ \A i \in 1..m : i # m => t[i] = below[i]
    BY <1>4, <2>2, <2>4
  <2>6. /\ AbstractStack' \in Seq(AbstractFrame) /\ Len(AbstractStack') = m
        /\ \A i \in 1..m : /\ AbstractStack'[i].decl = frames'[i].decl
                           /\ AbstractStack'[i].done = frames'[i].last
                           /\ AbstractStack'[i].value = ValueOf(i)'
    BY <1>1, <2>1 DEF AbstractFields, Continued
  <2> HIDE DEF t
  <2>7. ASSUME NEW i \in 1..m
        PROVE  /\ AbstractStack'[i].decl = t[i].decl /\ AbstractStack'[i].done = t[i].done
               /\ AbstractStack'[i].value = t[i].value
    <3>1. CASE i = m
      BY <2>1, <2>2, <2>3, <2>4, <2>5, <2>6, <3>1 DEF Continued
    <3>2. CASE i # m
      BY <2>1, <2>3, <2>5, <2>6, <2>7, <3>2 DEF Continued
    <3>3. QED
      BY <3>1, <3>2
  <2>8. AbstractStack' = t
    BY <2>5, <2>6, <2>7, AbstractEqual
  <2>9. below # <<>> /\ Len(below) = m
    BY <1>4, <2>2
  <2>10. AbstractStack' = [below EXCEPT ![Len(below)] = Called(@, r)]
    BY <1>4, <2>2, <2>8, <2>9 DEF t, a
  <2>11. QED
    BY <1>2, <2>1, <2>9, <2>10, AbstractLeave DEF below, last
<1>9. QED
  BY <1>5, <1>7, <1>8 DEF Deliver

\* Whatever executed the activation, it ends because it returned, and with the
\* value of its return statement: an interpreted one takes retVal, compiled
\* code its register, a resumed one the register that the trampoline filled.
LEMMA LeaveStep ==
  ASSUME BodiesReturn, ResumeInv, ResumeInv', LeaveInterpreted \/ LeaveCompiled \/ LeaveResumed
  PROVE  Abstract!Next
<1>1. /\ frames \in Seq(Frame) /\ frames # <<>> /\ UNCHANGED return_register
      /\ retVal \in Values /\ None \in Values /\ astNodeFound \in BOOLEAN
  BY DEF LeaveInterpreted, LeaveCompiled, LeaveResumed, ResumeInv, CleanInv, TypeOK, Values
<1>2. Top \in Frame /\ Top.value \in Values /\ Len(frames) \in 1..Len(frames) /\ Top = frames[Len(frames)]
  <2>1. Top \in Frame /\ Len(frames) \in 1..Len(frames) /\ Top = frames[Len(frames)]
    BY <1>1, TopIsFrame
  <2>2. QED
    BY <2>1 DEF Frame
<1>3. ASSUME AtEnd(Top) PROVE CodeReturned(Top)
  <2>1. ~OnTheWay(Top)
    BY <1>2, <1>3, BodyFacts DEF OnTheWay, AtEnd
  <2>2. InStep(Top)
    BY <1>1, <2>1 DEF ResumeInv, TopInStep
  <2>3. QED
    BY <1>2, <1>3, <2>2, EndIsReturn
<1>4. (isReturning => CodeReturned(Top)) /\ (Top.mode # "compiled" /\ CodeReturned(Top) => isReturning)
  BY <1>1 DEF ResumeInv, ReturningIsOfTop
<1>5. CASE LeaveInterpreted
  <2>1. Top.mode = "interpreted" /\ CodeReturned(Top) /\ isReturning
        /\ Deliver(retVal, astNodeFound, None)
    BY <1>3, <1>4, <1>5 DEF LeaveInterpreted
  <2>2. retVal = ValueOf(Len(frames))
    BY <1>2, <2>1 DEF ValueOf
  <2>3. QED
    BY <1>1, <2>1, <2>2, DeliverStep
<1>6. CASE LeaveCompiled
  <2>1. Top.mode = "compiled" /\ CodeReturned(Top) /\ Deliver(Top.value, astNodeFound, retVal)
    BY <1>3, <1>6 DEF LeaveCompiled
  <2>2. Top.value = ValueOf(Len(frames))
    BY <1>2, <2>1 DEF ValueOf
  <2>3. QED
    BY <1>1, <1>2, <2>1, <2>2, DeliverStep
<1>7. CASE LeaveResumed
  <2>1. Top.mode = "resumed" /\ CodeReturned(Top) /\ isReturning
    BY <1>3, <1>4, <1>7 DEF LeaveResumed
  <2>2. return_register = Register[Top.decl]
    BY <1>2, <2>1 DEF ResumeInv, OneResumed
  <2>3. Deliver(retVal, FALSE, retVal)
    BY <1>7, <2>2 DEF LeaveResumed
  <2>4. retVal = ValueOf(Len(frames)) /\ FALSE \in BOOLEAN
    BY <1>2, <2>1 DEF ValueOf
  <2>5. QED
    BY <1>1, <2>1, <2>3, <2>4, DeliverStep
<1>8. QED
  BY <1>5, <1>6, <1>7

LEMMA SearchStep ==
  ASSUME ResumeInv, ResumeInv', SkipStatement \/ SideExit
  PROVE  UNCHANGED AbstractStack /\ UNCHANGED result
<1>1. CASE SkipStatement
  <2> DEFINE p == Top.pc + 1
             f == [Top EXCEPT !.pc = p]
  <2>1. /\ frames # <<>> /\ Top.mode = "resumed" /\ ~astNodeFound /\ ~isReturning
        /\ Replace(f) /\ UNCHANGED result
    BY <1>1 DEF SkipStatement, Searches
  <2>2. Top \in Frame /\ ~CodeReturned(Top)
    BY <2>1, TopIsFrame DEF ResumeInv, TopInStep, OnTheWay, CleanInv, TypeOK
  <2>3. p \in Nat
    BY <2>2, BodyFacts
  <2> HIDE DEF p
  <2>4. f \in Frame /\ f.decl = Top.decl /\ f.last = Top.last
    BY <2>2, <2>3 DEF Frame
  <2> HIDE DEF f
  <2>5. QED
    BY <2>1, <2>2, <2>4, SearchIsInvisible
<1>2. CASE SideExit
  <2> DEFINE f == [Top EXCEPT !.mode = "resumed", !.node = Top.pc, !.pc = 1]
  <2>1. /\ frames # <<>> /\ ~CodeReturned(Top) /\ Replace(f) /\ UNCHANGED result
    BY <1>2 DEF SideExit, Runs
  <2>2. Top \in Frame
    BY <2>1, TopIsFrame DEF ResumeInv, CleanInv, TypeOK
  <2>3. f \in Frame /\ f.decl = Top.decl /\ f.last = Top.last
    BY <2>2 DEF Frame
  <2> HIDE DEF f
  <2>4. QED
    BY <2>1, <2>2, <2>3, SearchIsInvisible
<1>3. QED
  BY <1>1, <1>2

LEMMA StepIsAbstract ==
  ASSUME BodiesReturn, ResumeInv, ResumeInv', [Next]_vars
  PROVE  [Abstract!Next]_(Abstract!vars)
<1>1. UNCHANGED AbstractStack /\ UNCHANGED result => UNCHANGED Abstract!vars
  BY DEF Abstract!vars, AbstractStack, Activation
<1>2. UNCHANGED vars => UNCHANGED AbstractStack /\ UNCHANGED result
  BY DEF vars, context, AbstractStack, Activation, ValueOf
<1>3. QED
  BY <1>1, <1>2, WorkStep, ReturnStep, EnterStep, CallRuntimeStep, LeaveStep, SearchStep DEF Next

\* Mixing interpreted, compiled and resumed activations is invisible.  For
\* every program whose functions end with a return statement, run without a
\* side exit inside a side exit, each activation executes its statements in
\* order and once, and its caller gets the value of its return statement.
THEOREM ResumptionIsInvisible ==
  ASSUME ~NestedExits, BodiesReturn
  PROVE  Spec => ImplementsActivations
<1>1. Init => Abstract!Init
  <2>1. SUFFICES ASSUME Init PROVE Abstract!Init
    OBVIOUS
  <2>2. frames = <<>> /\ result = None /\ TypeOK
    BY <2>1, InitCleanInv DEF Init, CleanInv
  <2>3. AbstractStack = <<>>
    BY <2>2, AbstractStackFields DEF AbstractFields
  <2>4. QED
    BY <2>2, <2>3 DEF Abstract!Init, AbstractStack, Activation
<1>2. ResumeInv /\ [Next]_vars => ResumeInv'
  BY NextResumeInv
<1>3. ResumeInv /\ ResumeInv' /\ [Next]_vars => [Abstract!Next]_(Abstract!vars)
  BY StepIsAbstract
<1>4. QED
  BY <1>1, <1>2, <1>3, InitResumeInv, PTL DEF Spec, ImplementsActivations, Abstract!Spec
=============================================================================
