------------------------------ MODULE Numbers -------------------------------
(***************************************************************************)
(* Tagged words and the operators on them, as the interpreter evaluates    *)
(* them (BinOpBase::performOp) and as compiled code does (compileCompare,  *)
(* mysoreScriptAdd and its siblings).  A word has 64 bits in the program;  *)
(* the low three are the tag, 001 for a small integer and 000 for null and *)
(* object pointers.                                                        *)
(***************************************************************************)
EXTENDS Integers

CONSTANTS
  SignBit,    \* the top bit of a word: 2^63 in the program
  Operands    \* words that appear as operands

Size == 2 * SignBit   \* the number of words: 2^64 in the program
Word == 0..(Size - 1)

ASSUME NumbersAssumption ==
  /\ SignBit \in Nat /\ SignBit % 8 = 0 /\ SignBit > 8
  /\ Operands \subseteq Word
  /\ \A w \in Operands : w % 8 \in {0, 1}

VARIABLES
  interpreted, \* how the expression came out in the interpreter
  compiled,    \* and in compiled code
  mixed,       \* history: the last operands were an integer and something else
  overflowed,  \* history: a product has left the machine word, not just the range
               \* of small integers
  exact        \* history: until then, the value in the integers

numbersVars == <<interpreted, compiled, mixed, overflowed, exact>>

-----------------------------------------------------------------------------
Comparison == {"==", "!=", "<", "<=", ">", ">="}
Operators == Comparison \cup {"+", "-", "*", "/"}

\* A machine integer: i modulo 2^64, as a signed number.
Wrap(i) == LET w == i % Size IN IF w >= SignBit THEN w - Size ELSE w

isInteger(w) == w % 8 = 1

\* Arithmetic shift right; for a small integer this is its value.
Shift(w) == Wrap(w) \div 8

Result(w) == [kind |-> "value", word |-> w]
Aborts == [kind |-> "assertion", word |-> 0]
Faults == [kind |-> "division by zero", word |-> 0]
Sends == [kind |-> "method call", word |-> 0]

\* Mutant: no assertion.
createSmallIntegerUnchecked(i) == Result((i * 8 + 1) % Size)

\* createSmallInteger, with the assertion that nothing is shifted out.
createSmallInteger(i) == IF Wrap(i * 8) \div 8 = i THEN Result((i * 8 + 1) % Size) ELSE Aborts

\* C's division truncates.
Quotient(a, b) ==
  LET abs(x) == IF x < 0 THEN -x ELSE x
      q == abs(a) \div abs(b)
  IN IF (a < 0) = (b < 0) THEN q ELSE -q

Compares(o, a, b) ==
  CASE o = "==" -> a = b [] o = "!=" -> a # b [] o = "<" -> a < b
    [] o = "<=" -> a <= b [] o = ">" -> a > b [] o = ">=" -> a >= b

Truth(b) == IF b THEN 1 ELSE 0

Value(o, a, b) ==
  CASE o = "+" -> a + b [] o = "-" -> a - b [] o = "*" -> a * b [] o = "/" -> Quotient(a, b)
    [] o \in Comparison -> Truth(Compares(o, a, b))

\* Arithmetic on two small integers.  A product that leaves the machine word is
\* undefined behaviour in C++; it wraps in the build.
Arithmetic(o, a, b) ==
  IF o = "/" /\ b = 0 THEN Faults ELSE createSmallInteger(Wrap(Value(o, a, b)))

\* BinOpBase::performOp: comparisons are made on the shifted words, whatever
\* they are; other operators need two integers or become a method call.
performOp(o, l, r) ==
  CASE o \in Comparison -> createSmallInteger(Truth(Compares(o, Shift(l), Shift(r))))
    [] o \notin Comparison /\ isInteger(l) /\ isInteger(r) -> Arithmetic(o, Shift(l), Shift(r))
    [] o \notin Comparison /\ ~(isInteger(l) /\ isInteger(r)) -> Sends

\* Mutant: an unsigned predicate.
compileCompareUnsigned(o, l, r) == Result(Truth(Compares(o, l, r)) * 8 + 1)

\* compileCompare: signed comparison of the words themselves.
compileCompare(o, l, r) == Result(Truth(Compares(o, Wrap(l), Wrap(r))) * 8 + 1)

\* compileBinaryOp: mysoreScriptAdd and so on look at the left operand only;
\* getInteger asserts that the right one is an integer.
compileBinaryOp(o, l, r) ==
  CASE isInteger(l) /\ isInteger(r) -> Arithmetic(o, Shift(l), Shift(r))
    [] isInteger(l) /\ ~isInteger(r) -> Aborts
    [] ~isInteger(l) -> Sends

compileBinOp(o, l, r) ==
  IF o \in Comparison THEN compileCompare(o, l, r) ELSE compileBinaryOp(o, l, r)

-----------------------------------------------------------------------------
NumbersInit ==
  /\ interpreted = Result(0) /\ compiled = Result(0)
  /\ mixed = FALSE /\ overflowed = FALSE /\ exact = 0

\* The program, unless it has aborted, goes on with another expression, which
\* begins with the value w of a variable or a literal.
Start(w) ==
  /\ compiled = interpreted /\ interpreted \notin {Aborts, Faults}
  /\ interpreted' = Result(w) /\ compiled' = Result(w)
  /\ mixed' = FALSE /\ overflowed' = FALSE /\ exact' = Shift(w)

\* The value of a op b in the integers.
Exact(o, a, b) == IF o = "/" /\ b = 0 THEN 0 ELSE Value(o, a, b)

\* The expression so far, when it has a value, is the left operand of one more
\* operator.
Apply(o, r) ==
  LET l == interpreted.word
      integers == isInteger(l) /\ isInteger(r)
      value == Exact(o, exact, Shift(r))
  IN /\ interpreted.kind = "value" /\ compiled = interpreted
     /\ interpreted' = performOp(o, l, r)
     /\ compiled' = compileBinOp(o, l, r)
     /\ mixed' = (isInteger(l) # isInteger(r))
     /\ overflowed' = (overflowed \/ (integers /\ o = "*" /\ value # Wrap(value)))
     /\ exact' = IF overflowed' THEN 0
                 ELSE IF integers THEN value ELSE Shift(interpreted'.word)

NumbersNext ==
  \/ \E w \in Operands : Start(w)
  \/ \E o \in Operators, r \in Operands : Apply(o, r)

NumbersSpec == NumbersInit /\ [][NumbersNext]_numbersVars

-----------------------------------------------------------------------------
(* Properties.                                                             *)

\* The two tiers give every operator the same value, or fail in the same way,
\* when its operands are two integers, or neither is one (null, objects).
TiersAgree == ~mixed => interpreted = compiled

\* An expression over integers that has a value has the one it has in the
\* integers, as long as no product leaves the machine word: the assertion in
\* createSmallInteger catches every other result that a small integer cannot
\* hold.  (What is left of a product that leaves the word may pass the
\* assertion: see the README's deviations.)
ExactWithinTheWord ==
  interpreted.kind = "value" /\ ~overflowed => Shift(interpreted.word) = exact
=============================================================================
