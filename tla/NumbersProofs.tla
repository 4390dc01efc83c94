---------------------------- MODULE NumbersProofs ----------------------------
(***************************************************************************)
(* The values of operators on small integers, for words of any size: the   *)
(* two tiers agree, and whatever has a value has the exact one as long as  *)
(* no product leaves the machine word.                                     *)
(***************************************************************************)
EXTENDS Numbers, TLAPS

\* The range of a small integer.
Least == 0 - (SignBit \div 8)
Greatest == (SignBit \div 8) - 1

LEMMA SizeFacts ==
  /\ SignBit \in Nat /\ Size \in Nat /\ Size = 2 * SignBit /\ Size > 0
  /\ SignBit = 8 * (SignBit \div 8) /\ SignBit \div 8 \in Nat /\ SignBit \div 8 > 1
<1>1. SignBit \in Nat /\ SignBit % 8 = 0 /\ SignBit > 8
  BY NumbersAssumption
<1>2. QED
  BY <1>1 DEF Size

LEMMA Remainder ==
  ASSUME NEW m \in Nat, m > 0, NEW i \in Int, NEW q \in Int, NEW r \in 0..(m - 1), i = m * q + r
  PROVE  i % m = r
OBVIOUS

\* Eight divides the number of words, so that the tag survives wrapping.
LEMMA TagOf ==
  ASSUME NEW q \in Int, NEW t \in 0..7
  PROVE  (8 * q + t) % 8 = t /\ (8 * q + t) \div 8 = q
OBVIOUS

LEMMA WrapRange ==
  ASSUME NEW i \in Int
  PROVE  /\ Wrap(i) \in (0 - SignBit)..(SignBit - 1)
         /\ \E k \in Int : Wrap(i) = i + Size * k
<1>1. i % Size \in 0..(Size - 1) /\ i \div Size \in Int /\ i = Size * (i \div Size) + (i % Size)
  BY SizeFacts
<1>2. PICK r : r = i % Size
  OBVIOUS
<1>3. PICK k : k = i \div Size
  OBVIOUS
<1>4. CASE r >= SignBit
  <2>1. Wrap(i) = r - Size
    BY <1>2, <1>4 DEF Wrap
  <2>2. r - Size = i + Size * (0 - k - 1)
    BY <1>1, <1>2, <1>3, SizeFacts
  <2>3. 0 - k - 1 \in Int
    BY <1>1, <1>3
  <2>4. r - Size \in (0 - SignBit)..(SignBit - 1)
    BY <1>1, <1>2, <1>4, SizeFacts
  <2>5. QED
    BY <2>1, <2>2, <2>3, <2>4
<1>5. CASE ~(r >= SignBit)
  <2>1. Wrap(i) = r
    BY <1>2, <1>5 DEF Wrap
  <2>2. r = i + Size * (0 - k)
    BY <1>1, <1>2, <1>3, SizeFacts
  <2>3. 0 - k \in Int
    BY <1>1, <1>3
  <2>4. r \in (0 - SignBit)..(SignBit - 1)
    BY <1>1, <1>2, <1>5, SizeFacts
  <2>5. QED
    BY <2>1, <2>2, <2>3, <2>4
<1>6. QED
  BY <1>4, <1>5

\* A number that fits into a word is its own value, however it got there.
LEMMA WrapUndone ==
  ASSUME NEW j \in (0 - SignBit)..(SignBit - 1), NEW i \in Int, NEW k \in Int, i = j + Size * k
  PROVE  Wrap(i) = j
<1>1. CASE j >= 0
  <2>1. j \in 0..(Size - 1) /\ i = Size * k + j
    BY <1>1, SizeFacts
  <2>2. i % Size = j
    BY <2>1, Remainder, SizeFacts
  <2>3. ~(j >= SignBit)
    BY SizeFacts
  <2>4. QED
    BY <2>2, <2>3 DEF Wrap
<1>2. CASE j < 0
  <2>1. j + Size \in 0..(Size - 1) /\ i = Size * (k - 1) + (j + Size) /\ k - 1 \in Int
    BY <1>2, SizeFacts
  <2>2. i % Size = j + Size
    BY <2>1, Remainder, SizeFacts
  <2>3. j + Size >= SignBit /\ (j + Size) - Size = j
    BY SizeFacts
  <2>4. QED
    BY <2>2, <2>3 DEF Wrap
<1>3. QED
  BY <1>1, <1>2, SizeFacts

\* A word that carries tag t: its shifted value, times eight, plus the tag.
LEMMA ShiftOfTagged ==
  ASSUME NEW w \in Word
  PROVE  /\ Wrap(w) \in Int /\ Wrap(w) = 8 * Shift(w) + (w % 8)
         /\ w % 8 \in 0..7 /\ Shift(w) \in Least..Greatest /\ Shift(w) \in Int
<1>1. w \in Int
  BY SizeFacts DEF Word
<1>2. PICK h : h = SignBit \div 8
  OBVIOUS
<1>3. h \in Nat /\ SignBit = 8 * h /\ Size = 16 * h
  BY <1>2, SizeFacts
<1>4. PICK x : x = Wrap(w)
  OBVIOUS
<1>5. x \in (0 - SignBit)..(SignBit - 1)
  BY <1>1, <1>4, WrapRange
<1>6. PICK k \in Int : x = w + Size * k
  BY <1>1, <1>4, WrapRange
<1>7. x \in Int /\ x = 8 * (x \div 8) + (x % 8) /\ x \div 8 \in Int /\ x % 8 \in 0..7
  BY <1>3, <1>5
<1>8. w % 8 = x % 8
  <2>1. PICK p : p = h * k
    OBVIOUS
  <2>2. p \in Int /\ x = w + 16 * p
    BY <1>3, <1>6, <2>1
  <2>3. QED
    BY <1>1, <1>7, <2>2
<1>9. x \div 8 \in (0 - h)..(h - 1)
  BY <1>3, <1>5, <1>7
<1>10. QED
  BY <1>2, <1>4, <1>7, <1>8, <1>9 DEF Shift, Least, Greatest

\* createSmallInteger makes the word of every number in the range of small
\* integers, and aborts for all others.
LEMMA SmallIntegers ==
  ASSUME NEW i \in Int
  PROVE  /\ i \in Least..Greatest => createSmallInteger(i) = Result((i * 8 + 1) % Size)
         /\ i \notin Least..Greatest => createSmallInteger(i) = Aborts
<1>1. PICK h : h = SignBit \div 8
  OBVIOUS
<1>2. h \in Nat /\ SignBit = 8 * h /\ Least = 0 - h /\ Greatest = h - 1
  BY <1>1, SizeFacts DEF Least, Greatest
<1>3. ASSUME i \in Least..Greatest PROVE Wrap(i * 8) \div 8 = i
  <2>1. i * 8 \in (0 - SignBit)..(SignBit - 1) /\ i * 8 \in Int /\ i * 8 = i * 8 + Size * 0
    BY <1>2, <1>3, SizeFacts
  <2>2. Wrap(i * 8) = i * 8
    BY <2>1, WrapUndone
  <2>3. (i * 8) \div 8 = i
    OBVIOUS
  <2>4. QED
    BY <2>2, <2>3
<1>4. ASSUME Wrap(i * 8) \div 8 = i PROVE i \in Least..Greatest
  <2>1. PICK x : x = Wrap(i * 8)
    OBVIOUS
  <2>2. x \in (0 - SignBit)..(SignBit - 1)
    BY <2>1, WrapRange
  <2>3. x \in Int /\ x \div 8 = i
    BY <1>2, <1>4, <2>1, <2>2
  <2>4. QED
    BY <1>2, <2>2, <2>3
<1>5. QED
  BY <1>3, <1>4 DEF createSmallInteger

\* The word of a small integer is tagged, and shifts back to the number.
LEMMA WordOfSmall ==
  ASSUME NEW i \in Least..Greatest
  PROVE  /\ (i * 8 + 1) % Size \in Word /\ ((i * 8 + 1) % Size) % 8 = 1
         /\ Shift((i * 8 + 1) % Size) = i
<1>1. PICK h : h = SignBit \div 8
  OBVIOUS
<1>2. h \in Nat /\ SignBit = 8 * h /\ Least = 0 - h /\ Greatest = h - 1 /\ i \in Int
  BY <1>1, SizeFacts DEF Least, Greatest
<1>3. PICK j : j = i * 8 + 1
  OBVIOUS
<1>4. PICK w : w = j % Size
  OBVIOUS
<1>5. j \in (0 - SignBit)..(SignBit - 1) /\ j \in Int
  BY <1>2, <1>3
<1>6. PICK k \in Int : j = Size * k + w
  BY <1>4, <1>5, SizeFacts
<1>7. w \in Word /\ w \in Int
  BY <1>4, <1>5, SizeFacts DEF Word
<1>8. w = j + Size * (0 - k) /\ 0 - k \in Int
  BY <1>5, <1>6, <1>7, SizeFacts
<1>9. Wrap(w) = j
  BY <1>5, <1>7, <1>8, WrapUndone
<1>10. j = 8 * Shift(w) + (w % 8) /\ Shift(w) \in Int /\ w % 8 \in 0..7
  BY <1>7, <1>9, ShiftOfTagged
<1>11. Shift(w) = i /\ w % 8 = 1
  BY <1>2, <1>3, <1>10
<1>12. QED
  BY <1>3, <1>4, <1>7, <1>11

-----------------------------------------------------------------------------
(* Comparisons.                                                            *)

\* x and y carry the same tag and shift to a and b.
SameTag(x, y, a, b) ==
  a \in Int /\ b \in Int /\ \E t \in 0..7 : x = 8 * a + t /\ y = 8 * b + t

ComparesLike(o, x, y, a, b) == Truth(Compares(o, x, y)) = Truth(Compares(o, a, b))

\* Two words with the same tag compare as their shifted values do.
LEMMA TagDoesNotMatter ==
  ASSUME NEW o \in Comparison, NEW a, NEW b, NEW x, NEW y, SameTag(x, y, a, b)
  PROVE  ComparesLike(o, x, y, a, b)
<1>1. /\ x \in Int /\ y \in Int /\ (x = y <=> a = b) /\ (x < y <=> a < b) /\ (x <= y <=> a <= b)
      /\ (x > y <=> a > b) /\ (x >= y <=> a >= b)
  BY DEF SameTag
<1>2. Compares(o, x, y) <=> Compares(o, a, b)
  <2>1. CASE o = "=="
    BY <1>1, <2>1 DEF Compares
  <2>2. CASE o = "!="
    BY <1>1, <2>2 DEF Compares
  <2>3. CASE o = "<"
    BY <1>1, <2>3 DEF Compares
  <2>4. CASE o = "<="
    BY <1>1, <2>4 DEF Compares
  <2>5. CASE o = ">"
    BY <1>1, <2>5 DEF Compares
  <2>6. CASE o = ">="
    BY <1>1, <2>6 DEF Compares
  <2>7. QED
    BY <2>1, <2>2, <2>3, <2>4, <2>5, <2>6 DEF Comparison
<1>3. QED
  BY <1>2 DEF Truth, ComparesLike

\* The word of a truth value.
LEMMA TruthWord ==
  ASSUME NEW b
  PROVE  /\ Truth(b) \in Least..Greatest
         /\ createSmallInteger(Truth(b)) = Result(Truth(b) * 8 + 1)
         /\ (Truth(b) * 8 + 1) % Size = Truth(b) * 8 + 1
<1>1. PICK t : t = Truth(b)
  OBVIOUS
<1>2. t \in 0..1
  BY <1>1 DEF Truth
<1>3. t \in Least..Greatest /\ t \in Int
  BY <1>2, SizeFacts DEF Least, Greatest
<1>4. t * 8 + 1 \in 0..(Size - 1) /\ t * 8 + 1 \in Int
  BY <1>2, SizeFacts
<1>5. (t * 8 + 1) % Size = t * 8 + 1
  <2>1. t * 8 + 1 = Size * 0 + (t * 8 + 1)
    BY <1>4, SizeFacts
  <2>2. QED
    BY <1>4, <2>1, Remainder, SizeFacts
<1>6. createSmallInteger(t) = Result((t * 8 + 1) % Size)
  BY <1>3, SmallIntegers
<1>7. QED
  BY <1>1, <1>3, <1>5, <1>6

\* compileCompare, which leaves the tags in, and performOp, which shifts them
\* out, agree on words with the same tag.
LEMMA ComparisonsAgree ==
  ASSUME NEW o \in Comparison, NEW l \in Word, NEW r \in Word, l % 8 = r % 8
  PROVE  performOp(o, l, r) = compileBinOp(o, l, r)
<1>1. /\ Wrap(l) = 8 * Shift(l) + (l % 8) /\ Wrap(r) = 8 * Shift(r) + (l % 8)
      /\ l % 8 \in 0..7 /\ Shift(l) \in Int /\ Shift(r) \in Int
  BY ShiftOfTagged
<1>2. Truth(Compares(o, Wrap(l), Wrap(r))) = Truth(Compares(o, Shift(l), Shift(r)))
  <2>1. PICK a : a = Shift(l)
    OBVIOUS
  <2>2. PICK b : b = Shift(r)
    OBVIOUS
  <2>3. PICK x : x = Wrap(l)
    OBVIOUS
  <2>4. PICK y : y = Wrap(r)
    OBVIOUS
  <2>5. SameTag(x, y, a, b)
    BY <1>1, <2>1, <2>2, <2>3, <2>4 DEF SameTag
  <2>6. ComparesLike(o, x, y, a, b)
    BY <2>5, TagDoesNotMatter
  <2>7. QED
    BY <2>1, <2>2, <2>3, <2>4, <2>6, Zenon DEF ComparesLike
<1>3. performOp(o, l, r) = createSmallInteger(Truth(Compares(o, Shift(l), Shift(r))))
  BY DEF performOp
<1>4. compileBinOp(o, l, r) = Result(Truth(Compares(o, Wrap(l), Wrap(r))) * 8 + 1)
  BY Zenon DEF compileBinOp, compileCompare
<1>5. PICK t : t = Truth(Compares(o, Shift(l), Shift(r)))
  OBVIOUS
<1>6. createSmallInteger(t) = Result(t * 8 + 1)
  BY <1>5, TruthWord
<1>7. QED
  BY <1>2, <1>3, <1>4, <1>5, <1>6

-----------------------------------------------------------------------------
(* Arithmetic.                                                             *)

\* C's quotient is no larger than the dividend.
LEMMA QuotientRange ==
  ASSUME NEW a \in Int, NEW b \in Int, b # 0, NEW h \in Nat, a \in (0 - h)..(h - 1)
  PROVE  Quotient(a, b) \in (0 - h)..h
<1>1. ASSUME NEW x \in Nat, NEW y \in Nat, y > 0 PROVE x \div y \in 0..x
  <2>1. PICK q : q = x \div y
    OBVIOUS
  <2>2. q \in Int /\ x = y * q + (x % y) /\ x % y \in 0..(y - 1)
    BY <1>1, <2>1
  <2>3. q >= 0
    BY <1>1, <2>2
  <2>4. q <= y * q
    BY <1>1, <2>2, <2>3
  <2>5. QED
    BY <1>1, <2>1, <2>2, <2>3, <2>4
<1>2. PICK x : x = IF a < 0 THEN -a ELSE a
  OBVIOUS
<1>3. PICK y : y = IF b < 0 THEN -b ELSE b
  OBVIOUS
<1>4. x \in 0..h /\ y \in Nat /\ y > 0
  BY <1>2, <1>3
<1>5. PICK q : q = x \div y
  OBVIOUS
<1>6. q \in 0..h
  BY <1>1, <1>4, <1>5
<1>7. Quotient(a, b) = IF (a < 0) = (b < 0) THEN q ELSE -q
  BY <1>2, <1>3, <1>5, Zenon DEF Quotient
<1>8. QED
  BY <1>6, <1>7

\* Only a product can leave the machine word.
LEMMA ExactFits ==
  ASSUME NEW o \in Operators, NEW a \in Least..Greatest, NEW b \in Least..Greatest,
         o \notin Comparison, ~(o = "/" /\ b = 0)
  PROVE  /\ Value(o, a, b) \in Int
         /\ Exact(o, a, b) = Value(o, a, b)
         /\ o # "*" => Wrap(Value(o, a, b)) = Exact(o, a, b)
<1>1. PICK h : h = SignBit \div 8
  OBVIOUS
<1>2. /\ h \in Nat /\ h > 1 /\ SignBit = 8 * h /\ a \in (0 - h)..(h - 1) /\ b \in (0 - h)..(h - 1)
      /\ a \in Int /\ b \in Int
  BY <1>1, SizeFacts DEF Least, Greatest
<1>3. PICK v : v = Value(o, a, b)
  OBVIOUS
<1>4. ASSUME v \in (0 - SignBit)..(SignBit - 1) PROVE Wrap(v) = v
  <2>1. v \in Int /\ v = v + Size * 0
    BY <1>2, <1>4, SizeFacts
  <2>2. QED
    BY <1>4, <2>1, WrapUndone
<1>5. CASE o = "+"
  <2>1. v = a + b /\ Exact(o, a, b) = v
    BY <1>3, <1>5 DEF Value, Exact, Comparison
  <2>2. v \in (0 - SignBit)..(SignBit - 1) /\ v \in Int
    BY <1>2, <2>1
  <2>3. QED
    BY <1>3, <1>4, <2>1, <2>2
<1>6. CASE o = "-"
  <2>1. v = a - b /\ Exact(o, a, b) = v
    BY <1>3, <1>6 DEF Value, Exact, Comparison
  <2>2. v \in (0 - SignBit)..(SignBit - 1) /\ v \in Int
    BY <1>2, <2>1
  <2>3. QED
    BY <1>3, <1>4, <2>1, <2>2
<1>7. CASE o = "*"
  <2>1. v = a * b /\ Exact(o, a, b) = v
    BY <1>3, <1>7 DEF Value, Exact, Comparison
  <2>2. v \in Int
    BY <1>2, <2>1
  <2>3. QED
    BY <1>3, <1>7, <2>1, <2>2
<1>8. CASE o = "/"
  <2>1. v = Quotient(a, b) /\ Exact(o, a, b) = v
    <3>1. b # 0
      BY <1>8
    <3>2. v = Quotient(a, b)
      BY <1>3, <1>8 DEF Value, Comparison
    <3>3. Exact(o, a, b) = v
      BY <1>3, <1>8, <3>1 DEF Exact
    <3>4. QED
      BY <3>2, <3>3
  <2>2. v \in (0 - h)..h
    BY <1>2, <1>8, <2>1, QuotientRange
  <2>3. v \in (0 - SignBit)..(SignBit - 1) /\ v \in Int
    BY <1>2, <2>2
  <2>4. QED
    BY <1>3, <1>4, <2>1, <2>3
<1>9. QED
  BY <1>5, <1>6, <1>7, <1>8 DEF Operators

\* An operator that has a value gives a small integer, and the right one unless
\* it is a product that leaves the word.
LEMMA OperatorExact ==
  ASSUME NEW o \in Operators, NEW l \in Word, NEW r \in Word, isInteger(l), isInteger(r),
         performOp(o, l, r).kind = "value"
  PROVE  /\ performOp(o, l, r).word \in Word /\ performOp(o, l, r).word % 8 = 1
         /\ \/ o = "*" /\ Exact(o, Shift(l), Shift(r)) # Wrap(Exact(o, Shift(l), Shift(r)))
            \/ Shift(performOp(o, l, r).word) = Exact(o, Shift(l), Shift(r))
<1>1. PICK a : a = Shift(l)
  OBVIOUS
<1>2. PICK b : b = Shift(r)
  OBVIOUS
<1>3. a \in Least..Greatest /\ b \in Least..Greatest
  BY <1>1, <1>2, ShiftOfTagged
<1>4. PICK p : p = performOp(o, l, r)
  OBVIOUS
<1>5. ASSUME NEW i \in Int, p = createSmallInteger(i)
      PROVE  p.word \in Word /\ p.word % 8 = 1 /\ Shift(p.word) = i
  <2>1. i \in Least..Greatest
    <3>1. Aborts.kind # "value"
      BY DEF Aborts
    <3>2. QED
      BY <1>4, <1>5, <3>1, SmallIntegers
  <2>2. p = Result((i * 8 + 1) % Size)
    BY <1>5, <2>1, SmallIntegers
  <2>3. p.word = (i * 8 + 1) % Size
    BY <2>2 DEF Result
  <2>4. QED
    BY <2>1, <2>3, WordOfSmall
<1>6. CASE o \in Comparison
  <2>1. PICK t : t = Truth(Compares(o, a, b))
    OBVIOUS
  <2>2. t \in Int
    BY <2>1 DEF Truth
  <2>3. p = createSmallInteger(t)
    BY <1>1, <1>2, <1>4, <1>6, <2>1 DEF performOp
  <2>4. Exact(o, a, b) = t
    <3>1. o # "/" /\ o # "*" /\ o # "+" /\ o # "-"
      BY <1>6 DEF Comparison
    <3>2. Value(o, a, b) = t
      BY <1>6, <2>1, <3>1 DEF Value
    <3>3. QED
      BY <3>1, <3>2 DEF Exact
  <2>5. QED
    BY <1>1, <1>2, <1>4, <1>5, <2>2, <2>3, <2>4
<1>7. CASE o \notin Comparison
  <2>1. p = Arithmetic(o, a, b)
    BY <1>1, <1>2, <1>4, <1>7 DEF performOp
  <2>2. ~(o = "/" /\ b = 0)
    <3>1. Faults.kind # "value"
      BY DEF Faults
    <3>2. QED
      BY <1>4, <2>1, <3>1 DEF Arithmetic
  <2>3. p = createSmallInteger(Wrap(Value(o, a, b)))
    BY <2>1, <2>2, Zenon DEF Arithmetic
  <2>4. /\ Value(o, a, b) \in Int /\ Exact(o, a, b) = Value(o, a, b)
        /\ o # "*" => Wrap(Value(o, a, b)) = Exact(o, a, b)
    BY <1>3, <1>7, <2>2, ExactFits
  <2>5. Wrap(Value(o, a, b)) \in Int
    <3>1. Wrap(Value(o, a, b)) \in (0 - SignBit)..(SignBit - 1)
      BY <2>4, WrapRange
    <3>2. QED
      BY <3>1, SizeFacts
  <2>6. p.word \in Word /\ p.word % 8 = 1 /\ Shift(p.word) = Wrap(Value(o, a, b))
    BY <1>5, <2>3, <2>5
  <2>7. QED
    BY <1>1, <1>2, <1>4, <2>4, <2>6
<1>8. QED
  BY <1>6, <1>7

-----------------------------------------------------------------------------
(* The theorems.                                                           *)

\* An expression that has a value is a tagged word, and the right one.
ValueInv ==
  interpreted.kind = "value" =>
    /\ interpreted.word \in Word /\ interpreted.word % 8 \in {0, 1}
    /\ ~overflowed => Shift(interpreted.word) = exact

NumbersInv == ValueInv /\ TiersAgree

LEMMA NumbersInvInit ==
  ASSUME NumbersInit
  PROVE  NumbersInv
<1>1. 0 \in Word /\ 0 % 8 = 0 /\ Result(0).word = 0
  BY SizeFacts DEF Word, Result
<1>2. Shift(0) = 0
  <2>1. Wrap(0) = 0
    BY SizeFacts, WrapUndone
  <2>2. QED
    BY <2>1 DEF Shift
<1>3. QED
  BY <1>1, <1>2 DEF NumbersInit, NumbersInv, ValueInv, TiersAgree

LEMMA StartKeeps ==
  ASSUME NEW CONSTANT w \in Operands, Start(w)
  PROVE  NumbersInv'
<1>1. w \in Word /\ w % 8 \in {0, 1} /\ Result(w).word = w
  BY NumbersAssumption DEF Result
<1>2. QED
  BY <1>1 DEF Start, NumbersInv, ValueInv, TiersAgree

LEMMA ApplyKeeps ==
  ASSUME NumbersInv, NEW CONSTANT o \in Operators, NEW CONSTANT r \in Operands, Apply(o, r)
  PROVE  NumbersInv'
<1>1. PICK l : l = interpreted.word
  OBVIOUS
<1>2. PICK p : p = performOp(o, l, r)
  OBVIOUS
<1>3. l \in Word /\ l % 8 \in {0, 1} /\ (~overflowed => exact = Shift(l))
  BY <1>1 DEF Apply, NumbersInv, ValueInv
<1>4. r \in Word /\ r % 8 \in {0, 1}
  BY NumbersAssumption
<1>5. /\ interpreted' = p /\ compiled' = compileBinOp(o, l, r)
      /\ mixed' = (isInteger(l) # isInteger(r))
  BY <1>1, <1>2 DEF Apply
<1>5a. ASSUME ~overflowed'
       PROVE  /\ isInteger(l) /\ isInteger(r)
                 => /\ exact' = Exact(o, Shift(l), Shift(r))
                    /\ o = "*" => Exact(o, Shift(l), Shift(r)) = Wrap(Exact(o, Shift(l), Shift(r)))
              /\ ~(isInteger(l) /\ isInteger(r)) => exact' = Shift(p.word)
  <2>1. /\ overflowed' = (overflowed \/ (/\ isInteger(l) /\ isInteger(r) /\ o = "*"
                                        /\ Exact(o, exact, Shift(r)) # Wrap(Exact(o, exact, Shift(r)))))
        /\ exact' = IF overflowed' THEN 0
                    ELSE IF isInteger(l) /\ isInteger(r) THEN Exact(o, exact, Shift(r)) ELSE Shift(interpreted'.word)
    BY <1>1 DEF Apply
  <2>2. exact = Shift(l)
    BY <1>3, <1>5a, <2>1
  <2>3. QED
    BY <1>5, <1>5a, <2>1, <2>2
<1>6. ASSUME isInteger(l) <=> isInteger(r) PROVE p = compileBinOp(o, l, r)
  <2>1. CASE o \in Comparison
    <3>1. l % 8 = r % 8
      BY <1>3, <1>4, <1>6 DEF isInteger
    <3>2. QED
      BY <1>2, <1>3, <1>4, <2>1, <3>1, ComparisonsAgree
  <2>2. CASE o \notin Comparison /\ isInteger(l) /\ isInteger(r)
    BY <1>2, <2>2 DEF performOp, compileBinOp, compileBinaryOp
  <2>3. CASE o \notin Comparison /\ ~isInteger(l) /\ ~isInteger(r)
    BY <1>2, <2>3 DEF performOp, compileBinOp, compileBinaryOp
  <2>4. QED
    BY <1>6, <2>1, <2>2, <2>3
<1>7. TiersAgree'
  <2>1. SUFFICES ASSUME isInteger(l) = isInteger(r) PROVE p = compileBinOp(o, l, r)
    BY <1>5 DEF TiersAgree, isInteger
  <2>2. QED
    BY <1>6, <2>1
<1>8. ASSUME p.kind = "value"
      PROVE  /\ p.word \in Word /\ p.word % 8 \in {0, 1}
             /\ ~overflowed' => Shift(p.word) = exact'
  <2>1. CASE isInteger(l) /\ isInteger(r)
    BY <1>2, <1>3, <1>4, <1>5a, <1>8, <2>1, OperatorExact
  <2>2. CASE ~(isInteger(l) /\ isInteger(r))
    <3>1. o \in Comparison
      <4>1. Sends.kind # "value"
        BY DEF Sends
      <4>2. QED
        BY <1>2, <1>8, <2>2, <4>1 DEF performOp
    <3>2. PICK t : t = Truth(Compares(o, Shift(l), Shift(r)))
      OBVIOUS
    <3>3. p = createSmallInteger(t)
      BY <1>2, <3>1, <3>2 DEF performOp
    <3>4. p = Result(t * 8 + 1) /\ t \in Least..Greatest /\ (t * 8 + 1) % Size = t * 8 + 1
      BY <3>2, <3>3, TruthWord
    <3>5. p.word = (t * 8 + 1) % Size
      BY <3>4 DEF Result
    <3>6. p.word \in Word /\ p.word % 8 = 1
      BY <3>4, <3>5, WordOfSmall
    <3>7. QED
      BY <1>5a, <2>2, <3>6
  <2>3. QED
    BY <2>1, <2>2
<1>9. ValueInv'
  BY <1>5, <1>8 DEF ValueInv
<1>10. QED
  BY <1>7, <1>9 DEF NumbersInv

LEMMA NumbersInvariant == NumbersSpec => []NumbersInv
<1>1. NumbersInit => NumbersInv
  BY NumbersInvInit
<1>2. NumbersInv /\ [NumbersNext]_numbersVars => NumbersInv'
  <2>1. ASSUME NumbersInv, NumbersNext PROVE NumbersInv'
    BY <2>1, StartKeeps, ApplyKeeps DEF NumbersNext
  <2>2. ASSUME NumbersInv, UNCHANGED numbersVars PROVE NumbersInv'
    BY <2>2 DEF numbersVars, NumbersInv, ValueInv, TiersAgree
  <2>3. QED
    BY <2>1, <2>2
<1>3. QED
  BY <1>1, <1>2, PTL DEF NumbersSpec

\* The interpreter's performOp and the compiled operators give the same value,
\* or fail in the same way, for two integers and for two operands that are not.
THEOREM OperatorsAgree == NumbersSpec => []TiersAgree
<1>1. NumbersInv => TiersAgree
  BY DEF NumbersInv
<1>2. QED
  BY <1>1, NumbersInvariant, PTL

\* Whatever has a value has the one it has in the integers, as long as no product
\* leaves the machine word: createSmallInteger's assertion stops every sum,
\* difference, quotient and other product that a small integer cannot hold.
THEOREM OperatorsAreExact == NumbersSpec => []ExactWithinTheWord
<1>1. NumbersInv => ExactWithinTheWord
  BY DEF NumbersInv, ValueInv, ExactWithinTheWord
<1>2. QED
  BY <1>1, NumbersInvariant, PTL
=============================================================================
