------------------------------- MODULE Strings -------------------------------
(***************************************************************************)
(* The runtime's String class: strings that a program builds with +,       *)
(* indexes and compares.  A string is the sequence of its chars, which are *)
(* signed: a byte from 128 on is negative.                                 *)
(***************************************************************************)
EXTENDS Integers, Sequences

CONSTANTS
  Literals,     \* the strings of the program's text
  MaxLength     \* bound: the length of a string

Char == -128..127

ASSUME StringsAssumption ==
  /\ \A s \in Literals : s \in Seq(Char)
  /\ MaxLength \in Nat

VARIABLES
  str,     \* the string the program works on
  answer   \* what the last method returned

stringsVars == <<str, answer>>

NullAnswer == <<>>  \* null, where a number is a sequence of one

-----------------------------------------------------------------------------
\* Mutant: as many characters of the second string are copied as the first has.
StringAddShort(a, b) ==
  [i \in 1..(Len(a) + Len(b)) |->
     IF i <= Len(a) THEN a[i] ELSE IF i - Len(a) <= Len(a) THEN b[i - Len(a)] ELSE 0]

\* StringAdd of two strings.
StringAdd(a, b) ==
  [i \in 1..(Len(a) + Len(b)) |-> IF i <= Len(a) THEN a[i] ELSE b[i - Len(a)]]

Unsigned(c) == IF c < 0 THEN c + 256 ELSE c

\* memcmp of the C library: the first difference decides.
memcmp(a, b, n) ==
  IF \A i \in 1..n : a[i] = b[i] THEN 0
  ELSE LET i == CHOOSE k \in 1..n : a[k] # b[k] /\ \A j \in 1..(k - 1) : a[j] = b[j]
       IN Unsigned(a[i]) - Unsigned(b[i])

Shorter(a, b) == IF Len(a) <= Len(b) THEN Len(a) ELSE Len(b)

\* Mutant: a string that begins with the other one counts as equal.
StringCmpPrefix(a, b) == memcmp(a, b, Shorter(a, b))

\* StringCmp of two strings.
StringCmp(a, b) ==
  LET result == memcmp(a, b, Shorter(a, b))
  IN IF result # 0 THEN result
     ELSE IF Len(a) > Len(b) THEN a[Len(b) + 1]
     ELSE IF Len(a) < Len(b) THEN 0 - b[Len(a) + 1] ELSE 0

\* StringCharAt, with the bounds check as it is written; a negative index and
\* index 0 of an empty string are let through, and read what memory holds.
CharAt(a, i, memory) ==
  IF i >= Len(a) /\ i > 0 THEN NullAnswer
  ELSE IF i \in 0..(Len(a) - 1) THEN <<a[i + 1]>> ELSE <<memory>>

-----------------------------------------------------------------------------
StringsInit == str = <<>> /\ answer = NullAnswer

\* The program goes on with a string of its text.
Literal(s) == str' = s /\ UNCHANGED answer

\* The program goes on with the sum.
Add(other) ==
  /\ Len(str) + Len(other) <= MaxLength
  /\ str' = StringAdd(str, other)
  /\ UNCHANGED answer

Compare(other) == answer' = <<StringCmp(str, other)>> /\ UNCHANGED str

Index(i) == \E memory \in {0, 1} : answer' = CharAt(str, i, memory) /\ UNCHANGED str

\* The argument of +, compare or charAt has the wrong type.
Refuse == answer' = NullAnswer /\ UNCHANGED str

StringsNext ==
  \/ \E other \in Literals : Literal(other) \/ Add(other) \/ Compare(other)
  \/ \E i \in -1..MaxLength : Index(i)
  \/ Refuse

StringsSpec == StringsInit /\ [][StringsNext]_stringsVars

-----------------------------------------------------------------------------
(* Properties.                                                             *)

\* No NUL and no byte above 127.
Plain(a) == \A i \in DOMAIN a : a[i] \in 1..127

\* The lexicographic order: a is a proper beginning of b, or smaller where they
\* first differ.
Before(a, b) ==
  \E k \in 0..Shorter(a, b) :
    /\ \A i \in 1..k : a[i] = b[i]
    /\ k < Len(b)
    /\ k = Len(a) \/ (k < Len(a) /\ a[k + 1] < b[k + 1])

\* compare orders plain strings lexicographically, strings that begin with each
\* other and empty strings included.  (It does not order others: see the
\* README's deviations.)
CompareIsLexicographic ==
  \A other \in Literals : Plain(str) /\ Plain(other) =>
    /\ StringCmp(str, other) < 0 <=> Before(str, other)
    /\ StringCmp(str, other) > 0 <=> Before(other, str)

Sign(n) == IF n > 0 THEN 1 ELSE IF n < 0 THEN -1 ELSE 0

\* What + puts in front of two strings does not change how they compare, so
\* no character of either gets lost.
PrefixKeepsOrder ==
  \A a, b \in Literals :
    Sign(StringCmp(StringAdd(str, a), StringAdd(str, b))) = Sign(StringCmp(a, b))
=============================================================================
