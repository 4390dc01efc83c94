------------------------------- MODULE Arrays -------------------------------
(***************************************************************************)
(* The runtime's Array class: a length, a buffer size and a buffer that    *)
(* atPut replaces when an index lies beyond it.  A new array is an object  *)
(* with all instance variables null.                                       *)
(***************************************************************************)
EXTENDS Integers

CONSTANTS
  Indices,   \* indices the program uses
  Elements,  \* objects it stores
  None,      \* null
  Unknown    \* what memory outside the buffer holds, or a fault

ASSUME ArraysAssumption ==
  /\ Indices \subseteq Int
  /\ None \notin Elements /\ Unknown \notin Elements /\ None # Unknown

VARIABLES
  length,      \* Array::length, -1 for null
  bufferSize,  \* Array::bufferSize, -1 for null
  buffer,      \* the buffer, from 0 on; empty before the first atPut
  result,      \* what the last method returned
  contents     \* history: what has been stored last at each index

vars == <<length, bufferSize, buffer, result, contents>>

Null == -1
OrZero(n) == IF n = Null THEN 0 ELSE n
Stored == {i \in Indices : contents[i] # None}

TypeOK ==
  /\ length \in Int /\ bufferSize \in Int
  /\ DOMAIN buffer = 0..(OrZero(bufferSize) - 1)
  /\ \A i \in DOMAIN buffer : buffer[i] \in Elements \cup {None}
  /\ contents \in [Indices -> Elements \cup {None}]

Init ==
  /\ length = Null /\ bufferSize = Null
  /\ buffer = [i \in {} |-> None]
  /\ result = None
  /\ contents = [i \in Indices |-> None]

-----------------------------------------------------------------------------
\* ArrayLength, which turns a null length into 0.
ArrayLength ==
  /\ length' = OrZero(length)
  /\ result' = OrZero(length)
  /\ UNCHANGED <<bufferSize, buffer, contents>>

\* The bounds check as it is written.
Rejected(i) == i >= OrZero(length) /\ i > 0

\* What at(i) returns; it may read outside the buffer.
Element(i) ==
  IF Rejected(i) THEN None ELSE IF i \in DOMAIN buffer THEN buffer[i] ELSE Unknown

\* ArrayAt.
ArrayAt(i) ==
  /\ result' = Element(i)
  /\ UNCHANGED <<length, bufferSize, buffer, contents>>

\* Mutant: the last element is lost when the buffer grows.
GrownShort(i) ==
  [k \in 0..i |-> IF k < OrZero(length) - 1 THEN buffer[k] ELSE None]

\* The new buffer: zeroed memory with the old elements copied in.
Grown(i) ==
  [k \in 0..i |-> IF k < OrZero(length) THEN buffer[k] ELSE None]

\* Mutant: the length is the index, not one more.
LengthAfterPutShort(i) == IF i >= OrZero(length) THEN i ELSE length

LengthAfterPut(i) == IF i >= OrZero(length) THEN i + 1 ELSE length

\* Mutant: the size of the buffer is not updated.
SizeAfterPutKept(i) == bufferSize

SizeAfterPut(i) == IF i >= OrZero(bufferSize) THEN i + 1 ELSE bufferSize

\* ArrayAtPut; a negative index is refused.
ArrayAtPut(i, v) ==
  \/ /\ i < 0
     /\ result' = None
     /\ UNCHANGED <<length, bufferSize, buffer, contents>>
  \/ /\ i >= 0
     /\ LET b == IF i >= OrZero(bufferSize) THEN Grown(i) ELSE buffer
        IN buffer' = [b EXCEPT ![i] = v]
     /\ bufferSize' = SizeAfterPut(i)
     /\ length' = LengthAfterPut(i)
     /\ contents' = [contents EXCEPT ![i] = v]
     /\ result' = v

Next ==
  \/ ArrayLength
  \/ \E i \in Indices : ArrayAt(i) \/ \E v \in Elements : ArrayAtPut(i, v)

Spec == Init /\ [][Next]_vars

-----------------------------------------------------------------------------
(* Properties.                                                             *)

\* However the array has grown, at(i) stays inside the buffer and returns the
\* object that was stored last at i, or null where nothing was stored.  (The
\* bounds check lets negative indices and index 0 of an empty array through:
\* see the README's deviations.)
ReadsLastWrite ==
  \A i \in Indices : i > 0 \/ (i = 0 /\ OrZero(length) > 0) => Element(i) = contents[i]

\* The length is one more than the highest index stored at.
LengthCoversStored ==
  /\ \A i \in Stored : i < length
  /\ length > 0 => length - 1 \in Stored
=============================================================================
