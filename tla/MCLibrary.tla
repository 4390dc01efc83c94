------------------------------ MODULE MCLibrary ------------------------------
EXTENDS Library, TLC
CONSTANTS o1, o2, f1, f2, p1, p2

SmallIndices == -1..2
TwoObjects == {o1, o2}
TwoFiles == {f1, f2}
TwoPaths == {p1, p2}

\* "", "a", "b", "ab" and the two bytes of an accented letter.
FewLiterals == {<<>>, <<97>>, <<98>>, <<97, 98>>, <<-61, -87>>}

\* Two of the sixteen names of the runtime, and names of the program, one of
\* them the same.
TwoStaticNames == <<"length", "charAt">>
SomeNames == {"charAt", "run", "stop", "step"}

\* In an 8-bit word small integers are -16 .. 15: the ends of that range and
\* some between (their sums, products and quotients are further operands, on
\* the left), null, and the addresses of three objects, one of them in the
\* upper half of the address space.
SomeWords == {(i * 8 + 1) % 256 : i \in {-16, -15, -1, 0, 1, 3, 15}} \cup {0, 8, 64, 192}

Alike == Permutations(TwoObjects) \cup Permutations(TwoFiles) \cup Permutations(TwoPaths)
=============================================================================
