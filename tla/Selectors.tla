------------------------------ MODULE Selectors ------------------------------
(***************************************************************************)
(* The selector table: lookupSelector numbers the names of methods.  The   *)
(* methods of the runtime's own classes are found under fixed numbers,     *)
(* which the first call enters for their names.                            *)
(***************************************************************************)
EXTENDS Naturals, Sequences, FiniteSets

CONSTANTS
  StaticSelectorNames,  \* the names of the runtime's methods, in the order of
                        \* the enumeration StaticSelectors, from 1 on
  MethodNames           \* the names the program uses

ASSUME SelectorsAssumption ==
  /\ StaticSelectorNames \in Seq(STRING)
  /\ \A i, j \in DOMAIN StaticSelectorNames :
       StaticSelectorNames[i] = StaticSelectorNames[j] => i = j
  /\ MethodNames \subseteq STRING

VARIABLES
  selectors,  \* from names to numbers
  selNames    \* from numbers to names; number 0, "<invalid>", is left out

selectorsVars == <<selectors, selNames>>

StaticNames == {StaticSelectorNames[i] : i \in DOMAIN StaticSelectorNames}

\* What the first call registers.
Static == [n \in StaticNames |-> CHOOSE i \in DOMAIN StaticSelectorNames : StaticSelectorNames[i] = n]

SelectorsInit ==
  /\ selectors = [n \in {} |-> 0]
  /\ selNames = <<>>

\* Mutant: the size is taken when the name is in the table already.
NextSelectorLate(known) == Cardinality(DOMAIN known) + 2

NextSelector(known) == Cardinality(DOMAIN known) + 1

lookupSelector(name) ==
  LET first == DOMAIN selectors = {}
      known == IF first THEN Static ELSE selectors
      names == IF first THEN StaticSelectorNames ELSE selNames
  IN IF name \in DOMAIN known THEN selectors' = known /\ selNames' = names
     ELSE /\ selectors' = [n \in DOMAIN known \cup {name} |->
                             IF n = name THEN NextSelector(known) ELSE known[n]]
          /\ selNames' = Append(names, name)

SelectorsNext == \E name \in MethodNames : lookupSelector(name)

SelectorsSpec == SelectorsInit /\ [][SelectorsNext]_selectorsVars

-----------------------------------------------------------------------------
(* Properties.                                                             *)

\* A number stands for one name, whatever has been looked up first, and a name
\* of the runtime for the number its methods are filed under: so a message finds
\* the method of that name and no other.
SelectorsNameMethods ==
  DOMAIN selectors # {} =>
    /\ \A n \in DOMAIN selectors : selectors[n] \in DOMAIN selNames /\ selNames[selectors[n]] = n
    /\ \A i \in DOMAIN StaticSelectorNames :
         StaticSelectorNames[i] \in DOMAIN selectors /\ selectors[StaticSelectorNames[i]] = i
=============================================================================
