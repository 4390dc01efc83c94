------------------------------- MODULE Library -------------------------------
(***************************************************************************)
(* What every program finds in the runtime: arrays, files, strings,        *)
(* selectors, and the operators on small integers, used in any order.      *)
(* They share no state.                                                    *)
(***************************************************************************)
EXTENDS Arrays, Files, Strings, Selectors, Numbers

CONSTANT MaxInUse   \* bound: how many of them one behaviour uses

ASSUME LibraryAssumption == MaxInUse \in Nat

libraryVars == <<vars, filesVars, stringsVars, selectorsVars, numbersVars>>

LibraryInit == Init /\ FilesInit /\ StringsInit /\ SelectorsInit /\ NumbersInit

\* Those that are no longer as the program has found them.
InUse ==
  {c \in {"arrays", "files", "strings", "selectors", "numbers"} :
    \/ c = "arrays" /\ ~Init
    \/ c = "files" /\ ~FilesInit
    \/ c = "strings" /\ ~StringsInit
    \/ c = "selectors" /\ ~SelectorsInit
    \/ c = "numbers" /\ ~NumbersInit}

MayUse(c) == Cardinality(InUse \cup {c}) <= MaxInUse

UseArray ==
  /\ MayUse("arrays")
  /\ Next
  /\ UNCHANGED <<filesVars, stringsVars, selectorsVars, numbersVars>>

UseFile ==
  /\ MayUse("files")
  /\ FilesNext
  /\ UNCHANGED <<vars, stringsVars, selectorsVars, numbersVars>>

UseString ==
  /\ MayUse("strings")
  /\ StringsNext
  /\ UNCHANGED <<vars, filesVars, selectorsVars, numbersVars>>

UseSelector ==
  /\ MayUse("selectors")
  /\ SelectorsNext
  /\ UNCHANGED <<vars, filesVars, stringsVars, numbersVars>>

UseOperator ==
  /\ MayUse("numbers")
  /\ NumbersNext
  /\ UNCHANGED <<vars, filesVars, stringsVars, selectorsVars>>

LibraryNext == UseArray \/ UseFile \/ UseString \/ UseSelector \/ UseOperator

LibrarySpec == LibraryInit /\ [][LibraryNext]_libraryVars
=============================================================================
