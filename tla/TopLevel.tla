------------------------------ MODULE TopLevel ------------------------------
(***************************************************************************)
(* main: a program file and then the lines of the REPL are parsed and      *)
(* interpreted one after the other in one Context.  Closures point into    *)
(* the syntax tree they were made from, which main owns.                   *)
(*                                                                         *)
(* The options are left open: whether there is a file, whether lines are   *)
(* read, whether statistics are printed at the end.                        *)
(***************************************************************************)
EXTENDS Context

CONSTANT MaxLines   \* bound: the file and the lines that parse

ASSUME TopLevelAssumption == MaxLines \in Nat

VARIABLES
  session,   \* "start", "executing" a tree, "between" two of them, or "ended"
  line,      \* the tree being executed, or the last one
  asts,      \* the trees that main owns: ast and replASTs
  madeBy     \* the tree that each cell's code is in

topVars == <<vars, session, line, asts, madeBy>>

TopLevelInit ==
  /\ Init
  /\ session = "start"
  /\ line = 0
  /\ asts = {}
  /\ madeBy = [o \in Objects |-> 0]

\* The code that runs is in the tree being executed, or is a closure's.
Code == {line} \cup {madeBy[o] : o \in heap}

\* Statements::interpret of the tree.
Execute ==
  /\ session = "executing"
  /\ Next
  /\ \E tree \in Code :
       madeBy' = [o \in Objects |-> IF o \notin heap' THEN 0
                                    ELSE IF o \in heap THEN madeBy[o] ELSE tree]
  /\ UNCHANGED <<session, line, asts>>

\* The tree is parsed and its interpretation begins.
Parsed ==
  /\ line < MaxLines
  /\ line' = line + 1
  /\ asts' = asts \cup {line + 1}
  /\ session' = "executing"

\* Mutant: the tree is freed when it has been interpreted.
TreesWithoutLast == asts \ {line}

\* What main owns after a line: the tree is moved to replASTs (a file's stays
\* where it is).
TreesKept == asts

\* The interpretation of the tree ends.
EndOfTree ==
  /\ session = "executing" /\ symbols = <<>>
  /\ session' = "between"
  /\ operand' = None
  /\ asts' = TreesKept
  /\ UNCHANGED <<globals, holder, symbols, retVal, retHolder, isReturning, heap, assigned,
                 line, madeBy>>

LoadFile == session = "start" /\ Parsed /\ UNCHANGED <<vars, madeBy>>

NoFile == session = "start" /\ session' = "between" /\ UNCHANGED <<vars, line, asts, madeBy>>

\* A file that does not parse ends the program.
FileSyntaxError == session = "start" /\ session' = "ended" /\ UNCHANGED <<vars, line, asts, madeBy>>

\* GC_gcollect before each line.
CollectGarbage ==
  /\ session = "between"
  /\ Collect
  /\ madeBy' = [o \in Objects |-> IF o \in heap' THEN madeBy[o] ELSE 0]

ReadLine == CollectGarbage /\ Parsed

SyntaxError == CollectGarbage /\ UNCHANGED <<session, line, asts>>

\* No REPL, or an empty line; for the statistics the trees are freed and the
\* garbage is collected.
Quit ==
  /\ session = "between" /\ session' = "ended"
  /\ \/ UNCHANGED <<vars, asts>>
     \/ Collect /\ asts' \in {asts, {}}
  /\ UNCHANGED <<line, madeBy>>

TopLevelNext ==
  \/ Execute \/ EndOfTree
  \/ LoadFile \/ NoFile \/ FileSyntaxError
  \/ ReadLine \/ SyntaxError \/ Quit

TopLevelSpec == TopLevelInit /\ [][TopLevelNext]_topVars

-----------------------------------------------------------------------------
(* Properties.                                                             *)

\* While the program can still be called, the syntax tree of every closure
\* exists, whichever line made it and whichever line kept it.
CodeIsAlive == session # "ended" => \A o \in heap : madeBy[o] \in asts

\* A line starts in the context of the top level with no return under way,
\* whatever the functions of earlier lines returned: its statements are
\* executed.  (A return outside functions breaks it: see the README's
\* deviations.)
LinesAreExecuted ==
  session = "between" => symbols = <<>> /\ (isReturning => TopReturn)
=============================================================================
