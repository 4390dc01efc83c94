------------------------------ MODULE SideExit ------------------------------
(***************************************************************************)
(* A side exit from beginning to end: a function is compiled, runs to its  *)
(* method call, is left through the patchpoint (Stackmap), resumed in the  *)
(* syntax tree (SkipTo) and returned from (Stackmap).                      *)
(***************************************************************************)
EXTENDS SkipTo, Stackmap

CONSTANT
  Cases   \* a body, a function with as many method calls, and their results

ASSUME SideExitAssumption == \A c \in Cases : c[1] \in Bodies /\ c[2] \in Functions /\ c[3] \in Inputs

allVars == <<skipVars, transferVars>>

SideExitInit ==
  /\ \E c \in Cases : body = c[1] /\ function = c[2] /\ input = c[3]
  /\ SkipInit /\ StackmapInit

\* The code runs, and comes to its end or to a guard that fails.
RunCode ==
  /\ stage = "running" /\ phase = "compiled"
  /\ Run \/ EndOfBody \/ GuardFails
  /\ UNCHANGED transferVars

\* reconstructInterpreterContext builds the symbol table ...
Leave ==
  /\ phase = "left"
  /\ Rebuild
  /\ UNCHANGED skipVars

\* ... resumes at the node that it has read ...
ResumeAtNode ==
  /\ stage = "rebuilt"
  /\ rebuilt.node = Node
  /\ ResumeInInterpreter
  /\ UNCHANGED transferVars

\* ... where the interpreter searches and runs ...
Interpret ==
  /\ phase = "resumed"
  /\ Run \/ Skip \/ EndOfBody
  /\ UNCHANGED transferVars

\* ... and returns through the trampoline, with nothing done when it refused.
ReturnToCode ==
  /\ stage = "refused" \/ (phase = "resumed" /\ step = "done")
  /\ TrampolineReturn
  /\ UNCHANGED skipVars

SideExitNext ==
  \/ Compile /\ UNCHANGED skipVars
  \/ RunCode
  \/ Leave
  \/ ResumeAtNode
  \/ Interpret
  \/ ReturnToCode

\* The thread that left compiled code runs on.
SideExitSpec ==
  /\ SideExitInit /\ [][SideExitNext]_allVars
  /\ WF_allVars(Leave) /\ WF_allVars(ResumeAtNode) /\ WF_allVars(Interpret)
  /\ WF_allVars(ReturnToCode)

-----------------------------------------------------------------------------
(* Properties.                                                             *)

\* A function with one method call that is left at it comes to its end in the
\* interpreter and returns the interpreter's result to the code that called it.
ResumesAndReturns ==
  (phase = "left" /\ function.calls = 1 /\ Supported)
    ~> (stage = "returned" /\ step = "done" /\ caughtUp)
=============================================================================
