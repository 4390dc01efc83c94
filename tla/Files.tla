-------------------------------- MODULE Files --------------------------------
(***************************************************************************)
(* The runtime's File class: an object with a descriptor, 0 while it has   *)
(* no file.  An object without a file reads from the standard input and    *)
(* writes to the standard output.  What is read and written is left out.   *)
(***************************************************************************)
EXTENDS Integers

CONSTANTS
  FileObjects,  \* File objects of the program
  Paths,        \* names of files
  NotAString,   \* an argument that is no string
  Terminal,     \* what descriptors 0, 1 and 2 refer to
  NoFile,       \* a descriptor that is not open
  MaxFd         \* bound: the descriptors of the process

ASSUME FilesAssumption ==
  /\ Terminal \notin Paths /\ NoFile \notin Paths /\ NotAString \notin Paths
  /\ Terminal # NoFile
  /\ MaxFd \in Nat

VARIABLES
  fd,        \* File::fd of each object
  table,     \* the descriptors of the process
  expected,  \* history: what the program takes each object for
  refused,   \* history: open has been refused on an object with a file
  touched    \* history: the last transfer, [target, expected]

filesVars == <<fd, table, expected, refused, touched>>

Descriptors == 0..MaxFd
NoTransfer == [target |-> NoFile, expected |-> NoFile]

FilesTypeOK ==
  /\ fd \in [FileObjects -> -1..MaxFd]
  /\ table \in [Descriptors -> Paths \cup {Terminal, NoFile}]
  /\ expected \in [FileObjects -> Paths \cup {Terminal, NoFile}]
  /\ refused \in BOOLEAN
  /\ touched \in [target : Paths \cup {Terminal, NoFile}, expected : Paths \cup {Terminal, NoFile}]

FilesInit ==
  /\ fd = [f \in FileObjects |-> 0]
  /\ table = [n \in Descriptors |-> IF n <= 2 THEN Terminal ELSE NoFile]
  /\ expected = [f \in FileObjects |-> Terminal]
  /\ refused = FALSE
  /\ touched = NoTransfer

-----------------------------------------------------------------------------
\* close(n) of the operating system; an error when n is not open.
Closed(n) == [table EXCEPT ![n] = NoFile]

\* open takes the lowest free descriptor ...
Lowest(t, n) == t[n] = NoFile /\ \A m \in 0..(n - 1) : t[m] # NoFile

\* Mutant: the file that is open is not closed.
ReleasedLate(f) == table

\* FileOpen begins by closing what is open ...
Released(f) == IF fd[f] > 0 THEN Closed(fd[f]) ELSE table

\* ... then refuses a name that is no string, with the descriptor left as it
\* was, and otherwise opens the file, which the operating system may decline.
FileOpen(f, name) ==
  \/ /\ name = NotAString
     /\ table' = Released(f)
     /\ refused' = (refused \/ fd[f] > 0)
     /\ UNCHANGED <<fd, expected, touched>>
  \/ /\ name \in Paths
     /\ \/ \E n \in Descriptors :
             /\ Lowest(Released(f), n)
             /\ table' = [Released(f) EXCEPT ![n] = name]
             /\ fd' = [fd EXCEPT ![f] = n]
             /\ expected' = [expected EXCEPT ![f] = name]
        \/ /\ table' = Released(f)
           /\ fd' = [fd EXCEPT ![f] = -1]
           /\ expected' = [expected EXCEPT ![f] = NoFile]
     /\ UNCHANGED <<refused, touched>>

\* Mutant: the descriptor is kept.
DescriptorAfterCloseKept(f) == fd

DescriptorAfterClose(f) == [fd EXCEPT ![f] = 0]

\* FileClose; nothing happens to an object without a file.
FileClose(f) ==
  /\ fd[f] > 0
  /\ table' = Closed(fd[f])
  /\ fd' = DescriptorAfterClose(f)
  /\ expected' = [expected EXCEPT ![f] = Terminal]
  /\ UNCHANGED <<refused, touched>>

\* Mutant: an object whose open has failed uses the terminal.
TargetOfPositive(f) == IF fd[f] > 0 THEN table[fd[f]] ELSE Terminal

\* What FileReadLine and FileWrite transfer from or to.
Target(f) == IF fd[f] = 0 THEN Terminal ELSE IF fd[f] < 0 THEN NoFile ELSE table[fd[f]]

\* FileReadLine and FileWrite (of a string; anything else is refused).
Transfer(f) ==
  /\ touched' = [target |-> Target(f), expected |-> expected[f]]
  /\ UNCHANGED <<fd, table, expected, refused>>

FilesNext ==
  \E f \in FileObjects :
    \/ \E name \in Paths \cup {NotAString} : FileOpen(f, name)
    \/ FileClose(f)
    \/ Transfer(f)

FilesSpec == FilesInit /\ [][FilesNext]_filesVars

-----------------------------------------------------------------------------
(* Properties.                                                             *)

\* As long as open has never been refused on an object with a file, every
\* descriptor an object holds refers to the file it opened last, and to no
\* other object's.  (After a refusal the object keeps the number of a closed
\* descriptor: see the README's deviations.)
OwnsItsDescriptor ==
  ~refused =>
    \A f \in FileObjects : fd[f] > 0 =>
      /\ table[fd[f]] = expected[f]
      /\ \A g \in FileObjects : fd[g] = fd[f] => g = f

\* Until then reads and writes reach the file that was opened last, the
\* terminal when none is open, and nothing when it could not be opened.
TransfersReachOwnFile == ~refused => touched.target = touched.expected

\* Whatever happens, the standard descriptors stay open, and a descriptor that
\* is open belongs to an object that can close it.
DescriptorsAccounted ==
  \A n \in Descriptors :
    /\ n <= 2 => table[n] = Terminal
    /\ n > 2 /\ table[n] # NoFile => \E f \in FileObjects : fd[f] = n
=============================================================================
