---------------------------- MODULE LibraryProofs ----------------------------
(***************************************************************************)
(* Files keep their descriptors apart, for any number of objects, files    *)
(* and descriptors; compare orders all plain strings, and + in front of    *)
(* two strings keeps their order; selectors and names correspond, whatever *)
(* is looked up; an array returns at every index what was stored there     *)
(* last.                                                                   *)
(***************************************************************************)
EXTENDS Arrays, Files, Strings, Selectors, FiniteSetTheorems, SequenceTheorems,
        WellFoundedInduction, TLAPS

-----------------------------------------------------------------------------
(* Files.                                                                  *)

FilesInv ==
  /\ FilesTypeOK
  /\ OwnsItsDescriptor
  /\ DescriptorsAccounted
  /\ \A f \in FileObjects :
       /\ fd[f] = 0 => expected[f] = Terminal
       /\ fd[f] = -1 => expected[f] = NoFile
       /\ fd[f] > 0 => fd[f] > 2
       /\ fd[f] > 0 => expected[f] \in Paths
  /\ TransfersReachOwnFile

LEMMA FilesInvInit == FilesInit => FilesInv
<1> SUFFICES ASSUME FilesInit PROVE FilesInv
  OBVIOUS
<1> USE FilesAssumption DEF FilesInit, Descriptors, NoTransfer
<1>1. FilesTypeOK
  <2>1. fd \in [FileObjects -> -1..MaxFd]  OBVIOUS
  <2>2. table \in [Descriptors -> Paths \cup {Terminal, NoFile}]  OBVIOUS
  <2>3. touched \in [target : Paths \cup {Terminal, NoFile}, expected : Paths \cup {Terminal, NoFile}]
    OBVIOUS
  <2> QED  BY <2>1, <2>2, <2>3 DEF FilesTypeOK
<1>2. OwnsItsDescriptor  BY DEF OwnsItsDescriptor
<1>3. DescriptorsAccounted  BY DEF DescriptorsAccounted
<1>4. TransfersReachOwnFile  BY DEF TransfersReachOwnFile
<1> QED  BY <1>1, <1>2, <1>3, <1>4 DEF FilesInv

\* What closing first leaves behind.
LEMMA ReleasedTable ==
  ASSUME FilesInv, NEW f \in FileObjects
  PROVE  /\ Released(f) \in [Descriptors -> Paths \cup {Terminal, NoFile}]
         /\ \A n \in Descriptors : n <= 2 => Released(f)[n] = Terminal
         /\ \A n \in Descriptors : n > 2 /\ Released(f)[n] # NoFile =>
              n # fd[f] /\ \E g \in FileObjects : g # f /\ fd[g] = n
         /\ ~refused => \A g \in FileObjects : g # f /\ fd[g] > 0 =>
              Released(f)[fd[g]] = expected[g] /\ fd[g] # fd[f]
<1> USE FilesAssumption DEF Descriptors
<1>1. table \in [Descriptors -> Paths \cup {Terminal, NoFile}] /\ fd \in [FileObjects -> -1..MaxFd]
  BY DEF FilesInv, FilesTypeOK
<1>2. \A n \in Descriptors : Released(f)[n] = IF n = fd[f] /\ fd[f] > 0 THEN NoFile ELSE table[n]
  BY <1>1 DEF Released, Closed
<1>3. Released(f) \in [Descriptors -> Paths \cup {Terminal, NoFile}]
  BY <1>1 DEF Released, Closed
<1>4. \A n \in Descriptors : n <= 2 => Released(f)[n] = Terminal
  BY <1>1, <1>2 DEF FilesInv, DescriptorsAccounted
<1>5. ASSUME NEW n \in Descriptors, n > 2, Released(f)[n] # NoFile
      PROVE  n # fd[f] /\ \E g \in FileObjects : g # f /\ fd[g] = n
  <2>1. n # fd[f] /\ table[n] # NoFile  BY <1>1, <1>2, <1>5
  <2>2. \E g \in FileObjects : fd[g] = n  BY <1>5, <2>1 DEF FilesInv, DescriptorsAccounted
  <2> QED  BY <2>1, <2>2
<1>6. ASSUME ~refused, NEW g \in FileObjects, g # f, fd[g] > 0
      PROVE  Released(f)[fd[g]] = expected[g] /\ fd[g] # fd[f]
  <2>1. table[fd[g]] = expected[g] /\ fd[f] # fd[g]
    BY <1>6 DEF FilesInv, OwnsItsDescriptor
  <2>2. fd[g] \in Descriptors  BY <1>1, <1>6
  <2> QED  BY <1>2, <2>1, <2>2
<1> QED  BY <1>3, <1>4, <1>5, <1>6

LEMMA FileOpenKeeps ==
  ASSUME FilesInv, NEW f \in FileObjects, NEW name \in Paths \cup {NotAString}, FileOpen(f, name)
  PROVE  FilesInv'
<1> USE FilesAssumption DEF Descriptors
<1> DEFINE t == Released(f)
<1>1. /\ fd \in [FileObjects -> -1..MaxFd] /\ refused \in BOOLEAN
      /\ expected \in [FileObjects -> Paths \cup {Terminal, NoFile}]
      /\ touched \in [target : Paths \cup {Terminal, NoFile}, expected : Paths \cup {Terminal, NoFile}]
  BY DEF FilesInv, FilesTypeOK
<1>2. /\ t \in [Descriptors -> Paths \cup {Terminal, NoFile}]
      /\ \A n \in Descriptors : n <= 2 => t[n] = Terminal
      /\ \A n \in Descriptors : n > 2 /\ t[n] # NoFile =>
           n # fd[f] /\ \E g \in FileObjects : g # f /\ fd[g] = n
      /\ ~refused => \A g \in FileObjects : g # f /\ fd[g] > 0 => t[fd[g]] = expected[g] /\ fd[g] # fd[f]
  BY ReleasedTable
<1>3. touched' = touched /\ (~refused' => ~refused)  BY <1>1 DEF FileOpen
<1>4. TransfersReachOwnFile'  BY <1>3 DEF FilesInv, TransfersReachOwnFile
<1> HIDE DEF t
<1>5. CASE name = NotAString
  <2>1. table' = t /\ UNCHANGED <<fd, expected, touched>> /\ refused' = (refused \/ fd[f] > 0)
    BY <1>5 DEF FileOpen, t
  <2>2. refused' \in BOOLEAN  BY <2>1
  <2>3. FilesTypeOK'  BY <1>1, <1>2, <2>1, <2>2 DEF FilesTypeOK
  <2>4. OwnsItsDescriptor'
    <3> SUFFICES ASSUME ~refused', NEW g \in FileObjects, fd[g] > 0
                 PROVE  t[fd[g]] = expected[g] /\ \A h \in FileObjects : fd[h] = fd[g] => h = g
      BY <2>1 DEF OwnsItsDescriptor
    <3>1. ~refused /\ ~(fd[f] > 0)  BY <2>1
    <3>2. g # f  BY <3>1
    <3> QED  BY <1>2, <3>1, <3>2 DEF FilesInv, OwnsItsDescriptor
  <2>5. DescriptorsAccounted'  BY <1>2, <2>1 DEF DescriptorsAccounted
  <2> QED  BY <1>4, <2>1, <2>3, <2>4, <2>5 DEF FilesInv
<1>6. CASE name \in Paths
  <2>1. refused' = refused  BY <1>6 DEF FileOpen
  <2>2. CASE \E n \in Descriptors :
               /\ Lowest(t, n)
               /\ table' = [t EXCEPT ![n] = name]
               /\ fd' = [fd EXCEPT ![f] = n]
               /\ expected' = [expected EXCEPT ![f] = name]
    <3>1. PICK n \in Descriptors :
               /\ Lowest(t, n)
               /\ table' = [t EXCEPT ![n] = name]
               /\ fd' = [fd EXCEPT ![f] = n]
               /\ expected' = [expected EXCEPT ![f] = name]
      BY <2>2
    <3>2. t[n] = NoFile  BY <3>1 DEF Lowest
    <3>3. n > 2  BY <1>2, <3>2
    <3>4. FilesTypeOK'  BY <1>1, <1>2, <1>3, <1>6, <2>1, <3>1 DEF FilesTypeOK
    <3>5. ASSUME ~refused, NEW g \in FileObjects, g # f, fd[g] > 0
          PROVE  fd[g] # n /\ t[fd[g]] = expected[g]
      BY <1>2, <3>2, <3>5 DEF FilesInv
    <3>6. OwnsItsDescriptor'
      <4> SUFFICES ASSUME ~refused, NEW g \in FileObjects, fd'[g] > 0
                   PROVE  table'[fd'[g]] = expected'[g] /\ \A h \in FileObjects : fd'[h] = fd'[g] => h = g
        BY <2>1 DEF OwnsItsDescriptor
      <4>1. CASE g = f
        <5>1. fd'[g] = n /\ table'[n] = name /\ expected'[g] = name  BY <1>1, <1>2, <3>1, <4>1
        <5>2. \A h \in FileObjects : fd'[h] = n => h = f  BY <1>1, <3>1, <3>3, <3>5
        <5> QED  BY <4>1, <5>1, <5>2
      <4>2. CASE g # f
        <5>1. fd'[g] = fd[g] /\ expected'[g] = expected[g] /\ fd[g] \in Descriptors
          BY <1>1, <3>1, <4>2
        <5>2. fd[g] # n /\ t[fd[g]] = expected[g]  BY <3>5, <4>2, <5>1
        <5>3. table'[fd[g]] = t[fd[g]]  BY <1>2, <3>1, <5>1, <5>2
        <5>4. \A h \in FileObjects : fd[h] = fd[g] => h = g
          BY <5>1 DEF FilesInv, OwnsItsDescriptor
        <5>5. \A h \in FileObjects : fd'[h] = fd[g] => h = g  BY <1>1, <3>1, <5>2, <5>4
        <5> QED  BY <5>1, <5>2, <5>3, <5>5
      <4> QED  BY <4>1, <4>2
    <3>7. DescriptorsAccounted'
      <4> SUFFICES ASSUME NEW m \in Descriptors
                   PROVE  /\ m <= 2 => table'[m] = Terminal
                          /\ m > 2 /\ table'[m] # NoFile => \E g \in FileObjects : fd'[g] = m
        BY DEF DescriptorsAccounted
      <4>1. CASE m = n  BY <1>1, <3>1, <3>3, <4>1
      <4>2. CASE m # n
        <5>1. table'[m] = t[m]  BY <1>2, <3>1, <4>2
        <5>2. ASSUME NEW g \in FileObjects, g # f PROVE fd'[g] = fd[g]  BY <1>1, <3>1, <5>2
        <5> QED  BY <1>2, <5>1, <5>2
      <4> QED  BY <4>1, <4>2
    <3>8. \A g \in FileObjects : fd'[g] = (IF g = f THEN n ELSE fd[g])
                              /\ expected'[g] = (IF g = f THEN name ELSE expected[g])
      BY <1>1, <3>1
    <3>9. \A g \in FileObjects :
             /\ fd'[g] = 0 => expected'[g] = Terminal
             /\ fd'[g] = -1 => expected'[g] = NoFile
             /\ fd'[g] > 0 => fd'[g] > 2
             /\ fd'[g] > 0 => expected'[g] \in Paths
      BY <1>6, <3>3, <3>8 DEF FilesInv
    <3> QED  BY <1>4, <3>4, <3>6, <3>7, <3>9 DEF FilesInv
  <2>3. CASE table' = t /\ fd' = [fd EXCEPT ![f] = -1] /\ expected' = [expected EXCEPT ![f] = NoFile]
    <3>1. FilesTypeOK'  BY <1>1, <1>2, <1>3, <2>1, <2>3 DEF FilesTypeOK
    <3>2. \A g \in FileObjects : fd'[g] = (IF g = f THEN -1 ELSE fd[g])
                              /\ expected'[g] = (IF g = f THEN NoFile ELSE expected[g])
      BY <1>1, <2>3
    <3>3. OwnsItsDescriptor'
      BY <1>2, <2>1, <2>3, <3>2 DEF FilesInv, OwnsItsDescriptor
    <3>4. DescriptorsAccounted'  BY <1>2, <2>3, <3>2 DEF DescriptorsAccounted
    <3>5. \A g \in FileObjects :
             /\ fd'[g] = 0 => expected'[g] = Terminal
             /\ fd'[g] = -1 => expected'[g] = NoFile
             /\ fd'[g] > 0 => fd'[g] > 2
             /\ fd'[g] > 0 => expected'[g] \in Paths
      BY <3>2 DEF FilesInv
    <3> QED  BY <1>4, <3>1, <3>3, <3>4, <3>5 DEF FilesInv
  <2> QED  BY <1>6, <2>2, <2>3 DEF FileOpen, t
<1> QED  BY <1>5, <1>6

LEMMA FileCloseKeeps ==
  ASSUME FilesInv, NEW f \in FileObjects, FileClose(f)
  PROVE  FilesInv'
<1> USE FilesAssumption DEF Descriptors
<1>1. /\ fd \in [FileObjects -> -1..MaxFd] /\ fd[f] > 0
      /\ expected \in [FileObjects -> Paths \cup {Terminal, NoFile}]
  BY DEF FilesInv, FilesTypeOK, FileClose
<1>2. /\ Released(f) \in [Descriptors -> Paths \cup {Terminal, NoFile}]
      /\ \A n \in Descriptors : n <= 2 => Released(f)[n] = Terminal
      /\ \A n \in Descriptors : n > 2 /\ Released(f)[n] # NoFile =>
           n # fd[f] /\ \E g \in FileObjects : g # f /\ fd[g] = n
      /\ ~refused => \A g \in FileObjects : g # f /\ fd[g] > 0 =>
           Released(f)[fd[g]] = expected[g] /\ fd[g] # fd[f]
  BY ReleasedTable
<1>3. table' = Released(f) /\ UNCHANGED <<refused, touched>>
  BY <1>1 DEF FileClose, Released
<1>4. \A g \in FileObjects : fd'[g] = (IF g = f THEN 0 ELSE fd[g])
                          /\ expected'[g] = (IF g = f THEN Terminal ELSE expected[g])
  BY <1>1 DEF FileClose, DescriptorAfterClose
<1>5. FilesTypeOK'
  BY <1>1, <1>2, <1>3 DEF FilesInv, FilesTypeOK, FileClose, DescriptorAfterClose
<1>6. OwnsItsDescriptor'  BY <1>2, <1>3, <1>4 DEF FilesInv, OwnsItsDescriptor
<1>7. DescriptorsAccounted'  BY <1>2, <1>3, <1>4 DEF DescriptorsAccounted
<1>8. TransfersReachOwnFile'  BY <1>3 DEF FilesInv, TransfersReachOwnFile
<1>9. \A g \in FileObjects :
        /\ fd'[g] = 0 => expected'[g] = Terminal
        /\ fd'[g] = -1 => expected'[g] = NoFile
        /\ fd'[g] > 0 => fd'[g] > 2
        /\ fd'[g] > 0 => expected'[g] \in Paths
  BY <1>4 DEF FilesInv
<1> QED  BY <1>5, <1>6, <1>7, <1>8, <1>9 DEF FilesInv

LEMMA TransferKeeps ==
  ASSUME FilesInv, NEW f \in FileObjects, Transfer(f)
  PROVE  FilesInv'
<1> USE FilesAssumption DEF Descriptors
<1>1. /\ fd \in [FileObjects -> -1..MaxFd] /\ table \in [Descriptors -> Paths \cup {Terminal, NoFile}]
      /\ expected \in [FileObjects -> Paths \cup {Terminal, NoFile}]
  BY DEF FilesInv, FilesTypeOK
<1>2. Target(f) \in Paths \cup {Terminal, NoFile}  BY <1>1 DEF Target
<1>3. ~refused => Target(f) = expected[f]
  BY <1>1 DEF Target, FilesInv, OwnsItsDescriptor
<1>4. touched' = [target |-> Target(f), expected |-> expected[f]] /\ UNCHANGED <<fd, table, expected, refused>>
  BY DEF Transfer
<1>5. FilesTypeOK'  BY <1>1, <1>2, <1>4 DEF FilesInv, FilesTypeOK
<1>6. TransfersReachOwnFile'  BY <1>3, <1>4 DEF TransfersReachOwnFile
<1> QED  BY <1>4, <1>5, <1>6 DEF FilesInv, OwnsItsDescriptor, DescriptorsAccounted

THEOREM FilesInvariant == FilesSpec => []FilesInv
<1>1. FilesInv /\ [FilesNext]_filesVars => FilesInv'
  <2> SUFFICES ASSUME FilesInv, [FilesNext]_filesVars PROVE FilesInv'
    OBVIOUS
  <2>1. CASE FilesNext
    BY <2>1, FileOpenKeeps, FileCloseKeeps, TransferKeeps DEF FilesNext
  <2>2. CASE UNCHANGED filesVars
    BY <2>2 DEF filesVars, FilesInv, FilesTypeOK, OwnsItsDescriptor, DescriptorsAccounted, TransfersReachOwnFile
  <2> QED  BY <2>1, <2>2
<1> QED  BY <1>1, FilesInvInit, PTL DEF FilesSpec

\* Objects do not share descriptors, and a descriptor refers to the file that
\* its object opened last, unless an open was refused.
THEOREM FilesOwnDescriptors == FilesSpec => []OwnsItsDescriptor
<1>1. FilesInv => OwnsItsDescriptor  BY DEF FilesInv
<1> QED  BY <1>1, FilesInvariant, PTL

\* Reads and writes reach the file that the program has opened with the object,
\* the terminal or nothing, unless an open was refused.
THEOREM FilesReachTheirTarget == FilesSpec => []TransfersReachOwnFile
<1>1. FilesInv => TransfersReachOwnFile  BY DEF FilesInv
<1> QED  BY <1>1, FilesInvariant, PTL

\* No descriptor leaks and the standard ones stay open, refusals or not.
THEOREM FilesLeakNothing == FilesSpec => []DescriptorsAccounted
<1>1. FilesInv => DescriptorsAccounted  BY DEF FilesInv
<1> QED  BY <1>1, FilesInvariant, PTL

-----------------------------------------------------------------------------
(* Selectors.                                                              *)

\* The table is finite, and numbers and names are as many.
SelectorsInv ==
  /\ selNames \in Seq(STRING)
  /\ IsFiniteSet(DOMAIN selectors)
  /\ Cardinality(DOMAIN selectors) = Len(selNames)
  /\ SelectorsNameMethods

\* A table the first call may start from, or a later one go on with.
Numbered(known, names) ==
  /\ names \in Seq(STRING)
  /\ IsFiniteSet(DOMAIN known)
  /\ Cardinality(DOMAIN known) = Len(names)
  /\ \A n \in DOMAIN known : known[n] \in 1..Len(names) /\ names[known[n]] = n
  /\ \A i \in DOMAIN StaticSelectorNames :
       StaticSelectorNames[i] \in DOMAIN known /\ known[StaticSelectorNames[i]] = i

LEMMA StaticNumbered == Numbered(Static, StaticSelectorNames)
<1> USE SelectorsAssumption
<1> DEFINE names == StaticSelectorNames
           len == Len(names)
<1>1. names \in Seq(STRING) /\ len \in Nat /\ DOMAIN names = 1..len /\ DOMAIN Static = StaticNames
  BY DEF Static
<1>2. ExistsBijection(1..len, StaticNames)
  <2>1. names \in [1..len -> StaticNames]  BY <1>1 DEF StaticNames
  <2>2. names \in Injection(1..len, StaticNames)  BY <1>1, <2>1 DEF Injection, IsInjective
  <2>3. names \in Surjection(1..len, StaticNames)  BY <1>1, <2>1 DEF Surjection, StaticNames
  <2> QED  BY <2>2, <2>3 DEF ExistsBijection, Bijection
<1>3. IsFiniteSet(StaticNames) /\ Cardinality(StaticNames) = len
  BY <1>1, <1>2, FS_CountingElements, FS_NatBijection
<1>4. \A i \in 1..len : (CHOOSE j \in DOMAIN names : names[j] = names[i]) = i  BY <1>1
<1>5. \A i \in 1..len : names[i] \in StaticNames /\ Static[names[i]] = i
  BY <1>1, <1>4 DEF Static, StaticNames
<1>6. ASSUME NEW n \in StaticNames PROVE Static[n] \in 1..len /\ names[Static[n]] = n
  <2>1. PICK i \in 1..len : names[i] = n  BY <1>1 DEF StaticNames
  <2> QED  BY <1>5, <2>1
<1> QED  BY <1>1, <1>3, <1>5, <1>6 DEF Numbered

LEMMA SelectorsInvNext == SelectorsInv /\ [SelectorsNext]_selectorsVars => SelectorsInv'
<1> SUFFICES ASSUME SelectorsInv, [SelectorsNext]_selectorsVars PROVE SelectorsInv'
  OBVIOUS
<1>1. ASSUME Numbered(selectors', selNames') PROVE SelectorsInv'
  BY <1>1 DEF Numbered, SelectorsInv, SelectorsNameMethods
<1>2. ASSUME NEW name \in MethodNames, lookupSelector(name) PROVE SelectorsInv'
  <2> DEFINE first == DOMAIN selectors = {}
             known == IF first THEN Static ELSE selectors
             names == IF first THEN StaticSelectorNames ELSE selNames
             len == Len(names)
  <2>1. Numbered(known, names)
    <3>1. CASE first  BY <3>1, StaticNumbered
    <3>2. CASE ~first
      <4>1. known = selectors /\ names = selNames /\ DOMAIN selNames = 1..Len(selNames)
        BY <3>2 DEF SelectorsInv
      <4>2. Numbered(selectors, selNames)
        BY <3>2, <4>1 DEF SelectorsInv, SelectorsNameMethods, Numbered
      <4> QED  BY <4>1, <4>2
    <3> QED  BY <3>1, <3>2
  <2>2. IF name \in DOMAIN known THEN selectors' = known /\ selNames' = names
        ELSE /\ selectors' = [n \in DOMAIN known \cup {name} |->
                                IF n = name THEN NextSelector(known) ELSE known[n]]
             /\ selNames' = Append(names, name)
    BY <1>2 DEF lookupSelector
  <2> HIDE DEF known, names, first
  <2>3. CASE name \in DOMAIN known  BY <1>1, <2>1, <2>2, <2>3
  <2>4. CASE name \notin DOMAIN known
    <3>1. name \in STRING /\ names \in Seq(STRING) /\ len \in Nat
      <4>1. name \in STRING
        <5>1. MethodNames \subseteq STRING  BY SelectorsAssumption
        <5> QED  BY <1>2, <5>1
      <4>2. names \in Seq(STRING)  BY <2>1 DEF Numbered
      <4>3. len \in Nat  BY <4>2, LenProperties
      <4> QED  BY <4>1, <4>2, <4>3, Zenon
    <3>2. selNames' \in Seq(STRING) /\ Len(selNames') = len + 1 /\ selNames'[len + 1] = name
            /\ \A i \in 1..len : selNames'[i] = names[i]
      BY <2>2, <2>4, <3>1, AppendProperties
    <3>3. DOMAIN selectors' = DOMAIN known \cup {name}  BY <2>2, <2>4
    <3>4. IsFiniteSet(DOMAIN known) /\ Cardinality(DOMAIN known) = len  BY <2>1 DEF Numbered
    <3>5. IsFiniteSet(DOMAIN selectors') /\ Cardinality(DOMAIN selectors') = len + 1
      BY <2>4, <3>3, <3>4, FS_AddElement
    <3>6. selectors'[name] = len + 1 /\ \A n \in DOMAIN known : selectors'[n] = known[n]
      BY <2>2, <2>4, <3>4 DEF NextSelector
    <3>7. \A n \in DOMAIN selectors' : selectors'[n] \in 1..(len + 1) /\ selNames'[selectors'[n]] = n
      <4>1. ASSUME NEW n \in DOMAIN known
            PROVE  selectors'[n] \in 1..(len + 1) /\ selNames'[selectors'[n]] = n
        <5>1. known[n] \in 1..len /\ names[known[n]] = n  BY <2>1 DEF Numbered
        <5> QED  BY <3>1, <3>2, <3>6, <5>1
      <4>2. selectors'[name] \in 1..(len + 1) /\ selNames'[selectors'[name]] = name
        <5>1. len + 1 \in 1..(len + 1)  BY <3>1
        <5> HIDE DEF len
        <5> QED  BY <3>2, <3>6, <5>1
      <4> QED  BY <3>3, <4>1, <4>2
    <3>8. \A i \in DOMAIN StaticSelectorNames :
            StaticSelectorNames[i] \in DOMAIN selectors' /\ selectors'[StaticSelectorNames[i]] = i
      BY <2>1, <3>3, <3>6 DEF Numbered
    <3>9. Numbered(selectors', selNames')  BY <3>2, <3>5, <3>7, <3>8 DEF Numbered
    <3> QED  BY <1>1, <3>9
  <2> QED  BY <2>3, <2>4
<1>3. CASE UNCHANGED selectorsVars
  BY <1>3 DEF selectorsVars, SelectorsInv, SelectorsNameMethods
<1> QED  BY <1>2, <1>3 DEF SelectorsNext

\* Whatever names a program uses and in whichever order, a selector stands for
\* one name, and for the runtime's methods under the runtime's number.
THEOREM SelectorsCorrespond == SelectorsSpec => []SelectorsNameMethods
<1>1. SelectorsInit => SelectorsInv
  <2> SUFFICES ASSUME SelectorsInit PROVE SelectorsInv
    OBVIOUS
  <2>1. DOMAIN selectors = {} /\ selNames = <<>>  BY DEF SelectorsInit
  <2>2. IsFiniteSet(DOMAIN selectors) /\ Cardinality(DOMAIN selectors) = 0  BY <2>1, FS_EmptySet
  <2> QED  BY <2>1, <2>2 DEF SelectorsInv, SelectorsNameMethods
<1>2. SelectorsInv => SelectorsNameMethods  BY DEF SelectorsInv
<1> QED  BY <1>1, <1>2, SelectorsInvNext, PTL DEF SelectorsSpec

-----------------------------------------------------------------------------
(* Strings.                                                                *)

LEMMA SmallestNumber ==
  ASSUME NEW T, T \subseteq Nat, T # {}
  PROVE  \E x \in T : \A y \in T : x <= y
<1> DEFINE R == OpToRel(<, Nat)
<1>1. IsWellFoundedOn(R, Nat)  BY NatLessThanWellFounded
<1>2. \A x, y \in Nat : <<y, x>> \in R <=> y < x  BY DEF OpToRel
<1> HIDE DEF R
<1>3. PICK x \in T : \A y \in T : ~ (<<y, x>> \in R)  BY <1>1, WFMin
<1>4. ASSUME NEW y \in T PROVE x <= y
  <2>1. x \in Nat /\ y \in Nat  OBVIOUS
  <2>2. ~(y < x)  BY <1>2, <1>3, <2>1
  <2> QED  BY <2>1, <2>2
<1> QED  BY <1>4

\* What the sign of a difference of plain chars says; the leaves below that need
\* it have no arithmetic of their own.
LEMMA SmallerDiffers == \A x, y \in 1..127 : x < y => x # y
  OBVIOUS

LEMMA CharArithmetic ==
  /\ \A x \in 1..127 : x > 0 /\ ~(x < 0)
  /\ \A x \in 1..127 : \A z : z = 0 - x => z < 0 /\ ~(z > 0)
  /\ \A x, y \in 1..127 : x # y => x - y # 0
  /\ \A x, y \in 1..127 : \A z : z = x - y => (z < 0 <=> x < y) /\ (z > 0 <=> y < x)
  OBVIOUS

\* The length of the common part, and what plain chars are worth to memcmp.
LEMMA PlainString ==
  ASSUME NEW a, NEW b, Len(a) \in Nat, Len(b) \in Nat,
         \A i \in 1..Len(a) : a[i] \in 1..127, \A i \in 1..Len(b) : b[i] \in 1..127
  PROVE  /\ Shorter(a, b) \in Nat
         /\ Shorter(a, b) <= Len(a) /\ Shorter(a, b) <= Len(b)
         /\ Shorter(a, b) = Len(a) \/ Shorter(a, b) = Len(b)
         /\ Shorter(a, b) = Shorter(b, a)
         /\ \A i \in 1..Len(a) : Unsigned(a[i]) = a[i]
         /\ \A i \in 1..Len(b) : Unsigned(b[i]) = b[i]
<1>1. \A c \in 1..127 : Unsigned(c) = c  BY DEF Unsigned
<1>2. \A i \in 1..Len(a) : Unsigned(a[i]) = a[i]  BY <1>1, Zenon
<1>3. \A i \in 1..Len(b) : Unsigned(b[i]) = b[i]  BY <1>1, Zenon
<1>4. ASSUME NEW p \in Nat, NEW q \in Nat
      PROVE  LET sh == IF p <= q THEN p ELSE q IN
             /\ sh \in Nat /\ sh <= p /\ sh <= q /\ (sh = p \/ sh = q)
             /\ sh = IF q <= p THEN q ELSE p
  OBVIOUS
<1>5. /\ Shorter(a, b) \in Nat /\ Shorter(a, b) <= Len(a) /\ Shorter(a, b) <= Len(b)
      /\ (Shorter(a, b) = Len(a) \/ Shorter(a, b) = Len(b))
      /\ Shorter(a, b) = Shorter(b, a)
  BY <1>4, Zenon DEF Shorter
<1> QED  BY <1>2, <1>3, <1>5, Zenon

\* The first difference.
LEMMA FirstDifference ==
  ASSUME NEW a, NEW b, NEW n \in Nat, ~(\A i \in 1..n : a[i] = b[i])
  PROVE  \E k \in 1..n : /\ a[k] # b[k] /\ \A j \in 1..(k - 1) : a[j] = b[j]
                         /\ memcmp(a, b, n) = Unsigned(a[k]) - Unsigned(b[k])
<1> DEFINE first(k) == a[k] # b[k] /\ \A j \in 1..(k - 1) : a[j] = b[j]
           T == {k \in 1..n : a[k] # b[k]}
           d == CHOOSE k \in 1..n : first(k)
<1>1. \E k \in 1..n : first(k)
  <2>1. T \subseteq Nat /\ T # {}  OBVIOUS
  <2> HIDE DEF T
  <2>2. PICK x \in T : \A y \in T : x <= y  BY <2>1, SmallestNumber
  <2>3. x \in 1..n /\ a[x] # b[x]  BY DEF T
  <2>4. ASSUME NEW j \in 1..(x - 1) PROVE a[j] = b[j]
    <3>1. j \in 1..n /\ ~(x <= j)  BY <2>3
    <3> QED  BY <2>2, <3>1 DEF T
  <2> QED  BY <2>3, <2>4
<1>2. d \in 1..n /\ first(d)  BY <1>1
<1>3. memcmp(a, b, n) = Unsigned(a[d]) - Unsigned(b[d])  BY DEF memcmp
<1> HIDE DEF d
<1> QED  BY <1>2, <1>3

\* One half of the order; the other exchanges the strings.
LEMMA CompareDecides ==
  ASSUME NEW a, NEW b, Len(a) \in Nat, Len(b) \in Nat,
         \A i \in 1..Len(a) : a[i] \in 1..127, \A i \in 1..Len(b) : b[i] \in 1..127
  PROVE  /\ StringCmp(a, b) < 0 <=> Before(a, b)
         /\ StringCmp(a, b) > 0 <=> Before(b, a)
<1> DEFINE m == Shorter(a, b)
<1>1. /\ Len(a) \in Nat /\ Len(b) \in Nat /\ m \in Nat
      /\ m <= Len(a) /\ m <= Len(b) /\ (m = Len(a) \/ m = Len(b)) /\ m = Shorter(b, a)
      /\ \A i \in 1..Len(a) : a[i] \in 1..127 /\ Unsigned(a[i]) = a[i]
      /\ \A i \in 1..Len(b) : b[i] \in 1..127 /\ Unsigned(b[i]) = b[i]
  BY PlainString
<1> HIDE DEF m
<1>2. CASE \A i \in 1..m : a[i] = b[i]
  <2>1. memcmp(a, b, m) = 0  BY <1>2 DEF memcmp
  <2>2. ASSUME NEW k \in 0..m PROVE ~(k < Len(a) /\ k < Len(b) /\ a[k + 1] # b[k + 1])
    BY <1>1, <1>2
  <2>3. Before(a, b) <=> Len(a) < Len(b)
    <3>1. ASSUME Len(a) < Len(b) PROVE Before(a, b)
      <4>1. m = Len(a) /\ m \in 0..m  BY <1>1, <3>1
      <4> QED  BY <1>2, <3>1, <4>1 DEF Before, m
    <3>2. ASSUME Before(a, b) PROVE Len(a) < Len(b)
      <4>1. PICK k \in 0..m : k < Len(b) /\ (k = Len(a) \/ (k < Len(a) /\ a[k + 1] < b[k + 1]))
        BY <3>2 DEF Before, m
      <4>2. CASE k = Len(a)  BY <1>1, <4>1, <4>2
      <4>3. CASE k < Len(a) /\ a[k + 1] < b[k + 1]
        <5>1. a[k + 1] = b[k + 1]  BY <2>2, <4>1, <4>3
        <5>2. k + 1 \in 1..Len(b)  BY <1>1, <4>1, <4>3
        <5>3. b[k + 1] \in 1..127  BY <1>1, <5>2
        <5> QED  BY <4>3, <5>1, <5>3, SmallerDiffers, Zenon
      <4> QED  BY <4>1, <4>2, <4>3
    <3> QED  BY <3>1, <3>2
  <2>4. Before(b, a) <=> Len(b) < Len(a)
    <3>1. ASSUME Len(b) < Len(a) PROVE Before(b, a)
      <4>1. m = Len(b) /\ m \in 0..Shorter(b, a)  BY <1>1, <3>1
      <4> QED  BY <1>2, <3>1, <4>1 DEF Before
    <3>2. ASSUME Before(b, a) PROVE Len(b) < Len(a)
      <4>1. PICK k \in 0..m : k < Len(a) /\ (k = Len(b) \/ (k < Len(b) /\ b[k + 1] < a[k + 1]))
        BY <1>1, <3>2 DEF Before
      <4>2. CASE k = Len(b)  BY <1>1, <4>1, <4>2
      <4>3. CASE k < Len(b) /\ b[k + 1] < a[k + 1]
        <5>1. a[k + 1] = b[k + 1]  BY <2>2, <4>1, <4>3
        <5>2. k + 1 \in 1..Len(b)  BY <1>1, <4>1, <4>3
        <5>3. b[k + 1] \in 1..127  BY <1>1, <5>2
        <5> QED  BY <4>3, <5>1, <5>3, SmallerDiffers, Zenon
      <4> QED  BY <4>1, <4>2, <4>3
    <3> QED  BY <3>1, <3>2
  <2>5. CASE Len(a) > Len(b)
    <3>1. StringCmp(a, b) = a[Len(b) + 1]  BY <1>1, <2>1, <2>5 DEF StringCmp, m
    <3>2. Len(b) + 1 \in 1..Len(a)  BY <1>1, <2>5
    <3>3. a[Len(b) + 1] \in 1..127  BY <1>1, <3>2
    <3>4. StringCmp(a, b) > 0 /\ ~(StringCmp(a, b) < 0)  BY <3>1, <3>3, CharArithmetic, Zenon
    <3>5. Before(b, a) /\ ~Before(a, b)  BY <1>1, <2>3, <2>4, <2>5
    <3> QED  BY <3>4, <3>5
  <2>6. CASE Len(a) < Len(b)
    <3>1. StringCmp(a, b) = 0 - b[Len(a) + 1]  BY <1>1, <2>1, <2>6 DEF StringCmp, m
    <3>2. Len(a) + 1 \in 1..Len(b)  BY <1>1, <2>6
    <3>3. b[Len(a) + 1] \in 1..127  BY <1>1, <3>2
    <3>4. StringCmp(a, b) < 0 /\ ~(StringCmp(a, b) > 0)  BY <3>1, <3>3, CharArithmetic, Zenon
    <3>5. Before(a, b) /\ ~Before(b, a)  BY <1>1, <2>3, <2>4, <2>6
    <3> QED  BY <3>4, <3>5
  <2>7. CASE Len(a) = Len(b)
    <3>1. StringCmp(a, b) = 0  BY <1>1, <2>1, <2>7 DEF StringCmp, m
    <3> QED  BY <1>1, <2>3, <2>4, <2>7, <3>1
  <2> QED  BY <1>1, <2>5, <2>6, <2>7
<1>3. CASE ~(\A i \in 1..m : a[i] = b[i])
  <2>1. PICK d \in 1..m : /\ a[d] # b[d] /\ \A j \in 1..(d - 1) : a[j] = b[j]
                          /\ memcmp(a, b, m) = Unsigned(a[d]) - Unsigned(b[d])
    <3>1. m \in Nat  BY <1>1
    <3> QED  BY <1>3, <3>1, FirstDifference
  <2>2. a[d] \in 1..127 /\ b[d] \in 1..127 /\ Unsigned(a[d]) = a[d] /\ Unsigned(b[d]) = b[d]
          /\ d <= Len(a) /\ d <= Len(b)
    BY <1>1
  <2>3. StringCmp(a, b) = a[d] - b[d]
    <3>1. memcmp(a, b, m) = a[d] - b[d] /\ a[d] - b[d] # 0
      BY <2>1, <2>2, CharArithmetic, Zenon
    <3> QED  BY <3>1 DEF StringCmp, m
  <2>4. d - 1 \in 0..m /\ (d - 1) + 1 = d /\ d - 1 < Len(a) /\ d - 1 < Len(b)  BY <1>1, <2>2
  <2>5. ASSUME NEW k \in 0..m, \A i \in 1..k : a[i] = b[i],
               k = Len(a) \/ k = Len(b) \/ a[k + 1] # b[k + 1]
        PROVE  k + 1 = d /\ k < Len(a) /\ k < Len(b)
    <3>1. ~(d \in 1..k)  BY <2>1, <2>5
    <3>2. k < d  BY <1>1, <3>1
    <3>3. k < Len(a) /\ k < Len(b)  BY <1>1, <2>2, <3>2
    <3>4. a[k + 1] # b[k + 1]  BY <1>1, <2>5, <3>3
    <3>5. ~(k + 1 \in 1..(d - 1))  BY <2>1, <3>4
    <3> QED  BY <1>1, <3>2, <3>3, <3>5
  <2>6. Before(a, b) <=> a[d] < b[d]
    <3>1. ASSUME a[d] < b[d] PROVE Before(a, b)
      <4>1. \A i \in 1..(d - 1) : a[i] = b[i]  BY <2>1
      <4> QED  BY <2>4, <3>1, <4>1 DEF Before, m
    <3>2. ASSUME Before(a, b) PROVE a[d] < b[d]
      <4>1. PICK k \in 0..m : /\ \A i \in 1..k : a[i] = b[i]
                              /\ k < Len(b)
                              /\ k = Len(a) \/ (k < Len(a) /\ a[k + 1] < b[k + 1])
        BY <3>2 DEF Before, m
      <4>2. k < Len(a) => a[k + 1] # b[k + 1]
        <5> SUFFICES ASSUME k < Len(a) PROVE a[k + 1] # b[k + 1]  OBVIOUS
        <5>1. a[k + 1] < b[k + 1] /\ k + 1 \in 1..Len(a) /\ k + 1 \in 1..Len(b)  BY <1>1, <4>1
        <5>2. a[k + 1] \in 1..127 /\ b[k + 1] \in 1..127  BY <1>1, <5>1
        <5> QED  BY <5>1, <5>2, SmallerDiffers, Zenon
      <4>3. k + 1 = d /\ k < Len(a)  BY <2>5, <4>1, <4>2
      <4> QED  BY <1>1, <4>1, <4>3
    <3> QED  BY <3>1, <3>2
  <2>7. Before(b, a) <=> b[d] < a[d]
    <3>1. ASSUME b[d] < a[d] PROVE Before(b, a)
      <4>1. \A i \in 1..(d - 1) : b[i] = a[i]  BY <2>1
      <4> QED  BY <1>1, <2>4, <3>1, <4>1 DEF Before
    <3>2. ASSUME Before(b, a) PROVE b[d] < a[d]
      <4>1. PICK k \in 0..m : /\ \A i \in 1..k : b[i] = a[i]
                              /\ k < Len(a)
                              /\ k = Len(b) \/ (k < Len(b) /\ b[k + 1] < a[k + 1])
        BY <1>1, <3>2 DEF Before
      <4>2. k < Len(b) => a[k + 1] # b[k + 1]
        <5> SUFFICES ASSUME k < Len(b) PROVE a[k + 1] # b[k + 1]  OBVIOUS
        <5>1. b[k + 1] < a[k + 1] /\ k + 1 \in 1..Len(a) /\ k + 1 \in 1..Len(b)  BY <1>1, <4>1
        <5>2. a[k + 1] \in 1..127 /\ b[k + 1] \in 1..127  BY <1>1, <5>1
        <5> QED  BY <5>1, <5>2, SmallerDiffers, Zenon
      <4>3. \A i \in 1..k : a[i] = b[i]  BY <4>1
      <4>4. k + 1 = d /\ k < Len(b)  BY <2>5, <4>1, <4>2, <4>3
      <4> QED  BY <1>1, <4>1, <4>4
    <3> QED  BY <3>1, <3>2
  <2>8. (StringCmp(a, b) < 0 <=> a[d] < b[d]) /\ (StringCmp(a, b) > 0 <=> b[d] < a[d])
    BY <2>2, <2>3, CharArithmetic, Zenon
  <2> QED  BY <2>6, <2>7, <2>8
<1> QED  BY <1>2, <1>3

\* What a program works on stays a string.
StringsType == str \in Seq(Char)

LEMMA StringsStay == StringsSpec => []StringsType
<1>1. StringsInit => StringsType  BY StringsAssumption DEF StringsInit, StringsType
<1>2. StringsType /\ [StringsNext]_stringsVars => StringsType'
  <2> SUFFICES ASSUME str \in Seq(Char), [StringsNext]_stringsVars PROVE StringsType'
    BY DEF StringsType
  <2>1. ASSUME NEW other \in Literals, Add(other) PROVE StringsType'
    <3> DEFINE n == Len(str) + Len(other)
    <3>1. other \in Seq(Char)  BY StringsAssumption
    <3>2. n \in Nat /\ DOMAIN str = 1..Len(str) /\ DOMAIN other = 1..Len(other)  BY <3>1
    <3>3. str' = [i \in 1..n |-> IF i <= Len(str) THEN str[i] ELSE other[i - Len(str)]]
      BY <2>1 DEF Add, StringAdd
    <3>4. ASSUME NEW i \in 1..n
          PROVE  (IF i <= Len(str) THEN str[i] ELSE other[i - Len(str)]) \in Char
      <4>1. CASE i <= Len(str)
        <5>1. i \in 1..Len(str)  BY <3>2, <4>1
        <5>2. str[i] \in Char  BY <5>1, ElementOfSeq
        <5> QED  BY <4>1, <5>2
      <4>2. CASE ~(i <= Len(str))
        <5>1. i - Len(str) \in 1..Len(other)  BY <3>1, <3>2, <4>2
        <5>2. other[i - Len(str)] \in Char  BY <3>1, <5>1, ElementOfSeq
        <5> QED  BY <4>2, <5>2
      <4> QED  BY <4>1, <4>2
    <3>5. str' \in [1..n -> Char]  BY <3>3, <3>4
    <3> QED  BY <3>2, <3>5, SeqDef DEF StringsType
  <2>2. CASE UNCHANGED str  BY <2>2 DEF StringsType
  <2>3. ASSUME NEW other \in Literals, Literal(other) PROVE StringsType'
    BY <2>3, StringsAssumption DEF Literal, StringsType
  <2> QED  BY <2>1, <2>2, <2>3 DEF StringsNext, stringsVars, Compare, Index, Refuse
<1>3. QED  BY <1>1, <1>2, PTL DEF StringsSpec

\* compare orders all plain strings lexicographically.
THEOREM StringsCompare == StringsSpec => []CompareIsLexicographic
<1>1. StringsType => CompareIsLexicographic
  <2> SUFFICES ASSUME str \in Seq(Char), NEW other \in Literals, Plain(str), Plain(other)
               PROVE  /\ StringCmp(str, other) < 0 <=> Before(str, other)
                      /\ StringCmp(str, other) > 0 <=> Before(other, str)
    BY DEF CompareIsLexicographic, StringsType
  <2>1. other \in Seq(Char)  BY StringsAssumption
  <2>2. DOMAIN str = 1..Len(str) /\ DOMAIN other = 1..Len(other)
          /\ Len(str) \in Nat /\ Len(other) \in Nat
    BY <2>1, LenProperties
  <2>3. (\A i \in 1..Len(str) : str[i] \in 1..127) /\ (\A i \in 1..Len(other) : other[i] \in 1..127)
    BY <2>2, Zenon DEF Plain
  <2> QED  BY <2>2, <2>3, CompareDecides
<1> QED  BY <1>1, StringsStay, PTL

\* What + makes of two strings.
Joins(x, p, a) ==
  /\ Len(x) = Len(p) + Len(a)
  /\ \A i \in 1..Len(p) : x[i] = p[i]
  /\ \A i \in 1..Len(a) : x[Len(p) + i] = a[i]

LEMMA AddJoins ==
  ASSUME NEW p \in Seq(Char), NEW a \in Seq(Char)
  PROVE  Joins(StringAdd(p, a), p, a)
<1> DEFINE n == Len(p) + Len(a)
           item(i) == IF i <= Len(p) THEN p[i] ELSE a[i - Len(p)]
<1>1. Len(p) \in Nat /\ Len(a) \in Nat /\ n \in Nat
  OBVIOUS
<1>2. StringAdd(p, a) = [i \in 1..n |-> item(i)]
  BY DEF StringAdd
<1>3. \A i \in 1..Len(p) : i \in 1..n /\ item(i) = p[i]
  BY <1>1
<1>4. ASSUME NEW i \in 1..Len(a) PROVE Len(p) + i \in 1..n /\ item(Len(p) + i) = a[i]
  <2>1. Len(p) + i \in 1..n /\ ~(Len(p) + i <= Len(p)) /\ (Len(p) + i) - Len(p) = i
    BY <1>1, <1>4
  <2> QED  BY <2>1
<1> HIDE DEF item
<1>5. Len(StringAdd(p, a)) = n
  <2>1. PICK x : x = StringAdd(p, a)
    OBVIOUS
  <2>2. DOMAIN x = 1..n /\ x = [i \in 1..n |-> x[i]]
    BY <1>2, <2>1
  <2>3. Len(x) = n
    BY <1>1, <1>2, <2>1, <2>2
  <2> QED  BY <2>1, <2>3
<1> QED  BY <1>2, <1>3, <1>4, <1>5 DEF Joins

\* The first difference of two strings is where it was, further on, when
\* something is put in front of both.
Prefixed(x, y, a, b, h, m) ==
  /\ h \in Nat /\ m \in Nat
  /\ \A i \in 1..h : x[i] = y[i]
  /\ \A i \in 1..m : x[h + i] = a[i] /\ y[h + i] = b[i]

LEMMA PrefixComparesAlike ==
  ASSUME NEW a, NEW b, NEW x, NEW y, NEW h, NEW m, Prefixed(x, y, a, b, h, m)
  PROVE  memcmp(x, y, h + m) = memcmp(a, b, m)
<1> USE DEF Prefixed
<1>1. h + m \in Nat
  OBVIOUS
<1>2. CASE \A i \in 1..m : a[i] = b[i]
  <2>1. ASSUME NEW i \in 1..(h + m) PROVE x[i] = y[i]
    <3>1. CASE i \in 1..h  BY <3>1
    <3>2. CASE i \notin 1..h
      <4>1. i - h \in 1..m /\ h + (i - h) = i  BY <2>1, <3>2
      <4> QED  BY <1>2, <4>1
    <3> QED  BY <3>1, <3>2
  <2>2. memcmp(x, y, h + m) = 0  BY <2>1 DEF memcmp
  <2>3. memcmp(a, b, m) = 0  BY <1>2 DEF memcmp
  <2> QED  BY <2>2, <2>3
<1>3. CASE ~(\A i \in 1..m : a[i] = b[i])
  <2>1. PICK d \in 1..m : /\ a[d] # b[d] /\ \A j \in 1..(d - 1) : a[j] = b[j]
                          /\ memcmp(a, b, m) = Unsigned(a[d]) - Unsigned(b[d])
    BY <1>3, FirstDifference
  <2>2. h + d \in 1..(h + m) /\ x[h + d] = a[d] /\ y[h + d] = b[d]
    <3>1. h + d \in 1..(h + m)  OBVIOUS
    <3> QED  BY <3>1
  <2>3. ~(\A i \in 1..(h + m) : x[i] = y[i])  BY <2>1, <2>2
  <2>4. PICK e \in 1..(h + m) : /\ x[e] # y[e] /\ \A j \in 1..(e - 1) : x[j] = y[j]
                                /\ memcmp(x, y, h + m) = Unsigned(x[e]) - Unsigned(y[e])
    BY <1>1, <2>3, FirstDifference
  <2>5. e \notin 1..h  BY <2>4
  <2>6. e - h \in 1..m /\ h + (e - h) = e  BY <2>5
  <2>7. a[e - h] # b[e - h]
    <3>1. x[h + (e - h)] = a[e - h] /\ y[h + (e - h)] = b[e - h]  BY <2>6, Zenon
    <3> QED  BY <2>4, <2>6, <3>1
  <2>8. e - h \notin 1..(d - 1)  BY <2>1, <2>7
  <2>9. h + d \notin 1..(e - 1)  BY <2>1, <2>2, <2>4
  <2>10. e = h + d  BY <2>6, <2>8, <2>9
  <2> QED  BY <2>1, <2>2, <2>4, <2>10
<1> QED  BY <1>2, <1>3

\* What + puts in front of two strings does not change how they compare,
\* whatever bytes they consist of: StringCmp gives the very same number.
LEMMA PrefixIsNeutral ==
  ASSUME NEW p \in Seq(Char), NEW a \in Seq(Char), NEW b \in Seq(Char)
  PROVE  StringCmp(StringAdd(p, a), StringAdd(p, b)) = StringCmp(a, b)
<1>1. PICK x : x = StringAdd(p, a)  OBVIOUS
<1>2. PICK y : y = StringAdd(p, b)  OBVIOUS
<1>3. PICK h : h = Len(p)  OBVIOUS
<1>4. /\ h \in Nat /\ Len(a) \in Nat /\ Len(b) \in Nat
      /\ Len(x) = h + Len(a) /\ Len(y) = h + Len(b)
      /\ \A i \in 1..h : x[i] = p[i] /\ y[i] = p[i]
      /\ \A i \in 1..Len(a) : x[h + i] = a[i]
      /\ \A i \in 1..Len(b) : y[h + i] = b[i]
  <2>1. Joins(x, p, a) /\ Joins(y, p, b)  BY <1>1, <1>2, AddJoins, Zenon
  <2>2. Len(p) \in Nat /\ Len(a) \in Nat /\ Len(b) \in Nat  OBVIOUS
  <2> QED  BY <1>3, <2>1, <2>2, Zenon DEF Joins
<1>5. PICK m : m = Shorter(a, b)  OBVIOUS
<1>6. m \in Nat /\ m <= Len(a) /\ m <= Len(b) /\ Shorter(x, y) = h + m
  BY <1>4, <1>5 DEF Shorter
<1>7. \A i \in 1..m : x[h + i] = a[i] /\ y[h + i] = b[i]
  <2>1. \A i \in 1..m : i \in 1..Len(a) /\ i \in 1..Len(b)  BY <1>4, <1>6
  <2> QED  BY <1>4, <2>1, Zenon
<1>8. \A i \in 1..h : x[i] = y[i]
  BY <1>4
<1>9. PICK r : r = memcmp(a, b, m)  OBVIOUS
<1>10. memcmp(x, y, Shorter(x, y)) = r
  <2>1. Prefixed(x, y, a, b, h, m)
    BY <1>4, <1>6, <1>7, <1>8, Zenon DEF Prefixed
  <2>2. memcmp(x, y, h + m) = memcmp(a, b, m)
    BY <2>1, PrefixComparesAlike
  <2> QED  BY <1>6, <1>9, <2>2, Zenon
<1>11. memcmp(a, b, Shorter(a, b)) = r
  BY <1>5, <1>9
<1>12. Len(x) > Len(y) <=> Len(a) > Len(b)
  BY <1>4
<1>13. Len(x) < Len(y) <=> Len(a) < Len(b)
  BY <1>4
<1>14. Len(a) > Len(b) => x[Len(y) + 1] = a[Len(b) + 1]
  <2> SUFFICES ASSUME Len(a) > Len(b) PROVE x[Len(y) + 1] = a[Len(b) + 1]  OBVIOUS
  <2>1. Len(b) + 1 \in 1..Len(a) /\ Len(y) + 1 = h + (Len(b) + 1)  BY <1>4
  <2> QED  BY <1>4, <2>1
<1>15. Len(a) < Len(b) => y[Len(x) + 1] = b[Len(a) + 1]
  <2> SUFFICES ASSUME Len(a) < Len(b) PROVE y[Len(x) + 1] = b[Len(a) + 1]  OBVIOUS
  <2>1. Len(a) + 1 \in 1..Len(b) /\ Len(x) + 1 = h + (Len(a) + 1)  BY <1>4
  <2> QED  BY <1>4, <2>1
<1>16. StringCmp(x, y) = StringCmp(a, b)
  BY <1>10, <1>11, <1>12, <1>13, <1>14, <1>15, Zenon DEF StringCmp
<1> QED  BY <1>1, <1>2, <1>16

\* + loses no character: strings that get the same beginning compare as before.
THEOREM AddKeepsOrder == StringsSpec => []PrefixKeepsOrder
<1>1. StringsType => PrefixKeepsOrder
  <2> SUFFICES ASSUME str \in Seq(Char), NEW a \in Literals, NEW b \in Literals
               PROVE  Sign(StringCmp(StringAdd(str, a), StringAdd(str, b))) = Sign(StringCmp(a, b))
    BY DEF StringsType, PrefixKeepsOrder
  <2>1. a \in Seq(Char) /\ b \in Seq(Char)  BY StringsAssumption
  <2>2. StringCmp(StringAdd(str, a), StringAdd(str, b)) = StringCmp(a, b)
    BY <2>1, PrefixIsNeutral
  <2> QED  BY <2>2, Zenon
<1> QED  BY <1>1, StringsStay, PTL

-----------------------------------------------------------------------------
(* Arrays.                                                                 *)

\* Every atPut makes the buffer exactly as long as the array, so the bounds
\* check against the length also keeps reads inside the buffer.
FullBuffer ==
  /\ length \in Int /\ bufferSize \in Int
  /\ OrZero(length) \in Nat
  /\ OrZero(bufferSize) = OrZero(length)
  /\ DOMAIN buffer = {i \in Int : 0 <= i /\ i < OrZero(length)}

\* The buffer is a function of the indices that holds what was stored.
HoldsContents ==
  /\ buffer = [i \in DOMAIN buffer |-> buffer[i]]
  /\ \A i \in DOMAIN buffer : buffer[i] \in Elements \cup {None}
  /\ contents \in [Indices -> Elements \cup {None}]
  /\ \A i \in Indices : contents[i] = IF i \in DOMAIN buffer THEN buffer[i] ELSE None

ArraysInv == FullBuffer /\ HoldsContents

LEMMA InitEstablishes == Init => ArraysInv
<1> SUFFICES ASSUME Init PROVE ArraysInv
  OBVIOUS
<1>1. OrZero(length) = 0 /\ OrZero(bufferSize) = 0 /\ length \in Int /\ bufferSize \in Int
  BY DEF Init, OrZero, Null
<1>2. DOMAIN buffer = {}
  BY DEF Init
<1>3. FullBuffer
  BY <1>1, <1>2 DEF FullBuffer
<1>4. HoldsContents
  BY <1>2 DEF HoldsContents, Init
<1> QED
  BY <1>3, <1>4 DEF ArraysInv

\* A put at a non-negative index, seen through the domain of the buffer.
LEMMA PutPreserves ==
  ASSUME ArraysInv, NEW i \in Indices, NEW v \in Elements, i >= 0, ArrayAtPut(i, v)
  PROVE  ArraysInv'
<1> USE ArraysAssumption
<1> DEFINE n == OrZero(length)
           b == IF i >= OrZero(bufferSize) THEN Grown(i) ELSE buffer
<1>1. i \in Int /\ n \in Nat /\ OrZero(bufferSize) = n
  BY DEF ArraysInv, FullBuffer, ArraysAssumption
<1>2. /\ buffer' = [b EXCEPT ![i] = v]
      /\ bufferSize' = IF i >= n THEN i + 1 ELSE bufferSize
      /\ length' = IF i >= n THEN i + 1 ELSE length
      /\ contents' = [contents EXCEPT ![i] = v]
  BY <1>1 DEF ArrayAtPut, SizeAfterPut, LengthAfterPut
<1>3. CASE i >= n
  <2>1. b = [k \in 0..i |-> IF k < n THEN buffer[k] ELSE None]
    BY <1>1, <1>3 DEF Grown
  <2>2. buffer' = [k \in 0..i |-> IF k = i THEN v ELSE IF k < n THEN buffer[k] ELSE None]
    BY <1>1, <1>2, <2>1
  <2> HIDE DEF b
  <2>3. length' = i + 1 /\ bufferSize' = i + 1
    BY <1>2, <1>3
  <2>4. OrZero(length)' = i + 1 /\ OrZero(bufferSize)' = i + 1
    BY <2>3, <1>1, <1>3 DEF OrZero, Null
  <2>5. FullBuffer'
    BY <2>2, <2>3, <2>4, <1>1, <1>3 DEF FullBuffer
  <2>6. \A k \in Indices : contents'[k] = IF k \in DOMAIN buffer' THEN buffer'[k] ELSE None
    <3> SUFFICES ASSUME NEW k \in Indices
                 PROVE  contents'[k] = IF k \in DOMAIN buffer' THEN buffer'[k] ELSE None
      OBVIOUS
    <3>1. k \in Int /\ DOMAIN buffer' = 0..i
      BY <2>2 DEF ArraysAssumption
    <3>2. contents'[k] = IF k = i THEN v ELSE contents[k]
      BY <1>2 DEF ArraysInv, HoldsContents
    <3>3. contents[k] = IF 0 <= k /\ k < n THEN buffer[k] ELSE None
      BY <3>1 DEF ArraysInv, HoldsContents, FullBuffer
    <3> QED
      BY <3>1, <3>2, <3>3, <2>2, <1>1, <1>3
  <2>7. \A k \in DOMAIN buffer' : buffer'[k] \in Elements \cup {None}
    <3> SUFFICES ASSUME NEW k \in 0..i PROVE buffer'[k] \in Elements \cup {None}
      BY <2>2
    <3>1. buffer'[k] = IF k = i THEN v ELSE IF k < n THEN buffer[k] ELSE None
      BY <2>2
    <3>2. k < n => k \in DOMAIN buffer
      BY <1>1 DEF ArraysInv, FullBuffer
    <3> QED
      BY <3>1, <3>2 DEF ArraysInv, HoldsContents
  <2>8. contents' \in [Indices -> Elements \cup {None}]
    BY <1>2 DEF ArraysInv, HoldsContents
  <2>9. buffer' = [k \in DOMAIN buffer' |-> buffer'[k]]
    BY <2>2
  <2> QED
    BY <2>5, <2>6, <2>7, <2>8, <2>9 DEF ArraysInv, HoldsContents
<1>4. CASE ~(i >= n)
  <2>1. b = buffer /\ i \in DOMAIN buffer
    BY <1>1, <1>4 DEF ArraysInv, FullBuffer
  <2>2. buffer' = [buffer EXCEPT ![i] = v]
    BY <1>2, <2>1
  <2> HIDE DEF b
  <2>3. UNCHANGED <<length, bufferSize>> /\ DOMAIN buffer' = DOMAIN buffer
    BY <1>2, <1>4, <2>2
  <2>4. FullBuffer'
    BY <2>3 DEF FullBuffer, OrZero, ArraysInv
  <2>5. HoldsContents'
    BY <1>2, <2>1, <2>2, <2>3 DEF HoldsContents, ArraysInv
  <2> QED
    BY <2>4, <2>5 DEF ArraysInv
<1> QED
  BY <1>3, <1>4

LEMMA StepPreserves == ArraysInv /\ [Next]_vars => ArraysInv'
<1> SUFFICES ASSUME ArraysInv, [Next]_vars PROVE ArraysInv'
  OBVIOUS
<1>1. CASE ArrayLength
  <2>1. OrZero(length)' = OrZero(length) /\ length' \in Int
    BY <1>1 DEF ArrayLength, OrZero, Null, ArraysInv, FullBuffer
  <2> QED
    BY <1>1, <2>1 DEF ArrayLength, ArraysInv, FullBuffer, HoldsContents, OrZero
<1>2. ASSUME NEW i \in Indices, ArrayAt(i) PROVE ArraysInv'
  BY <1>2 DEF ArrayAt, ArraysInv, FullBuffer, HoldsContents, OrZero
<1>3. ASSUME NEW i \in Indices, NEW v \in Elements, ArrayAtPut(i, v) PROVE ArraysInv'
  <2>1. CASE i >= 0
    BY <1>3, <2>1, PutPreserves
  <2>2. CASE i < 0
    BY <1>3, <2>2, ArraysAssumption DEF ArrayAtPut, ArraysInv, FullBuffer, HoldsContents, OrZero, ArraysAssumption
  <2> QED
    BY <2>1, <2>2, ArraysAssumption DEF ArraysAssumption
<1>4. CASE UNCHANGED vars
  BY <1>4 DEF vars, ArraysInv, FullBuffer, HoldsContents, OrZero
<1> QED
  BY <1>1, <1>2, <1>3, <1>4 DEF Next

\* For any indices and elements: at(i) stays inside the buffer and returns the
\* object that was stored last at i, and null where nothing was, however often atPut has replaced the
\* buffer (ArrayAt, ArrayAtPut).
THEOREM ArraysKeepElements == Spec => []ReadsLastWrite
<1>1. ArraysInv => ReadsLastWrite
  <2> SUFFICES ASSUME ArraysInv, NEW i \in Indices, i > 0 \/ (i = 0 /\ OrZero(length) > 0)
               PROVE Element(i) = contents[i]
    BY DEF ReadsLastWrite
  <2>1. i \in Int /\ OrZero(length) \in Nat
    BY ArraysAssumption DEF ArraysAssumption, ArraysInv, FullBuffer
  <2>2. Rejected(i) <=> i \notin DOMAIN buffer
    BY <2>1 DEF Rejected, ArraysInv, FullBuffer
  <2>3. contents[i] = IF i \in DOMAIN buffer THEN buffer[i] ELSE None
    BY DEF ArraysInv, HoldsContents
  <2> QED
    BY <2>2, <2>3 DEF Element
<1> QED
  BY <1>1, InitEstablishes, StepPreserves, PTL DEF Spec

\* The highest stored index is the last one of the array.
LastIsStored == length > 0 => length - 1 \in Stored

LEMMA LastStaysStored == ArraysInv /\ LastIsStored /\ [Next]_vars => LastIsStored'
<1> SUFFICES ASSUME ArraysInv, LastIsStored, [Next]_vars, length' > 0
             PROVE  length' - 1 \in Indices /\ contents'[length' - 1] # None
  BY DEF LastIsStored, Stored
<1>0. length \in Int /\ OrZero(length) \in Nat /\ contents \in [Indices -> Elements \cup {None}]
  BY DEF ArraysInv, FullBuffer, HoldsContents
<1>1. ASSUME length' = length, contents' = contents
      PROVE  length' - 1 \in Indices /\ contents'[length' - 1] # None
  BY <1>1 DEF LastIsStored, Stored
<1>2. CASE ArrayLength
  <2>1. length' = length /\ contents' = contents
    BY <1>0, <1>2 DEF ArrayLength, OrZero, Null
  <2> QED
    BY <2>1, <1>1
<1>3. ASSUME NEW i \in Indices, ArrayAt(i)
      PROVE  length' - 1 \in Indices /\ contents'[length' - 1] # None
  BY <1>1, <1>3 DEF ArrayAt
<1>4. ASSUME NEW i \in Indices, NEW v \in Elements, ArrayAtPut(i, v)
      PROVE  length' - 1 \in Indices /\ contents'[length' - 1] # None
  <2>1. i \in Int /\ v # None
    BY ArraysAssumption DEF ArraysAssumption
  <2>2. CASE i < 0
    BY <1>1, <1>4, <2>1, <2>2 DEF ArrayAtPut
  <2>3. CASE i >= 0
    <3>1. /\ contents' = [contents EXCEPT ![i] = v]
          /\ length' = IF i >= OrZero(length) THEN i + 1 ELSE length
      BY <1>4, <2>1, <2>3 DEF ArrayAtPut, LengthAfterPut
    <3>2. CASE i >= OrZero(length)
      <4>1. length' - 1 = i /\ contents'[i] = v
        BY <1>0, <2>1, <3>1, <3>2
      <4> QED
        BY <4>1, <2>1
    <3>3. CASE ~(i >= OrZero(length))
      <4>1. length' = length /\ length - 1 \in Indices /\ contents[length - 1] # None
        BY <3>1, <3>3 DEF LastIsStored, Stored
      <4> QED
        BY <4>1, <3>1, <2>1, <1>0
    <3> QED
      BY <3>2, <3>3
  <2> QED
    BY <2>1, <2>2, <2>3
<1>5. CASE UNCHANGED vars
  BY <1>1, <1>5 DEF vars
<1> QED
  BY <1>2, <1>3, <1>4, <1>5 DEF Next

\* For any indices and elements: the length is one more than the highest index
\* that was stored at, whatever order atPut met the indices in (ArrayAtPut).
THEOREM LengthIsExact == Spec => []LengthCoversStored
<1>1. Init => LastIsStored
  BY DEF Init, LastIsStored, Null
<1>2. ArraysInv /\ LastIsStored => LengthCoversStored
  <2> SUFFICES ASSUME ArraysInv, LastIsStored, NEW i \in Stored PROVE i < length
    BY DEF LengthCoversStored, LastIsStored
  <2>1. i \in Indices /\ contents[i] # None
    BY DEF Stored
  <2>2. i \in DOMAIN buffer
    BY <2>1 DEF ArraysInv, HoldsContents
  <2>3. i \in Int /\ 0 <= i /\ i < OrZero(length) /\ length \in Int
    BY <2>2 DEF ArraysInv, FullBuffer
  <2> QED
    BY <2>3 DEF OrZero, Null
<1> QED
  BY <1>1, <1>2, InitEstablishes, StepPreserves, LastStaysStored, PTL DEF Spec

\* The types of an array's state: the buffer is as long as bufferSize says.
THEOREM ArraysTypes == Spec => []TypeOK
<1>1. ArraysInv => TypeOK
  <2> SUFFICES ASSUME ArraysInv PROVE TypeOK
    OBVIOUS
  <2>1. DOMAIN buffer = 0..(OrZero(bufferSize) - 1)
    BY DEF ArraysInv, FullBuffer
  <2> QED
    BY <2>1 DEF ArraysInv, FullBuffer, HoldsContents, TypeOK
<1> QED
  BY <1>1, InitEstablishes, StepPreserves, PTL DEF Spec
=============================================================================
