------------------------------ MODULE RunArchive ------------------------------
(***************************************************************************)
(* The archive of the outputs of a run that the older judge keeps on disk, *)
(* how EjudgeArchiveReader finds the files in it, and what of a test       *)
(* EjudgeRun.get_test_full_protocol shows out of it, out of the report,    *)
(* and out of the files of the problem.                                    *)
(*                                                                         *)
(* A text is [chars, bytes], its lengths.                                  *)
(***************************************************************************)
EXTENDS Integers, Sequences, FiniteSets, FiniteSetsExt

CONSTANTS
  Files,       \* what an archive may keep: [name, width, size, text]; width is that of
               \* its name, size that of the compressed text
  Texts,       \* texts of the files of a problem
  Infos,       \* what the report says of a test, [output, checker, stderr, signal]
  MaxFiles,    \* bound: files of an archive
  None

\* Both headers have the size of the first.
HeaderSize == 16

NoText  == [chars |-> 0, bytes |-> 0]
Garbage == [chars |-> -1, bytes |-> -1]

\* SIGNAL_DESCRIPTION
Described == {1, 2, 3, 4, 6, 7, 8, 9, 11, 13, 14, 15}

\* More than this of a file is not shown.
Limit == 255

VARIABLES
  disk,      \* the archive, [end, at]: what begins at which byte
  written,   \* history: the files in the order they were written
  problem    \* the files of the problem, [input, corr], None when they are missing

vars == <<disk, written, problem>>

-----------------------------------------------------------------------------
(***************************************************************************)
(* External: the judge writes an archive.  Files begin at multiples of 16. *)
(***************************************************************************)

NoArchive == [end |-> 0, at |-> <<>>]
Exists    == disk.end > 0

Padded(n) == ((n + 15) \div 16) * 16

Create ==
  /\ ~Exists
  /\ disk' = [end |-> HeaderSize, at |-> <<>>]
  /\ UNCHANGED <<written, problem>>

Write(f) ==
  /\ Exists
  /\ Len(written) < MaxFiles
  /\ LET n == Padded(disk.end) IN
     disk' = [end |-> n + HeaderSize + f.width + f.size,
              at |-> [m \in {n} \cup DOMAIN disk.at |-> IF m = n THEN f ELSE disk.at[m]]]
  /\ written' = Append(written, f)
  /\ UNCHANGED problem

-----------------------------------------------------------------------------
(***************************************************************************)
(* EjudgeArchiveReader                                                     *)
(***************************************************************************)

\* Bug: the end of a file is rounded down.
AlignDown(n) == (n \div 16) * 16

\* (n + 15) & ~15
Align(n) == ((n + 15) \div 16) * 16

\* The headers from byte n on, each with the place of its data
Headers[n \in 0 .. Padded(disk.end) + HeaderSize] ==
  IF n >= disk.end THEN <<>>
  ELSE IF n \notin DOMAIN disk.at THEN <<None>>
  ELSE LET f == disk.at[n]
           p == n + HeaderSize + f.width
       IN  <<[name |-> f.name, size |-> f.size, place |-> p]>> \o Headers[Align(p + f.size)]

\* files_positions: of two files with one name the later
Place(name) ==
  LET hs == Headers[HeaderSize] IN
  Max({i \in DOMAIN hs : hs[i].name = name})

\* getfile: the data that begin at its place, None when there is no such file
GetFile(name) ==
  LET hs == Headers[HeaderSize] IN
  IF None \in Range(hs) THEN Garbage
  ELSE IF ~\E i \in DOMAIN hs : hs[i].name = name THEN None
  ELSE IF hs[Place(name)].size = 0 THEN NoText
  ELSE LET p == hs[Place(name)].place
           n == CHOOSE m \in DOMAIN disk.at : m + HeaderSize + disk.at[m].width = p
       IN  disk.at[n].text

-----------------------------------------------------------------------------
(***************************************************************************)
(* get_test_full and get_test_full_protocol                                *)
(***************************************************************************)

\* Bug: only a text that has no room for the dots is cut.
CutTooLate(size, t) ==
  IF size <= Limit + 4 THEN [chars |-> IF t.chars < Limit THEN t.chars ELSE Limit, big |-> FALSE]
  ELSE [chars |-> Limit, big |-> TRUE]

\* A text whose size is within the limit is shown whole, else its start and dots.
Cut(size, t) ==
  IF size <= Limit THEN [chars |-> t.chars, big |-> FALSE]
  ELSE [chars |-> IF t.chars < Limit THEN t.chars ELSE Limit, big |-> TRUE]

\* Only a run that has no archive has its outputs taken from the report, whole.
Output(name, reported) ==
  LET t == GetFile(name) IN
  IF ~Exists THEN [chars |-> reported.chars, big |-> FALSE] ELSE Cut(t.chars, t)

\* Nothing is shown when a file of the problem is missing, a file of the test is not
\* in the archive or not in ASCII, or a signal has no description.
Unreadable(name) ==
  LET t == GetFile(name) IN Exists /\ (t \in {Garbage, None} \/ t.chars # t.bytes)

Missing == None \in {problem.input, problem.corr}

Fails(info) ==
  \/ Missing
  \/ \E name \in {"o", "c", "e"} : Unreadable(name)
  \/ info.signal # None /\ info.signal \notin Described

\* The size of a file of the problem is in bytes, that of an output in characters.
\* Outputs are never looked for in the .zip beside the archive: all are set by then.
TestProtocol(info) ==
  [input |-> Cut(problem.input.bytes, problem.input),
   corr |-> Cut(problem.corr.bytes, problem.corr),
   output |-> Output("o", info.output),
   checker_output |-> Output("c", info.checker),
   error_output |-> Output("e", info.stderr)]

-----------------------------------------------------------------------------
Init ==
  /\ disk = NoArchive
  /\ written = <<>>
  /\ problem \in [input : Texts \cup {None}, corr : Texts]

Next ==
  \/ Create
  \/ \E f \in Files : Write(f)

Spec == Init /\ [][Next]_vars

-----------------------------------------------------------------------------
\* The last file written under a name, None when there is none
LastWritten(name) ==
  LET is == {i \in DOMAIN written : written[i].name = name} IN
  IF is = {} THEN None ELSE written[Max(is)]

\* The reader finds every file of an archive wherever the ones before it end, and of
\* two with one name the later: it never takes data or padding for a header.
FilesAreFound ==
  Exists =>
    \A name \in {f.name : f \in Files} :
      LET f == LastWritten(name) IN
      GetFile(name) = IF f = None THEN None ELSE IF f.size = 0 THEN NoText ELSE f.text

\* Nothing of a test is left out silently: a text that is shown in part is marked, and
\* never more than the limit is shown out of an archive or of a file of the problem.
CutsAreMarked ==
  \A info \in Infos :
    ~Fails(info) =>
      LET p == TestProtocol(info)
          faithful(shown, t) == (shown.chars < t.chars => shown.big) /\ shown.chars <= Limit
      IN
      /\ faithful(p.input, problem.input)
      /\ faithful(p.corr, problem.corr)
      /\ Exists => /\ faithful(p.output, GetFile("o"))
                   /\ faithful(p.checker_output, GetFile("c"))
                   /\ faithful(p.error_output, GetFile("e"))
=============================================================================
