------------------------------ MODULE ShownTexts ------------------------------
(***************************************************************************)
(* Texts whose encoding nobody keeps: the sample tests on the page of a    *)
(* problem, which are read from the files of the judge for every request,  *)
(* one file after the other while these may change, and the source of a    *)
(* run.                                                                    *)
(*                                                                         *)
(* A text is written as [encoding, letters]; what is read is its bytes.    *)
(***************************************************************************)
EXTENDS Integers, Sequences, SequencesExt, Functions

CONSTANTS
  Code,       \* Code[encoding][letter]: the bytes of the letter
  Written,    \* texts that files and sources may be
  Number,     \* Number[t]: the number the name of a test stands for
  Rows,       \* problems: [sample_tests, sample_tests_json]
  Settings,   \* what serve.cfg says of the problem, [test_pat, corr_pat], or None
  Size,       \* characters of a file that are shown, at least one
  MaxEdits,   \* bound: changes of files, settings and rows
  Unparsable,     \* a stored text that is not JSON
  None

VARIABLES
  files,     \* the files of the judge, by pattern and number
  conf,      \* what serve.cfg says now
  row,       \* the problem in the database
  source,    \* the source of a run, None when it is lost
  request,   \* one request to the page, [pc, problem, left, input, json]: the row it has,
             \* the tests it has to read, what it read of one, and what it will show
  seen,      \* history: files and settings there were since it began
  edits      \* for the bound

vars == <<files, conf, row, source, request, seen, edits>>

-----------------------------------------------------------------------------
(***************************************************************************)
(* Decoding.  A letter outside the instance is "?".                        *)
(***************************************************************************)

Bytes(t) == FlattenSeq([i \in DOMAIN t.letters |-> Code[t.encoding][t.letters[i]]])

Upto(s, n) == SubSeq(s, 1, IF n < Len(s) THEN n ELSE Len(s))

LetterOf(encoding, bytes) ==
  IF \E c \in DOMAIN Code[encoding] : Code[encoding][c] = bytes
  THEN CHOOSE c \in DOMAIN Code[encoding] : Code[encoding][c] = bytes
  ELSE "?"

OneByte(encoding, bytes) == [i \in DOMAIN bytes |-> LetterOf(encoding, <<bytes[i]>>)]

\* How many bytes the letter has that begins with this one, 0 when none does
Width(b) == IF b < 128 THEN 1 ELSE IF b \in 194 .. 223 THEN 2
            ELSE IF b \in 224 .. 239 THEN 3 ELSE IF b \in 240 .. 244 THEN 4 ELSE 0

\* The bytes that may come k places after it: no letter is written longer than it must be,
\* is half of a pair, or is beyond the last
Later(b, k) ==
  {x \in 128 .. 191 : \/ k # 1
                     \/ /\ b = 224 => x >= 160
                        /\ b = 237 => x < 160
                        /\ b = 240 => x >= 144
                        /\ b = 244 => x < 144}

\* UTF-8: the letters, whether there is an error, and whether the last is incomplete
Utf8(bytes) ==
  LET n == Len(bytes)
      from[i \in 1 .. n + 1] ==
        IF i > n THEN [letters |-> <<>>, bad |-> FALSE, open |-> FALSE]
        ELSE LET next == i + Width(bytes[i]) IN
          IF \/ Width(bytes[i]) = 0
             \/ \E j \in i + 1 .. next - 1 : j <= n /\ bytes[j] \notin Later(bytes[i], j - i)
          THEN [letters |-> <<>>, bad |-> TRUE, open |-> FALSE]
          ELSE IF next > n + 1 THEN [letters |-> <<>>, bad |-> FALSE, open |-> TRUE]
          ELSE [from[next] EXCEPT !.letters = <<LetterOf("utf-8", SubSeq(bytes, i, next - 1))>> \o @]
  IN  from[1]

\* Bug: the limit counts the bytes that are read.
ReadBytes(bytes) ==
  LET read == Utf8(Upto(bytes, Size)) IN
  IF read.bad THEN OneByte("koi8-r", Upto(bytes, Size)) ELSE read.letters

\* read_file_unknown_encoding: as many bytes at a time until there are enough
\* characters; what remains of a letter at the end of the file is dropped.  Bytes
\* that are not UTF-8 are seen only as far as it was read.
Read(bytes) ==
  LET enough[n \in 0 .. Len(bytes) + Size] ==
        LET read == Utf8(Upto(bytes, n)) IN
        IF n >= Len(bytes) \/ read.bad \/ Len(read.letters) >= Size THEN read
        ELSE enough[n + Size]
  IN  IF enough[Size].bad THEN OneByte("koi8-r", Upto(bytes, Size))
      ELSE Upto(enough[Size].letters, Size)

\* Run.source, with nothing for one that is lost
Blob == IF source = None THEN <<>> ELSE Bytes(source)

\* Bug: most sources are in CP1251.
SourceCp1251First(bytes) ==
  IF 152 \notin Range(bytes) THEN OneByte("cp1251", bytes)
  ELSE IF ~Utf8(bytes).bad THEN Utf8(bytes).letters
  ELSE OneByte("koi8-r", bytes)

\* SourceApi.get: UTF-8, else CP1251, which leaves one byte undefined, else KOI8-R
SourceShown(bytes) ==
  IF ~Utf8(bytes).bad /\ ~Utf8(bytes).open THEN Utf8(bytes).letters
  ELSE IF 152 \notin Range(bytes) THEN OneByte("cp1251", bytes)
  ELSE OneByte("koi8-r", bytes)

-----------------------------------------------------------------------------
(***************************************************************************)
(* ProblemApi.get                                                          *)
(***************************************************************************)

\* get_test, get_corr: what is shown of the file of a test under a pattern, its name
\* when it is not there
FileShown(fs, pattern, test) ==
  LET path == <<pattern, Number[test]>> IN
  IF path \in DOMAIN fs THEN [text |-> Read(Bytes(fs[path])), name |-> None]
  ELSE [text |-> <<>>, name |-> path]

\* There is no such contest or problem, the problem has no pattern, or the name of
\* the test is not a number.
CannotRead(pattern, test) ==
  conf = None \/ conf[pattern] = None \/ test \notin DOMAIN Number

\* JsonType: what cannot be parsed counts as nothing.
Stored(r) == IF r.sample_tests_json \in {None, Unparsable} THEN <<>> ELSE r.sample_tests_json

\* Bug: tests that are stored are not read again.
ToReadNew(r) == SelectSeq(r.sample_tests, LAMBDA t : t \notin DOMAIN Stored(r))

\* generateSamplesJson(force_update=True)
ToRead(r) == r.sample_tests

\* A dictionary with one item set
With(f, x, e) == [y \in {x} \cup DOMAIN f |-> IF y = x THEN e ELSE f[y]]

Idle == [pc |-> "idle", problem |-> None, left |-> <<>>, input |-> None, json |-> None]

\* The row is read once.  A problem without samples is shown without them.
Begin ==
  /\ request.pc \in {"idle", "shown", "failed"}
  /\ request' = IF row.sample_tests = <<>>
                THEN [Idle EXCEPT !.pc = "shown", !.problem = row]
                ELSE [pc |-> IF ToRead(row) = <<>> THEN "shown" ELSE "input", problem |-> row,
                      left |-> ToRead(row), input |-> None, json |-> Stored(row)]
  /\ seen' = {<<files, conf>>}
  /\ UNCHANGED <<files, conf, row, source, edits>>

\* serve.cfg is read again for each file.
ReadInput ==
  /\ request.pc = "input"
  /\ request' = IF CannotRead("test_pat", Head(request.left)) THEN [request EXCEPT !.pc = "failed"]
                ELSE [request EXCEPT !.pc = "correct",
                        !.input = FileShown(files, conf.test_pat, Head(request.left))]
  /\ UNCHANGED <<files, conf, row, source, seen, edits>>

\* The row is not saved: nothing commits after this.
ReadCorrect ==
  /\ request.pc = "correct"
  /\ LET test == Head(request.left) IN
     request' =
       IF CannotRead("corr_pat", test) THEN [request EXCEPT !.pc = "failed"]
       ELSE [request EXCEPT
               !.pc = IF Len(request.left) = 1 THEN "shown" ELSE "input",
               !.left = Tail(@),
               !.json = With(@, test, [input |-> request.input,
                                       correct |-> FileShown(files, conf.corr_pat, test)])]
  /\ UNCHANGED <<files, conf, row, source, seen, edits>>

-----------------------------------------------------------------------------
(***************************************************************************)
(* External: the authors of the problem, the other sites that write to     *)
(* the database, and who submits the run                                   *)
(***************************************************************************)

Edit ==
  /\ edits < MaxEdits
  /\ edits' = edits + 1
  /\ seen' = seen \cup {<<files', conf'>>}
  /\ UNCHANGED request

WriteFile(path, t) ==
  /\ files' = With(files, path, t)
  /\ UNCHANGED <<conf, row, source>>
  /\ Edit

RemoveFile(path) ==
  /\ files' = Restrict(files, DOMAIN files \ {path})
  /\ UNCHANGED <<conf, row, source>>
  /\ Edit

Configure(c) ==
  /\ conf' = c
  /\ UNCHANGED <<files, row, source>>
  /\ Edit

SaveRow(r) ==
  /\ row' = r
  /\ UNCHANGED <<files, conf, source>>
  /\ Edit

SaveSource(t) ==
  /\ source' = t
  /\ UNCHANGED <<files, conf, row>>
  /\ Edit

Patterns == UNION {{c.test_pat, c.corr_pat} : c \in Settings \ {None}} \ {None}
Listed   == UNION {Range(r.sample_tests) : r \in Rows} \cap DOMAIN Number
Paths    == Patterns \X {Number[t] : t \in Listed}

Init ==
  /\ files = <<>>
  /\ conf \in Settings
  /\ row \in Rows
  /\ source = None
  /\ request = Idle
  /\ seen = {}
  /\ edits = 0

Next ==
  \/ Begin \/ ReadInput \/ ReadCorrect
  \/ \E path \in Paths : (\E t \in Written : WriteFile(path, t)) \/ RemoveFile(path)
  \/ \E c \in Settings : Configure(c)
  \/ \E r \in Rows : SaveRow(r)
  \/ \E t \in Written : SaveSource(t)

Spec == Init /\ [][Next]_vars

-----------------------------------------------------------------------------
\* What is shown of a file begins as its text does.  Of a text in KOI8-R this is only
\* so if it has no letter whose code continues one in UTF-8, and if its only letter
\* beyond ASCII is not its last: that one is lost.
FilesAreRead ==
  \A path \in DOMAIN files :
    LET t == files[path]
        beyond == {i \in DOMAIN t.letters : Code[t.encoding][t.letters[i]][1] >= 128}
        continues == \E i \in beyond : Code[t.encoding][t.letters[i]][1] < 192
    IN
    t.encoding = "utf-8" \/ (t.encoding = "koi8-r" /\ ~continues /\ beyond # {Len(t.letters)})
      => Read(Bytes(t)) = Upto(t.letters, Size)

\* A source in UTF-8 or CP1251 is shown as it was written, unless in CP1251 it has a
\* letter whose code continues one in UTF-8.
SourceIsText ==
  IF source = None THEN SourceShown(Blob) = <<>> ELSE
    LET continues == \E i \in DOMAIN source.letters :
                       Code[source.encoding][source.letters[i]][1] \in 128 .. 191
    IN
    source.encoding = "utf-8" \/ (source.encoding = "cp1251" /\ ~continues)
      => SourceShown(Blob) = source.letters

\* Each sample that is shown is from the files as they were at some time of the
\* request, and not from what an earlier one stored; its input and its answer may be of
\* different times.  What is stored of tests that are samples no more is shown too.
PageIsOfItsTime ==
  request.pc \in {"input", "shown"} /\ request.json # None =>
    LET listed == request.problem.sample_tests
        done   == Range(SubSeq(listed, 1, Len(listed) - Len(request.left)))
        ofItsTime(shown, pattern, t) ==
          \E now \in seen : now[2] # None /\ shown = FileShown(now[1], now[2][pattern], t)
    IN
    /\ DOMAIN request.json = done \cup DOMAIN Stored(request.problem)
    /\ \A t \in done : /\ ofItsTime(request.json[t].input, "test_pat", t)
                      /\ ofItsTime(request.json[t].correct, "corr_pat", t)
    /\ \A t \in DOMAIN request.json \ Range(listed) :
         request.json[t] = Stored(request.problem)[t]
=============================================================================
