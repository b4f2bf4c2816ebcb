------------------------------- MODULE Readers -------------------------------
(***************************************************************************)
(* Five parts of the system side by side: what a judge answers, how a      *)
(* contest's configuration and an archive of outputs are read, what the    *)
(* monitor views ask for, and the texts that are shown.  They share no     *)
(* state.                                                                  *)
(***************************************************************************)
EXTENDS Integers, Sequences, FiniteSets

CONSTANTS
  None, Unparsable,
  \* JudgeAnswers
  Errors, Tests, Outputs, Packings, Older, MaxTests,
  \* ServeConfig; Number is ShownTexts', too
  Lines, Number, Amount, Beginnings, MaxLines,
  \* RunArchive
  Files, Texts, Infos, MaxFiles,
  \* MonitorQueries
  Modules, Contests, Groups, Arriving, Statuses, Requests, Digits, MaxKeyLen, MaxRuns, MaxAsked,
  \* ShownTexts
  Code, Written, Rows, Settings, Size, MaxEdits

VARIABLES
  run, answer, report, doc, fetched,
  config, count,
  disk, written, problem,
  runs, store, metas, shown, asked,
  files, conf, row, source, request, seen, edits

Answers  == INSTANCE JudgeAnswers
Config   == INSTANCE ServeConfig
Archive  == INSTANCE RunArchive
Monitors == INSTANCE MonitorQueries
Samples  == INSTANCE ShownTexts

answers  == <<run, answer, report, doc, fetched>>
file     == <<config, count>>
archive  == <<disk, written, problem>>
monitors == <<runs, store, metas, shown, asked>>
texts    == <<files, conf, row, source, request, seen, edits>>

vars == <<answers, file, archive, monitors, texts>>

\* What is absent is nothing of what may be there.
ASSUME NoneAssumption ==
  /\ None \notin STRING
  /\ None \notin DOMAIN Answers!Names \cup {"1", "yes", "true"}
  /\ None \notin Int
  /\ None \notin [type : {"str", "int"}, n : Int]
  /\ None \notin [text : STRING \cup {None}, too_big : {"yes", None}]
  /\ None \notin [text : STRING, packing : Packings]
  /\ None \notin [data : [text : STRING, packing : Packings] \cup {None},
                   base64 : BOOLEAN, bzip2 : BOOLEAN, too_big : BOOLEAN]

ASSUME AnswersAssumption ==
  /\ Errors \subseteq Int
  /\ Packings \subseteq {<<>>, <<"base64">>, <<"bzip2">>, <<"base64", "bzip2">>}
  /\ \A t \in Tests :
       /\ t.status \in STRING \cup {None}
       /\ {t.time, t.real_time, t.memory} \subseteq Int \cup {None}
       /\ {"input", "correct", "output"} \subseteq DOMAIN t.files
       /\ \A k \in DOMAIN t.files :
            t.files[k] # None => t.files[k].text \in STRING /\ t.files[k].big \in BOOLEAN

\* A character of a text takes a byte or more.
ASSUME ArchiveAssumption ==
  /\ None \notin Files
  /\ None \notin [name : {f.name : f \in Files}, size : Nat, place : Nat]
  /\ \A f \in Files : /\ f.width \in Nat /\ f.size \in Nat
                      /\ f.text.chars \in Nat /\ f.text.bytes \in Nat
  /\ \A t \in Texts : t.chars \in Nat /\ t.bytes \in Nat /\ t.chars <= t.bytes

\* A file is a sequence of lines, and a line is made of texts.  No header is that of the
\* section the parser keeps for defaults.  An option without a value is none with values
\* (the empty text is named because the provers do not find it in STRING).
ASSUME ConfigAssumption ==
  LET line == [kind : STRING, indent : Nat, name : STRING, value : STRING] IN
  /\ Lines \subseteq line
  /\ \A lines \in Beginnings : lines \in Seq(line)
  /\ \A l \in Lines \cup UNION {{lines[i] : i \in DOMAIN lines} : lines \in Beginnings} :
       l.kind = "header" => l.name # "DEFAULT"
  /\ None \notin Seq(STRING \cup {""})

\* A contest keeps its problems by their ranks, each problem once.
ASSUME MonitorsAssumption ==
  /\ \A c \in DOMAIN Contests :
       /\ IsFiniteSet(Contests[c])
       /\ \A p, q \in Contests[c] :
            p.rank \in Int /\ (p.rank = q.rank \/ p.problem = q.problem => p = q)
  /\ \A m \in DOMAIN Modules :
       Modules[m].kind \in {"statement", "monitor"} => Modules[m].contests \in Seq(DOMAIN Contests)
  /\ \A r \in Requests :
       r.view = "contests" => r.modules \in Seq({r.modules[i] : i \in DOMAIN r.modules})

\* What the encodings are: the first byte of a letter in UTF-8 says how many follow, and
\* what they may be; in the others a letter is a byte.  ASCII is the same in all.
ASSUME CodeAssumption ==
  /\ {"utf-8", "cp1251", "koi8-r"} \subseteq DOMAIN Code
  /\ \A e \in DOMAIN Code : \A c \in DOMAIN Code[e] :
       /\ Code[e][c] \in Seq(0 .. 255) /\ Code[e][c] # <<>>
       /\ \A d \in DOMAIN Code[e] : Code[e][c] = Code[e][d] => c = d
       /\ e = "utf-8" => /\ Len(Code[e][c]) = Samples!Width(Code[e][c][1])
                         /\ \A k \in 2 .. Len(Code[e][c]) : Code[e][c][k] \in Samples!Later(Code[e][c][1], k - 1)
       /\ e \in {"cp1251", "koi8-r"} =>
            /\ Len(Code[e][c]) = 1
            /\ Code[e][c][1] < 128 => c \in DOMAIN Code["utf-8"] /\ Code["utf-8"][c] = Code[e][c]
       /\ e = "cp1251" => Code[e][c] # <<152>>
  /\ \A t \in Written : t.encoding \in DOMAIN Code /\ t.letters \in Seq(DOMAIN Code[t.encoding])
  /\ Size \in Nat \ {0}

ASSUME SamplesAssumption == \A r \in Rows : r.sample_tests \in Seq(STRING)

-----------------------------------------------------------------------------
Init == Answers!Init /\ Config!Init /\ Archive!Init /\ Monitors!Init /\ Samples!Init

Next ==
  \/ Answers!Next /\ UNCHANGED <<file, archive, monitors, texts>>
  \/ Config!Next /\ UNCHANGED <<answers, archive, monitors, texts>>
  \/ Archive!Next /\ UNCHANGED <<answers, file, monitors, texts>>
  \/ Monitors!Next /\ UNCHANGED <<answers, file, archive, texts>>
  \/ Samples!Next /\ UNCHANGED <<answers, file, archive, monitors>>

Spec == Init /\ [][Next]_vars

-----------------------------------------------------------------------------
\* The tests shown are those the judge reported (the protocol parsers).
ShownIsReported    == Answers!ShownIsReported
\* A run that no judge took shows why (ejudge_proxy.submit).
RefusalIsShown     == Answers!RefusalIsShown
\* The older parser agrees with the present one (EjudgeRun.parsetests).
LegacyReadsTheSame == Answers!LegacyReadsTheSame
\* A configuration that was printed reads as before (printconf).
PrintReadsBack     == Config!PrintReadsBack
\* Every problem is found under its id (initProblem).
ProblemsAreFound   == Config!ProblemsAreFound
\* Inheriting an option is like having it (EjudgeProblemCfg).
InheritedIsOwn     == Config!InheritedIsOwn
\* Every file of an archive is found (EjudgeArchiveReader).
FilesAreFound      == Archive!FilesAreFound
\* What is shown in part is marked (get_test_full_protocol).
CutsAreMarked      == Archive!CutsAreMarked
\* A cached table is what its key stands for now (get_runs, Cacher).
StoredIsFresh      == Monitors!StoredIsFresh
\* A monitor has a table for each problem shown (the contest view).
ContestsAreWhole   == Monitors!ContestsAreWhole
\* A file is shown as far as it is as it was written (read_file_unknown_encoding).
FilesAreRead       == Samples!FilesAreRead
\* A source is shown as it was submitted (SourceApi).
SourceIsText       == Samples!SourceIsText
\* The samples on the page of a problem are those of the judge (ProblemApi).
PageIsOfItsTime    == Samples!PageIsOfItsTime
=============================================================================
