------------------------------ MODULE MCReaders ------------------------------
(***************************************************************************)
(* Instances of Readers for TLC.  Its parts share no state: of every       *)
(* behaviour one part is looked at, and the others stay at rest.           *)
(***************************************************************************)
EXTENDS Readers

VARIABLE which

-----------------------------------------------------------------------------
(* JudgeAnswers *)

Text(t) == [text |-> t, big |-> FALSE]
TooBig  == [text |-> "", big |-> TRUE]

Reported(status, time, memory, input, output) ==
  [status |-> status, time |-> time, real_time |-> time, memory |-> memory,
   files |-> [input |-> input, output |-> output, correct |-> Text("x"), stderr |-> None,
              checker |-> Text("")]]

MCErrors   == {120, -82, 0, 7, -7}
MCTests    == {Reported("OK", 15, 1024, Text("a"), Text("b")),
             Reported("PT", 3, None, TooBig, None),
             Reported("WA", None, 0, None, Text("c")),
             Reported(None, 1, 1, None, None)}
MCOutputs  == {None, "", "w"}
MCPackings == {<<>>, <<"base64">>, <<"bzip2">>, <<"base64", "bzip2">>}
MCOlder    == {[t |-> <<>>, c |-> "d"], [t |-> <<"x">>], [a |-> "b"]}

-----------------------------------------------------------------------------
(* ServeConfig *)

Plain(kind)   == [kind |-> kind, indent |-> 0, name |-> "", value |-> ""]
Section(name) == [Plain("header") EXCEPT !.name = name]
Word(name)    == [Plain("word") EXCEPT !.name = name]
Given(name, value) == [Plain("option") EXCEPT !.name = name, !.value = value]

MCNumber == [v \in {"1", "2", "3"} |-> IF v = "1" THEN 1 ELSE IF v = "2" THEN 2 ELSE 3]
MCAmount == [v \in {"1G", "3"} |-> IF v = "3" THEN [number |-> 3, unit |-> ""]
                               ELSE [number |-> 1, unit |-> "G"]]
MCLines  == {Plain("comment"), Plain("blank"), Plain("bogus"), Section("problem"),
           Section("language"), Section("default"), Word("abstract"), Word("advanced_layout"),
           Word("test_dir"),
           [Given("id", "3") EXCEPT !.indent = 1], Given("id", "2"), Given("short_name", "A"),
           Given("super", "A"), Given("time_limit", "2"), Given("test_dir", "d"),
           Given("test_dir", ""), Given("max_vm_size", "1G")}
Abstract   == <<Section("problem"), Word("abstract"), Given("short_name", "A")>>
MCBeginnings == {<<>>,
               Abstract \o <<Given("time_limit", "2")>>,
               Abstract \o <<Given("test_dir", "d"), Section("problem"), Given("super", "A"),
                             Given("time_limit_millis", "1")>>,
               Abstract \o <<Given("test_dir", "d"), Section("problem"), Given("super", "A"),
                             Given("test_dir", "")>>,
               <<Section("problem"), Given("id", "2"), Given("short_name", "B"), Section("problem")>>}

-----------------------------------------------------------------------------
(* RunArchive *)

Ascii(n) == [chars |-> n, bytes |-> n]
InFile(name, width, size, text) == [name |-> name, width |-> width, size |-> size, text |-> text]

MCFiles == {InFile("o", 9, 5, Ascii(7)), InFile("o", 9, 100, Ascii(255)),
          InFile("c", 7, 9, Ascii(256)), InFile("c", 9, 0, Ascii(0)),
          InFile("e", 16, 32, Ascii(3)), InFile("e", 9, 20, [chars |-> 5, bytes |-> 9])}
MCTexts == {Ascii(0), Ascii(255), Ascii(256), [chars |-> 200, bytes |-> 300]}
MCInfos == {[output |-> Ascii(1), checker |-> Ascii(300), stderr |-> Ascii(0), signal |-> s] :
            s \in {None, 5, 9}}

-----------------------------------------------------------------------------
(* MonitorQueries *)

Listing(p, rank, hidden) == [problem |-> p, rank |-> rank, hidden |-> hidden]

\* Two statements, a monitor of both, and a book
MCContests == [c \in {10, 11} |->
  IF c = 10 THEN {Listing(1, 1, FALSE), Listing(2, 3, FALSE), Listing(3, 2, TRUE)}
  ELSE {Listing(2, 1, FALSE)}]
MCModules == [m \in 1 .. 4 |->
  [kind |-> <<"statement", "monitor", "book", "statement">>[m],
   contests |-> <<<<10>>, <<11, 10>>, <<10>>, <<11>>>>[m]]]
MCGroups   == [g \in {5} |-> <<7, 8>>]
MCDigits    == [u \in {7, 8} |-> 1]
MCStatuses == {0}
MCArriving == {[problem |-> 1, user |-> 7, time |-> 1, context |-> 10, source |-> 1, visible |-> TRUE],
             [problem |-> 2, user |-> 7, time |-> 3, context |-> 11, source |-> 2, visible |-> FALSE],
             [problem |-> 2, user |-> 8, time |-> 4, context |-> 11, source |-> 2, visible |-> TRUE]}

OfContests(modules, method, group, users, after, before, hidden) ==
  [view |-> "contests", modules |-> modules, method |-> method, group_id |-> group,
   user_ids |-> users, time_after |-> after, time_before |-> before,
   context_source |-> None, show_hidden |-> hidden]
OfProblems(user_id, uid, problem_id, pid, context, origin, hidden) ==
  [view |-> "problems", user_id |-> user_id, uid |-> uid, problem_id |-> problem_id,
   pid |-> pid, time_after |-> None, time_before |-> None, context_id |-> context,
   context_source |-> origin, show_hidden |-> hidden]

MCRequests ==
  {OfContests(<<1, 2, 9>>, "get", 5, None, None, None, FALSE),
   OfContests(<<4, 3>>, "get", 0, None, 2, 4, FALSE),
   OfContests(<<4, 1>>, "post", None, <<8>>, None, 4, TRUE),
   OfProblems(None, None, <<2, 1>>, None, None, None, None),
   OfProblems(<<>>, <<7>>, None, <<1>>, 10, None, FALSE),
   OfProblems(None, None, None, None, None, None, None),
   OfProblems(<<8>>, None, <<2>>, None, None, 2, None),
   OfProblems(<<7, 8>>, None, <<2>>, None, None, None, None)}

-----------------------------------------------------------------------------
(* ShownTexts *)

\* The codes of four letters: for UTF-8, the one of I ends in the byte that CP1251
\* leaves undefined, and in the other two that of yo continues a letter in UTF-8.
MCCode == [e \in {"utf-8", "cp1251", "koi8-r"} |->
  [c \in {"a", "ya", "I", "yo"} |->
    CASE c = "a" -> <<97>>
      [] c = "ya" -> IF e = "utf-8" THEN <<209, 143>> ELSE IF e = "cp1251" THEN <<255>> ELSE <<209>>
      [] c = "I" -> IF e = "utf-8" THEN <<208, 152>> ELSE IF e = "cp1251" THEN <<200>> ELSE <<233>>
      [] c = "yo" -> IF e = "utf-8" THEN <<209, 145>> ELSE IF e = "cp1251" THEN <<184>> ELSE <<163>>]]

In(encoding, letters) == [encoding |-> encoding, letters |-> letters]
MCWritten == {In("utf-8", <<>>), In("utf-8", <<"ya", "I", "yo", "a", "ya">>),
            In("utf-8", <<"a", "a", "ya", "a">>), In("koi8-r", <<"a", "a", "ya", "a">>),
            In("koi8-r", <<"a", "ya">>), In("cp1251", <<"I", "ya", "a">>),
            In("cp1251", <<"I", "yo">>), In("koi8-r", <<"ya", "yo", "yo", "a", "I">>)}

Sample(text) == [input |-> text, correct |-> text]
Earlier == [t \in {"1", "3"} |-> Sample([text |-> <<"a">>, name |-> None])]
MCRows == {[sample_tests |-> <<>>, sample_tests_json |-> Earlier],
         [sample_tests |-> <<"1">>, sample_tests_json |-> Unparsable],
         [sample_tests |-> <<"1", "2">>, sample_tests_json |-> Earlier],
         [sample_tests |-> <<"2", "x">>, sample_tests_json |-> None]}
MCSettings == {None, [test_pat |-> "%d", corr_pat |-> "%d.a"], [test_pat |-> "%d", corr_pat |-> None]}

-----------------------------------------------------------------------------
Parts == {"answers", "config", "archive", "monitors", "texts"}

MCInit ==
  /\ Init
  /\ which \in Parts
  /\ which # "answers" => run.pc = "sending" /\ report.compiler = None
  /\ which # "config" => config = Config!Empty
  /\ which # "archive" => problem = [input |-> Ascii(0), corr |-> Ascii(0)]
  /\ which # "texts" => conf = None /\ row.sample_tests = <<>>

MCNext ==
  /\ UNCHANGED which
  /\ \/ which = "answers" /\ Answers!Next /\ UNCHANGED <<file, archive, monitors, texts>>
     \/ which = "config" /\ Config!Next /\ UNCHANGED <<answers, archive, monitors, texts>>
     \/ which = "archive" /\ Archive!Next /\ UNCHANGED <<answers, file, monitors, texts>>
     \/ which = "monitors" /\ Monitors!Next /\ UNCHANGED <<answers, file, archive, texts>>
     \/ which = "texts" /\ Samples!Next /\ UNCHANGED <<answers, file, archive, monitors>>

MCSpec == MCInit /\ [][MCNext]_<<which, vars>>
=============================================================================
