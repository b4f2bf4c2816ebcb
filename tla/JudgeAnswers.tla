------------------------------ MODULE JudgeAnswers ------------------------------
(***************************************************************************)
(* What a judge answers, to a submission and when it is asked for the      *)
(* report of a run, and what the user is shown of it: the answers of       *)
(* ejudge_proxy.submit, the parsers of reports in XML and in BSON, the     *)
(* older parser of EjudgeRun, and unmarshal_protocol.                      *)
(*                                                                         *)
(* A value of a document is what its type makes of it: [type, n] with n    *)
(* None when it is no number.  None is an absent attribute or element.     *)
(***************************************************************************)
EXTENDS Integers, Sequences, FiniteSets, FiniteSetsExt

CONSTANTS
  Errors,      \* numbers of the errors a judge answers
  Tests,       \* what a judge may report of a test, [status, time, real_time, memory, files]
  Outputs,     \* what a compiler may print, None when there is no such element
  Packings,    \* how a judge packs texts in BSON: the encodings, outermost first
  Older,       \* protocols stored before the present format
  None,
  MaxTests     \* bound: tests of a run

InQueue     == 377
SubmitError == 520

\* submit_task: max_retries
MaxRetries == 5

\* ejudge_proxy.STATUS_REPR
Explained == {0, 120, 105, 82, 37, 83, 78, 113, 1000}

Names == [OK |-> "OK", WA |-> "wrong answer", ML |-> "memory limit", SE |-> "security",
          CF |-> "check failed", PE |-> "presentation", RT |-> "run time", TL |-> "time limit",
          WT |-> "wall time limit", SK |-> "skipped", UNKOWN |-> "unknown"]

VARIABLES
  run,      \* the run that is submitted, [status, number], and its submit_task,
            \* [pc, retries, message]
  answer,   \* history: the last answer to its submission
  report,   \* what the judge has to report, [tests, compiler]
  doc,      \* the document of "protocol" with its run_id
  fetched   \* history: load_protocol stored doc

vars == <<run, answer, report, doc, fetched>>

-----------------------------------------------------------------------------
(***************************************************************************)
(* The documents of a judge (external)                                     *)
(***************************************************************************)

Value(type, n) ==
  IF n = None THEN None ELSE [type |-> IF type = "xml" THEN "str" ELSE "int", n |-> n]

XmlFile(f) ==
  [text |-> IF f.big THEN None ELSE f.text, too_big |-> IF f.big THEN "yes" ELSE None]

BsonFile(f, packing) ==
  [data |-> IF f.big THEN None ELSE [text |-> f.text, packing |-> packing],
   base64 |-> "base64" \in Range(packing), bzip2 |-> "bzip2" \in Range(packing),
   too_big |-> f.big]

Document(r, type, packing) ==
  LET file(f) == IF f = None THEN None
                 ELSE IF type = "xml" THEN XmlFile(f) ELSE BsonFile(f, packing) IN
  [compiler |-> r.compiler,
   tests |-> [i \in DOMAIN r.tests |->
     LET t == r.tests[i] IN
     [num |-> Value(type, i), status |-> t.status, time |-> Value(type, t.time),
      real_time |-> Value(type, t.real_time), memory |-> Value(type, t.memory),
      files |-> [k \in DOMAIN t.files |-> file(t.files[k])]]]]

-----------------------------------------------------------------------------
(***************************************************************************)
(* The parsers of reports                                                  *)
(***************************************************************************)

\* _to_int
ToInt(v) == IF v = None \/ v.n = None THEN 0 ELSE v.n

StatusOf(t)   == IF t.status = None THEN "UNKOWN" ELSE t.status
StringOf(code) == IF code \in DOMAIN Names THEN Names[code] ELSE code

XmlText(f)   == IF f = None \/ f.text = None THEN "" ELSE f.text
XmlTooBig(f) == f # None /\ f.too_big \in {"1", "yes", "true"}

\* Undoes one encoding, or nothing when it is not the outer one
Unpack(d, flag, encoding) ==
  IF flag /\ d.packing # <<>> /\ Head(d.packing) = encoding
  THEN [d EXCEPT !.packing = Tail(@)] ELSE d

\* Bug: texts are decompressed before they are decoded.
BsonTextDecompressedFirst(f) ==
  IF f = None \/ f.data = None THEN ""
  ELSE LET d == Unpack(Unpack(f.data, f.bzip2, "bzip2"), f.base64, "base64")
       IN  IF d.packing = <<>> THEN d.text ELSE "packed"

BsonText(f) ==
  IF f = None \/ f.data = None THEN ""
  ELSE LET d == Unpack(Unpack(f.data, f.base64, "base64"), f.bzip2, "bzip2")
       IN  IF d.packing = <<>> THEN d.text ELSE "packed"

BsonTooBig(f) == f # None /\ f.too_big = TRUE

\* What both parsers keep of a test
Entry(type, t) ==
  LET text(f) == IF type = "xml" THEN XmlText(f) ELSE BsonText(f)
      big(f)  == IF type = "xml" THEN XmlTooBig(f) ELSE BsonTooBig(f)
  IN
  [status |-> StatusOf(t), string_status |-> StringOf(StatusOf(t)), time |-> ToInt(t.time),
   real_time |-> ToInt(t.real_time), max_memory_used |-> ToInt(t.memory),
   text |-> [k \in DOMAIN t.files |-> text(t.files[k])],
   big |-> [k \in {"input", "correct", "output"} |-> big(t.files[k])]]

\* Tests by their number as a text.  Those without one are left out; the last one of
\* a number stays.
Numbered(tests) ==
  LET key(i) == [tests[i].num EXCEPT !.type = "str"]
      with   == {i \in DOMAIN tests : tests[i].num # None}
  IN  [k \in {key(i) : i \in with} |-> tests[Max({i \in with : key(i) = k})]]

ParseXml(d, r) ==
  LET tests == Numbered(d.tests) IN
  [run_id |-> r, compiler_output |-> IF d.compiler = None THEN "" ELSE d.compiler,
   tests |-> [k \in DOMAIN tests |-> Entry("xml", tests[k])]]

ParseBson(d, r) ==
  LET tests == Numbered(d.tests) IN
  [run_id |-> r, compiler_output |-> d.compiler,
   tests |-> [k \in DOMAIN tests |-> Entry("bson", tests[k])]]

\* Bug: a time that is no number ends the parsing.
LegacyTestsStrict(d) ==
  [ok |-> \A t \in Range(d.tests) : t.time # None, tests |-> <<>>, maxtime |-> None]

\* EjudgeRun.parsetests, which fails at a status without a name.  Times that are no
\* numbers count as 0; maxtime stays None without a test.
LegacyTests(d) ==
  LET numbered == Numbered(d.tests)
      tests == [k \in DOMAIN numbered |-> LET t == numbered[k] IN
                 [status |-> t.status, string_status |-> StringOf(t.status),
                  time |-> ToInt(t.time), real_time |-> ToInt(t.real_time)]]
      times == UNION {{tests[k].time, tests[k].real_time} : k \in DOMAIN tests}
  IN
  IF \E t \in Range(d.tests) : t.status = None \/ t.status \notin DOMAIN Names
  THEN [ok |-> FALSE, tests |-> <<>>, maxtime |-> None]
  ELSE [ok |-> TRUE, tests |-> tests, maxtime |-> IF times = {} THEN None ELSE Max(times)]

\* One dictionary over another
Over(f, g) == [k \in DOMAIN f \cup DOMAIN g |-> IF k \in DOMAIN f THEN f[k] ELSE g[k]]

\* unmarshal_protocol.  Of the oldest documents, with tests under "t", only those
\* without a test can be shown: "fill" is not defined yet where it is used.
Unmarshal(p) ==
  LET renamed == {<<"a", "audit">>, <<"ejResp", "judge_resp">>, <<"c", "compiler_output">>}
      found == {n \in renamed : n[1] \in DOMAIN p}
      kept  == [k \in DOMAIN p \ {"t"} |-> p[k]]
      tests == IF "t" \in DOMAIN p \/ "tests" \notin DOMAIN p THEN [tests |-> <<>>] ELSE <<>>
  IN
  IF "t" \in DOMAIN p /\ p.t # <<>> THEN "error"
  ELSE Over([v |-> 2],
         Over([k \in {n[2] : n \in found} |-> p[(CHOOSE n \in found : n[2] = k)[1]]],
           Over(tests, kept)))

\* Of a run that has a protocol
Shown == Unmarshal(doc)

-----------------------------------------------------------------------------
(***************************************************************************)
(* submit_task with ejudge_proxy.submit                                    *)
(***************************************************************************)

Answer == {[kind |-> "ok", num |-> 0], [kind |-> "raises", num |-> 0]}
          \cup [kind : {"error"}, num : Errors]

\* Bug: only the number itself is looked up.
ReplyAsIs(num) ==
  [code |-> num, message |-> <<IF num \in Explained THEN "explained" ELSE "number", num>>]

\* The code and the message that submit makes of the number of an error
Reply(num) ==
  IF num \in Explained THEN [code |-> num, message |-> <<"explained", num>>]
  ELSE IF -num \in Explained THEN [code |-> -num, message |-> <<"explained", -num>>]
  ELSE [code |-> num, message |-> <<"number", num>>]

\* _build_submit_error_protocol
ErrorProtocol(message) ==
  [compiler_output |-> message, run_id |-> "run", ejResp |-> message]

\* The first half of a failure: _add_info_from_ejudge commits the row.
Fail(message) ==
  run' = [run EXCEPT !.pc = "erred", !.status = SubmitError, !.number = None, !.message = message]

\* No answer, or none that submit can read, is tried again. An error numbered 0 counts as
\* taken, without the number of a run.
Submit(a) ==
  /\ run.pc = "sending"
  /\ answer' = a
  /\ \/ /\ a.kind = "ok"
        /\ run' = [run EXCEPT !.pc = "sent", !.number = 1]
     \/ /\ a.kind = "error"
        /\ IF Reply(a.num).code # 0
             THEN Fail(Reply(a.num).message)
             ELSE run' = [run EXCEPT !.pc = "done"]
     \/ /\ a.kind = "raises"
        /\ IF run.retries < MaxRetries
             THEN run' = [run EXCEPT !.retries = @ + 1]
             ELSE Fail(<<"default", 0>>)
  /\ UNCHANGED <<report, doc, fetched>>

\* The second half: the protocol is stored.
StoreError ==
  /\ run.pc = "erred"
  /\ doc' = ErrorProtocol(run.message)
  /\ run' = [run EXCEPT !.pc = "done"]
  /\ UNCHANGED <<answer, report, fetched>>

\* The worker is killed, or the store fails.
Die ==
  /\ run.pc \in {"sending", "erred"}
  /\ run' = [run EXCEPT !.pc = "dead"]
  /\ UNCHANGED <<answer, report, doc, fetched>>

\* External: the judge tests the run.
JudgeTests(t) ==
  /\ run.pc = "sent" /\ ~fetched
  /\ Len(report.tests) < MaxTests
  /\ report' = [report EXCEPT !.tests = Append(@, t)]
  /\ UNCHANGED <<run, answer, doc, fetched>>

\* fetch_protocol of load_protocol.  A report of another type is left out.
Fetch(type, packing) ==
  /\ run.pc = "sent" /\ ~fetched
  /\ \/ type = "xml" /\ doc' = ParseXml(Document(report, "xml", <<>>), "run") /\ fetched' = TRUE
     \/ type = "bson" /\ doc' = ParseBson(Document(report, "bson", packing), "run") /\ fetched' = TRUE
     \/ type = "other" /\ UNCHANGED <<doc, fetched>>
  /\ run' = [run EXCEPT !.pc = "done"]
  /\ UNCHANGED <<answer, report>>

\* A run that was not sent yet, or one judged in the days of the oldest protocols
Init ==
  /\ run \in [pc : {"sending", "done"}, status : {InQueue}, number : {None}, retries : {0},
              message : {None}]
  /\ \/ run.pc = "sending" /\ doc = None
     \/ run.pc = "done" /\ doc \in Older
  /\ answer = None
  /\ report \in [tests : {<<>>}, compiler : Outputs]
  /\ fetched = FALSE

Next ==
  \/ \E a \in Answer : Submit(a)
  \/ StoreError
  \/ Die
  \/ \E t \in Tests : JudgeTests(t)
  \/ \E type \in {"xml", "bson", "other"}, packing \in Packings : Fetch(type, packing)

Spec == Init /\ [][Next]_vars

-----------------------------------------------------------------------------
\* What a report says of its tests
View(r) ==
  [num \in {Value("xml", i) : i \in DOMAIN r.tests} |->
    LET t == r.tests[num.n]
        value(n) == IF n = None THEN 0 ELSE n
        text(f) == IF f = None \/ f.big THEN "" ELSE f.text
        code == IF t.status = None THEN "UNKOWN" ELSE t.status
    IN [status |-> code, string_status |-> StringOf(code), time |-> value(t.time),
        real_time |-> value(t.real_time), max_memory_used |-> value(t.memory),
        text |-> [k \in DOMAIN t.files |-> text(t.files[k])],
        big |-> [k \in {"input", "correct", "output"} |->
                   t.files[k] # None /\ t.files[k].big]]]

\* A reader of the protocol sees what the judge reported, whichever format the judge
\* answered in and however it packed the texts.  Only a missing compiler output
\* differs: it is empty after XML and null after BSON.
ShownIsReported ==
  fetched =>
    /\ Shown.tests = View(report)
    /\ \/ Shown.compiler_output = report.compiler
       \/ report.compiler = None /\ Shown.compiler_output = ""

\* The user of a run that no judge took is shown why: the explanation of the error
\* the judge answered last, whichever sign its number has, its number when there is no
\* explanation, or that the submission failed.  The row is committed first, so until
\* the protocol is stored, and for good when the task dies in between, there is none
\* to be shown.
RefusalIsShown ==
  run.status = SubmitError =>
    LET known == {n \in Explained : n \in {answer.num, -answer.num}} IN
    \/ run.pc \in {"erred", "dead"} /\ doc = None
    \/ Shown.compiler_output =
         IF answer.kind = "raises" THEN <<"default", 0>>
         ELSE IF known # {} THEN <<"explained", Max(known)>>
         ELSE <<"number", answer.num>>

\* The older parser reads the same statuses and times out of a report in XML, as
\* long as every status has a name.
LegacyReadsTheSame ==
  LET old == LegacyTests(Document(report, "xml", <<>>))
      new == View(report)
  IN
  /\ old.ok <=> \A t \in Range(report.tests) : t.status \in DOMAIN Names
  /\ old.ok =>
       /\ DOMAIN old.tests = DOMAIN new
       /\ \A k \in DOMAIN new : /\ old.tests[k].status = new[k].status
                                /\ old.tests[k].string_status = new[k].string_status
                                /\ old.tests[k].time = new[k].time
                                /\ old.tests[k].real_time = new[k].real_time
                                /\ old.maxtime >= new[k].time
=============================================================================
