--------------------------- MODULE Readers_proofs ---------------------------
(***************************************************************************)
(* Of the parts side by side in Readers, here: the protocol of a run shows *)
(* the tests the judge reported and why no judge took it, the older parser *)
(* reads the same of a report, the cached tables of the monitors are       *)
(* fresh, a problem inherits as if the settings were its own, the problems *)
(* of a contest are found, and they are the same after the configuration   *)
(* was printed and read again.                                             *)
(***************************************************************************)
EXTENDS Readers, WellFoundedInduction, FiniteSetTheorems, SequenceTheorems, TLAPS

(***************************************************************************)
(* The protocol of a run                                                   *)
(***************************************************************************)

\* A test of a report as the document of either format has it
DocTest(type, packing, i, t) ==
  LET sent(f) == IF f = None THEN None
                 ELSE IF type = "xml" THEN Answers!XmlFile(f) ELSE Answers!BsonFile(f, packing) IN
  [num |-> Answers!Value(type, i), status |-> t.status, time |-> Answers!Value(type, t.time),
   real_time |-> Answers!Value(type, t.real_time), memory |-> Answers!Value(type, t.memory),
   files |-> [k \in DOMAIN t.files |-> sent(t.files[k])]]

\* What a reader is to see of a test
SeenTest(t) ==
  LET value(n) == IF n = None THEN 0 ELSE n
      text(f) == IF f = None \/ f.big THEN "" ELSE f.text
      code == IF t.status = None THEN "UNKOWN" ELSE t.status
  IN [status |-> code, string_status |-> Answers!StringOf(code), time |-> value(t.time),
      real_time |-> value(t.real_time), max_memory_used |-> value(t.memory),
      text |-> [k \in DOMAIN t.files |-> text(t.files[k])],
      big |-> [k \in {"input", "correct", "output"} |->
                 t.files[k] # None /\ t.files[k].big]]

\* The key that the test i is stored under
NumberKey(i) == [type |-> "str", n |-> i]

\* A document has the tests of the report in their order.
LEMMA DocumentTests ==
  ASSUME NEW r, NEW type, NEW packing
  PROVE  Answers!Document(r, type, packing).tests =
           [i \in DOMAIN r.tests |-> DocTest(type, packing, i, r.tests[i])]
BY DEF Answers!Document, DocTest

\* A number is read as it was written, and an absent one as 0.
LEMMA ToIntValue ==
  ASSUME NEW type \in {"xml", "bson"}, NEW n \in Int \cup {None}
  PROVE  Answers!ToInt(Answers!Value(type, n)) = IF n = None THEN 0 ELSE n
BY NoneAssumption DEF Answers!ToInt, Answers!Value

\* A file of a report in XML is read as it was sent.
LEMMA XmlFileRead ==
  ASSUME NEW f, f # None => f.text \in STRING /\ f.big \in BOOLEAN
  PROVE  LET g == IF f = None THEN None ELSE Answers!XmlFile(f)
         IN  /\ Answers!XmlText(g) = IF f = None \/ f.big THEN "" ELSE f.text
             /\ Answers!XmlTooBig(g) = (f # None /\ f.big)
<1>1. CASE f = None
  BY <1>1 DEF Answers!XmlText, Answers!XmlTooBig
<1>2. CASE f # None /\ f.big
  <2>1. Answers!XmlFile(f) = [text |-> None, too_big |-> "yes"]
    BY <1>2 DEF Answers!XmlFile
  <2>2. Answers!XmlFile(f) # None
    <3>1. Answers!XmlFile(f) \in [text : STRING \cup {None}, too_big : {"yes", None}]
      BY <2>1
    <3> QED  BY <3>1, NoneAssumption
  <2> QED  BY <1>2, <2>1, <2>2 DEF Answers!XmlText, Answers!XmlTooBig
<1>3. CASE f # None /\ ~f.big
  <2>1. Answers!XmlFile(f) = [text |-> f.text, too_big |-> None]
    BY <1>3 DEF Answers!XmlFile
  <2>2. Answers!XmlFile(f) # None /\ f.text # None
    <3>1. Answers!XmlFile(f) \in [text : STRING \cup {None}, too_big : {"yes", None}]
      BY <1>3, <2>1
    <3> QED  BY <1>3, <3>1, NoneAssumption
  <2>3. None \notin {"1", "yes", "true"}
    BY NoneAssumption
  <2>4. Answers!XmlText(Answers!XmlFile(f)) = f.text
    <3> DEFINE g == Answers!XmlFile(f)
    <3>1. g # None /\ g.text = f.text /\ g.text # None
      BY <2>1, <2>2
    <3> HIDE DEF g
    <3>2. Answers!XmlText(g) = g.text
      BY <3>1 DEF Answers!XmlText
    <3> QED  BY <3>1, <3>2 DEF g
  <2>5. ~Answers!XmlTooBig(Answers!XmlFile(f))
    BY <2>1, <2>3 DEF Answers!XmlTooBig
  <2> QED  BY <1>3, <2>4, <2>5 DEF Answers!XmlTooBig
<1> QED  BY <1>1, <1>2, <1>3

\* Data that was packed in the known orders is unpacked.
LEMMA Unpacked ==
  ASSUME NEW text, NEW packing \in Packings
  PROVE  LET base64 == "base64" \in Answers!Range(packing)
             bzip2  == "bzip2" \in Answers!Range(packing)
             d == [text |-> text, packing |-> packing]
         IN  Answers!Unpack(Answers!Unpack(d, base64, "base64"), bzip2, "bzip2")
               = [text |-> text, packing |-> <<>>]
<1>1. packing = <<>> \/ packing = <<"base64">> \/ packing = <<"bzip2">> \/ packing = <<"base64", "bzip2">>
  BY AnswersAssumption
<1>2. /\ Answers!Range(<<>>) = {}
      /\ Answers!Range(<<"base64">>) = {"base64"}
      /\ Answers!Range(<<"bzip2">>) = {"bzip2"}
      /\ Answers!Range(<<"base64", "bzip2">>) = {"base64", "bzip2"}
  BY DEF Answers!Range
<1>3. CASE packing = <<>>
  BY <1>2, <1>3 DEF Answers!Unpack
<1>4. CASE packing = <<"base64">>
  BY <1>2, <1>4 DEF Answers!Unpack
<1>5. CASE packing = <<"bzip2">>
  BY <1>2, <1>5 DEF Answers!Unpack
<1>6. CASE packing = <<"base64", "bzip2">>
  BY <1>2, <1>6 DEF Answers!Unpack
<1> QED  BY <1>1, <1>3, <1>4, <1>5, <1>6

\* A file of a report in BSON is read as it was sent, however it is packed.
LEMMA BsonFileRead ==
  ASSUME NEW f, NEW packing \in Packings, f # None => f.text \in STRING /\ f.big \in BOOLEAN
  PROVE  LET g == IF f = None THEN None ELSE Answers!BsonFile(f, packing)
         IN  /\ Answers!BsonText(g) = IF f = None \/ f.big THEN "" ELSE f.text
             /\ Answers!BsonTooBig(g) = (f # None /\ f.big)
<1> DEFINE base64 == "base64" \in Answers!Range(packing)
           bzip2  == "bzip2" \in Answers!Range(packing)
           g == Answers!BsonFile(f, packing)
<1>1. CASE f = None
  BY <1>1 DEF Answers!BsonText, Answers!BsonTooBig
<1>2. CASE f # None
  <2>1. g = [data |-> IF f.big THEN None ELSE [text |-> f.text, packing |-> packing],
             base64 |-> base64, bzip2 |-> bzip2, too_big |-> f.big]
    BY DEF Answers!BsonFile
  <2>2. g # None
    <3>1. g.data \in [text : STRING, packing : Packings] \cup {None}
      <4>1. g.data = IF f.big THEN None ELSE [text |-> f.text, packing |-> packing]
        BY <2>1
      <4> QED  BY <1>2, <4>1
    <3>2. base64 \in BOOLEAN /\ bzip2 \in BOOLEAN /\ f.big \in BOOLEAN
      BY <1>2
    <3>3. g = [data |-> g.data, base64 |-> base64, bzip2 |-> bzip2, too_big |-> f.big]
      BY <2>1
    <3> HIDE DEF g, base64, bzip2
    <3>4. g \in [data : [text : STRING, packing : Packings] \cup {None},
                 base64 : BOOLEAN, bzip2 : BOOLEAN, too_big : BOOLEAN]
      BY <3>1, <3>2, <3>3
    <3> QED  BY <3>4, NoneAssumption
  <2>3. Answers!BsonTooBig(g) = f.big
    BY <1>2, <2>1, <2>2 DEF Answers!BsonTooBig
  <2>4. CASE f.big
    <3>1. g.data = None
      BY <2>1, <2>4
    <3> QED  BY <1>2, <2>3, <2>4, <3>1 DEF Answers!BsonText
  <2>5. CASE ~f.big
    <3> DEFINE d == [text |-> f.text, packing |-> packing]
    <3>1. g.data = d /\ g.base64 = base64 /\ g.bzip2 = bzip2
      BY <2>1, <2>5
    <3>2. g.data # None
      BY <1>2, <3>1, NoneAssumption
    <3>3. Answers!Unpack(Answers!Unpack(g.data, g.base64, "base64"), g.bzip2, "bzip2")
            = [text |-> f.text, packing |-> <<>>]
      BY <3>1, Unpacked
    <3>4. Answers!BsonText(g) = f.text
      <4> DEFINE e == Answers!Unpack(Answers!Unpack(g.data, g.base64, "base64"), g.bzip2, "bzip2")
      <4>1. e.packing = <<>> /\ e.text = f.text
        BY <3>3
      <4>2. Answers!BsonText(g) = IF e.packing = <<>> THEN e.text ELSE "packed"
        <5> HIDE DEF g
        <5> QED  BY <2>2, <3>2 DEF Answers!BsonText
      <4> HIDE DEF e
      <4> QED  BY <4>1, <4>2
    <3> QED  BY <1>2, <2>3, <2>5, <3>4
  <2> QED  BY <2>4, <2>5
<1> QED  BY <1>1, <1>2

\* An entry of the protocol is what a reader is to see of the test.
LEMMA EntrySeen ==
  ASSUME NEW type \in {"xml", "bson"}, NEW packing, type = "xml" \/ packing \in Packings,
         NEW i \in Nat, NEW t \in Tests
  PROVE  Answers!Entry(type, DocTest(type, packing, i, t)) = SeenTest(t)
<1> DEFINE d == DocTest(type, packing, i, t)
           sent(f) == IF f = None THEN None
                      ELSE IF type = "xml" THEN Answers!XmlFile(f) ELSE Answers!BsonFile(f, packing)
           text(f) == IF type = "xml" THEN Answers!XmlText(f) ELSE Answers!BsonText(f)
           big(f)  == IF type = "xml" THEN Answers!XmlTooBig(f) ELSE Answers!BsonTooBig(f)
<1>1. /\ d.status = t.status
      /\ d.time = Answers!Value(type, t.time)
      /\ d.real_time = Answers!Value(type, t.real_time)
      /\ d.memory = Answers!Value(type, t.memory)
      /\ d.files = [k \in DOMAIN t.files |-> sent(t.files[k])]
  BY DEF DocTest
<1> HIDE DEF d
<1>2. /\ {t.time, t.real_time, t.memory} \subseteq Int \cup {None}
      /\ {"input", "correct", "output"} \subseteq DOMAIN t.files
      /\ \A k \in DOMAIN t.files :
           t.files[k] # None => t.files[k].text \in STRING /\ t.files[k].big \in BOOLEAN
  BY AnswersAssumption
<1>3. /\ Answers!ToInt(d.time) = IF t.time = None THEN 0 ELSE t.time
      /\ Answers!ToInt(d.real_time) = IF t.real_time = None THEN 0 ELSE t.real_time
      /\ Answers!ToInt(d.memory) = IF t.memory = None THEN 0 ELSE t.memory
  BY <1>1, <1>2, ToIntValue, Zenon
<1>4. \A k \in DOMAIN t.files :
        /\ text(sent(t.files[k])) = IF t.files[k] = None \/ t.files[k].big THEN ""
                                    ELSE t.files[k].text
        /\ big(sent(t.files[k])) = (t.files[k] # None /\ t.files[k].big)
  <2> SUFFICES ASSUME NEW k \in DOMAIN t.files
               PROVE  /\ text(sent(t.files[k])) = IF t.files[k] = None \/ t.files[k].big THEN ""
                                    ELSE t.files[k].text
                      /\ big(sent(t.files[k])) = (t.files[k] # None /\ t.files[k].big)
    OBVIOUS
  <2> DEFINE f == t.files[k]
  <2>1. f # None => f.text \in STRING /\ f.big \in BOOLEAN
    BY <1>2
  <2> HIDE DEF f
  <2>2. /\ text(sent(f)) = IF f = None \/ f.big THEN "" ELSE f.text
        /\ big(sent(f)) = (f # None /\ f.big)
    <3>1. CASE type = "xml"
      <4>1. sent(f) = IF f = None THEN None ELSE Answers!XmlFile(f)
        BY <3>1
      <4> QED  BY <2>1, <3>1, <4>1, XmlFileRead
    <3>2. CASE type = "bson"
      <4>1. sent(f) = IF f = None THEN None ELSE Answers!BsonFile(f, packing)
        BY <3>2
      <4> QED  BY <2>1, <3>2, <4>1, BsonFileRead
    <3> QED  BY <3>1, <3>2
  <2> QED  BY <2>2 DEF f
<1>5. DOMAIN d.files = DOMAIN t.files /\ \A k \in DOMAIN t.files : d.files[k] = sent(t.files[k])
  BY <1>1
<1> HIDE DEF file, text, big
<1>6. [k \in DOMAIN d.files |-> text(d.files[k])]
        = [k \in DOMAIN t.files |-> IF t.files[k] = None \/ t.files[k].big THEN ""
                                    ELSE t.files[k].text]
  BY <1>4, <1>5
<1>7. [k \in {"input", "correct", "output"} |-> big(d.files[k])]
        = [k \in {"input", "correct", "output"} |-> t.files[k] # None /\ t.files[k].big]
  <2>1. \A k \in {"input", "correct", "output"} : k \in DOMAIN t.files
    BY <1>2
  <2> QED  BY <1>4, <1>5, <2>1
<1>8. Answers!StatusOf(d) = IF t.status = None THEN "UNKOWN" ELSE t.status
  BY <1>1 DEF Answers!StatusOf
<1>9. Answers!Entry(type, d) =
        [status |-> Answers!StatusOf(d), string_status |-> Answers!StringOf(Answers!StatusOf(d)),
         time |-> Answers!ToInt(d.time), real_time |-> Answers!ToInt(d.real_time),
         max_memory_used |-> Answers!ToInt(d.memory),
         text |-> [k \in DOMAIN d.files |-> text(d.files[k])],
         big |-> [k \in {"input", "correct", "output"} |-> big(d.files[k])]]
  BY DEF Answers!Entry, text, big
<1> QED  BY <1>3, <1>6, <1>7, <1>8, <1>9 DEF SeenTest, d

\* A report has its tests under their numbers.
LEMMA NumberedTests ==
  ASSUME NEW r, r.tests \in Seq(Tests), NEW type \in {"xml", "bson"}, NEW packing
  PROVE  LET n == Answers!Numbered(Answers!Document(r, type, packing).tests)
         IN  /\ DOMAIN n = {NumberKey(i) : i \in 1 .. Len(r.tests)}
             /\ \A i \in 1 .. Len(r.tests) : n[NumberKey(i)] = DocTest(type, packing, i, r.tests[i])
<1> DEFINE s == Answers!Document(r, type, packing).tests
           key(i) == [s[i].num EXCEPT !.type = "str"]
           with == {i \in DOMAIN s : s[i].num # None}
           N == 1 .. Len(r.tests)
           kind == IF type = "xml" THEN "str" ELSE "int"
<1>1. DOMAIN s = N /\ \A i \in N : s[i] = DocTest(type, packing, i, r.tests[i])
  <2>1. s = [i \in DOMAIN r.tests |-> DocTest(type, packing, i, r.tests[i])]
    BY DocumentTests
  <2>2. DOMAIN r.tests = N
    OBVIOUS
  <2> HIDE DEF s
  <2> QED  BY <2>1, <2>2
<1>2. \A i \in N : i \in Int /\ i # None
  BY NoneAssumption
<1>k. kind \in {"str", "int"}
  OBVIOUS
<1> HIDE DEF s, N
<1>3. ASSUME NEW i \in N
      PROVE  s[i].num = [type |-> kind, n |-> i]
  <2>1. s[i].num = Answers!Value(type, i)
    BY <1>1 DEF DocTest
  <2> QED  BY <1>2, <2>1 DEF Answers!Value
<1> HIDE DEF kind
<1>4. ASSUME NEW i \in N
      PROVE  key(i) = NumberKey(i)
  <2> DEFINE v == s[i].num
  <2>1. v = [type |-> kind, n |-> i]
    BY <1>3
  <2> HIDE DEF v
  <2>2. [v EXCEPT !.type = "str"] = NumberKey(i)
    BY <2>1 DEF NumberKey
  <2> QED  BY <2>2 DEF v
<1>5. ASSUME NEW i \in N
      PROVE  s[i].num # None
  <2>1. [type |-> kind, n |-> i] \in [type : {"str", "int"}, n : Int]
    BY <1>2, <1>k
  <2> QED  BY <1>3, <2>1, NoneAssumption
<1>6. with = N
  BY <1>1, <1>5
<1>7. \A i \in N : {j \in N : NumberKey(j) = NumberKey(i)} = {i}
  <2>1. \A i, j \in N : NumberKey(j) = NumberKey(i) => j = i
    BY DEF NumberKey
  <2> QED  BY <2>1
<1>8. \A i \in N : Answers!Max({i}) = i
  BY <1>2 DEF Answers!Max
<1>9. Answers!Numbered(s) =
        [k \in {key(i) : i \in with} |-> s[Answers!Max({i \in with : key(i) = k})]]
  BY DEF Answers!Numbered
<1>10. {key(i) : i \in with} = {NumberKey(i) : i \in N}
  BY <1>4, <1>6
<1>11. \A i \in N : {j \in with : key(j) = NumberKey(i)} = {i}
  BY <1>4, <1>6, <1>7
<1> HIDE DEF key, with
<1>12. \A i \in N : Answers!Numbered(s)[NumberKey(i)] = s[i]
  BY <1>8, <1>9, <1>10, <1>11
<1>13. DOMAIN Answers!Numbered(s) = {NumberKey(i) : i \in N}
  BY <1>9, <1>10
<1> QED  BY <1>1, <1>12, <1>13 DEF s, N

\* The tests a parser makes of a report are those the judge reported.
LEMMA ParsedTests ==
  ASSUME NEW r, r.tests \in Seq(Tests), NEW type \in {"xml", "bson"}, NEW packing,
         type = "xml" \/ packing \in Packings
  PROVE  LET n == Answers!Numbered(Answers!Document(r, type, packing).tests)
         IN  [k \in DOMAIN n |-> Answers!Entry(type, n[k])] = Answers!View(r)
<1> DEFINE n == Answers!Numbered(Answers!Document(r, type, packing).tests)
           N == 1 .. Len(r.tests)
<1>1. /\ DOMAIN n = {NumberKey(i) : i \in N}
      /\ \A i \in N : n[NumberKey(i)] = DocTest(type, packing, i, r.tests[i])
  BY NumberedTests
<1>2. \A i \in N : i \in Nat /\ r.tests[i] \in Tests
  OBVIOUS
<1>3. \A i \in N : Answers!Value("xml", i) = NumberKey(i)
  BY NoneAssumption DEF Answers!Value, NumberKey
<1>4. Answers!View(r) = [k \in {NumberKey(i) : i \in N} |-> SeenTest(r.tests[k.n])]
  <2>1. DOMAIN r.tests = N
    OBVIOUS
  <2>2. {Answers!Value("xml", i) : i \in DOMAIN r.tests} = {NumberKey(i) : i \in N}
    BY <1>3, <2>1
  <2>3. Answers!View(r) =
          [k \in {Answers!Value("xml", i) : i \in DOMAIN r.tests} |-> SeenTest(r.tests[k.n])]
    BY DEF Answers!View, SeenTest
  <2> QED  BY <2>2, <2>3
<1> HIDE DEF n, N
<1>5. ASSUME NEW i \in N
      PROVE  Answers!Entry(type, n[NumberKey(i)]) = SeenTest(r.tests[NumberKey(i).n])
  <2>1. NumberKey(i).n = i
    BY DEF NumberKey
  <2> QED  BY <1>1, <1>2, <2>1, EntrySeen
<1>6. [k \in DOMAIN n |-> Answers!Entry(type, n[k])] = Answers!View(r)
  BY <1>1, <1>4, <1>5
<1> QED  BY <1>6 DEF n

\* unmarshal_protocol leaves a document of the present format as it is.
LEMMA UnmarshalPresent ==
  ASSUME NEW p, "t" \notin DOMAIN p, "c" \notin DOMAIN p
  PROVE  /\ "tests" \in DOMAIN p => Answers!Unmarshal(p).tests = p.tests
         /\ "compiler_output" \in DOMAIN p => Answers!Unmarshal(p).compiler_output = p.compiler_output
<1> DEFINE renamed == {<<"a", "audit">>, <<"ejResp", "judge_resp">>, <<"c", "compiler_output">>}
           found == {n \in renamed : n[1] \in DOMAIN p}
           new   == {n[2] : n \in found}
           first == [k \in new |-> p[(CHOOSE n \in found : n[2] = k)[1]]]
           tests == IF "t" \in DOMAIN p \/ "tests" \notin DOMAIN p THEN [tests |-> <<>>] ELSE <<>>
           kept  == [k \in DOMAIN p \ {"t"} |-> p[k]]
           rest  == Answers!Over(tests, kept)
           more  == Answers!Over(first, rest)
<1>1. Answers!Unmarshal(p) = Answers!Over([v |-> 2], more)
  BY DEF Answers!Unmarshal
<1>2. \A n \in found : n[2] \in {"audit", "judge_resp"}
  OBVIOUS
<1>3. "tests" \notin new /\ "compiler_output" \notin new
  <2> HIDE DEF found
  <2> QED  BY <1>2
<1>4. DOMAIN first = new
  OBVIOUS
<1>5. DOMAIN kept = DOMAIN p /\ \A k \in DOMAIN p : kept[k] = p[k]
  OBVIOUS
<1>6. "compiler_output" \notin DOMAIN tests /\ ("tests" \in DOMAIN p => DOMAIN tests = {})
  OBVIOUS
<1> HIDE DEF first, tests, kept, new
<1>7. ASSUME NEW k \in DOMAIN p, k \notin new, k \notin DOMAIN tests, k # "v"
      PROVE  Answers!Unmarshal(p)[k] = p[k]
  <2>1. k \in DOMAIN rest /\ rest[k] = p[k]
    BY <1>5, <1>7 DEF Answers!Over
  <2> HIDE DEF rest
  <2>2. k \in DOMAIN more /\ more[k] = p[k]
    BY <1>4, <1>7, <2>1 DEF Answers!Over
  <2> HIDE DEF more
  <2> QED  BY <1>1, <1>7, <2>2 DEF Answers!Over
<1>8. "tests" # "v" /\ "compiler_output" # "v"
  OBVIOUS
<1> QED  BY <1>3, <1>6, <1>7, <1>8

\* Why the judge did not take a run
Why(a) ==
  LET known == {n \in Answers!Explained : n \in {a.num, -a.num}} IN
  IF a.kind = "raises" THEN <<"default", 0>>
  ELSE IF known # {} THEN <<"explained", Answers!Max(known)>>
  ELSE <<"number", a.num>>

\* What is stored of a run whose tests were fetched, of one that no judge took, and
\* what the judge has to report.
AnswersInv ==
  /\ run \in [pc : {"sending", "sent", "erred", "dead", "done"},
              status : {Answers!InQueue, Answers!SubmitError}, number : {None, 1}, retries : Int,
              message : {None} \cup {Why(a) : a \in Answers!Answer}]
  /\ run.pc \in {"sending", "sent"} => run.status # Answers!SubmitError
  /\ run.pc = "sending" => doc = None
  /\ report.tests \in Seq(Tests) /\ report = [tests |-> report.tests, compiler |-> report.compiler]
  /\ fetched =>
       /\ run.pc = "done" /\ run.status # Answers!SubmitError
       /\ \E o : /\ doc = [run_id |-> "run", compiler_output |-> o, tests |-> Answers!View(report)]
                 /\ o = report.compiler \/ (report.compiler = None /\ o = "")
  /\ run.status = Answers!SubmitError =>
       \/ run.pc = "erred" /\ doc = None /\ run.message = Why(answer)
       \/ run.pc = "dead" /\ doc = None
       \/ run.pc = "done" /\ doc = Answers!ErrorProtocol(Why(answer))

\* Nothing was sent yet, or the run is of the days of the older protocols.
LEMMA AnswersInit == Init => AnswersInv
<1> SUFFICES ASSUME Answers!Init
             PROVE  AnswersInv
  BY DEF Init
<1>1. <<>> \in Seq(Tests)
  OBVIOUS
<1>2. Answers!InQueue # Answers!SubmitError
  BY DEF Answers!InQueue, Answers!SubmitError
<1>3. /\ run \in [pc : {"sending", "done"}, status : {Answers!InQueue}, number : {None}, retries : {0},
                  message : {None}]
      /\ run.pc = "sending" => doc = None
      /\ report \in [tests : {<<>>}, compiler : Outputs]
      /\ fetched = FALSE
  BY DEF Answers!Init
<1>4. run \in [pc : {"sending", "sent", "erred", "dead", "done"},
               status : {Answers!InQueue, Answers!SubmitError}, number : {None, 1}, retries : Int,
               message : {None} \cup {Why(a) : a \in Answers!Answer}]
  BY <1>3
<1>5. run.status # Answers!SubmitError
  BY <1>2, <1>3
<1>6. report.tests = <<>> /\ report = [tests |-> report.tests, compiler |-> report.compiler]
  BY <1>3
<1> QED  BY <1>1, <1>3, <1>4, <1>5, <1>6 DEF AnswersInv

\* The message of an error is its explanation under either sign.
LEMMA ReplyIsWhy ==
  ASSUME NEW a, a.kind = "error", a.num \in Errors, Answers!Reply(a.num).code # 0
  PROVE  Answers!Reply(a.num).message = Why(a)
<1> DEFINE num == a.num
           known == {n \in Answers!Explained : n \in {num, -num}}
<1>1. num \in Int
  BY AnswersAssumption
<1>2. \A n \in Answers!Explained : n \in Int /\ n >= 0
  BY DEF Answers!Explained
<1>3. Why(a) = IF known # {} THEN <<"explained", Answers!Max(known)>> ELSE <<"number", num>>
  BY DEF Why
<1>4. \A n \in Int : Answers!Max({n}) = n
  BY DEF Answers!Max
<1> HIDE DEF num
<1>5. CASE num \in Answers!Explained
  <2>1. -num \in Answers!Explained => -num = num
    BY <1>1, <1>2, <1>5
  <2>2. known = {num}
    BY <1>5, <2>1
  <2>3. Answers!Reply(num).message = <<"explained", num>>
    BY <1>5 DEF Answers!Reply
  <2> QED  BY <1>1, <1>3, <1>4, <2>2, <2>3 DEF num
<1>6. CASE num \notin Answers!Explained /\ -num \in Answers!Explained
  <2>1. known = {-num}
    BY <1>6
  <2>2. Answers!Reply(num).message = <<"explained", -num>>
    BY <1>6 DEF Answers!Reply
  <2>3. -num \in Int
    BY <1>1
  <2> QED  BY <1>3, <1>4, <2>1, <2>2, <2>3 DEF num
<1>7. CASE num \notin Answers!Explained /\ -num \notin Answers!Explained
  <2>1. known = {}
    BY <1>7
  <2>2. Answers!Reply(num).message = <<"number", num>>
    BY <1>7 DEF Answers!Reply
  <2> QED  BY <1>3, <2>1, <2>2 DEF num
<1> QED  BY <1>5, <1>6, <1>7

\* Every step keeps what is stored true to its cause.
LEMMA AnswersStep == AnswersInv /\ [Next]_vars => AnswersInv'
<1> SUFFICES ASSUME AnswersInv, [Next]_vars
             PROVE  AnswersInv'
  OBVIOUS
<1>1. CASE UNCHANGED answers
  BY <1>1 DEF answers, AnswersInv
<1>2. ASSUME NEW a \in Answers!Answer, Answers!Submit(a)
      PROVE  AnswersInv'
  <2>1. /\ run.pc = "sending" /\ answer' = a /\ UNCHANGED <<report, doc, fetched>>
        /\ ~fetched /\ run.status # Answers!SubmitError /\ doc = None
    BY <1>2 DEF Answers!Submit, AnswersInv
  <2>2. a.kind = "error" => a.num \in Errors
    BY DEF Answers!Answer
  <2>3. ASSUME NEW message, Answers!Fail(message), message = Why(a)
        PROVE  AnswersInv'
    BY <1>2, <2>1, <2>3 DEF AnswersInv, Answers!Fail
  <2>4. CASE a.kind = "ok" /\ run' = [run EXCEPT !.pc = "sent", !.number = 1]
    BY <2>1, <2>4 DEF AnswersInv
  <2>5. CASE a.kind = "error" /\ Answers!Reply(a.num).code # 0 /\ Answers!Fail(Answers!Reply(a.num).message)
    BY <2>2, <2>3, <2>5, ReplyIsWhy
  <2>6. CASE run' = [run EXCEPT !.pc = "done"]
    BY <2>1, <2>6 DEF AnswersInv
  <2>7. CASE run' = [run EXCEPT !.retries = @ + 1]
    <3>1. run.retries \in Int
      BY DEF AnswersInv
    <3>2. run.retries + 1 \in Int
      BY <3>1
    <3> QED  BY <2>1, <2>7, <3>2 DEF AnswersInv
  <2>8. CASE a.kind = "raises" /\ Answers!Fail(<<"default", 0>>)
    <3>1. Why(a) = <<"default", 0>>
      BY <2>8 DEF Why
    <3> QED  BY <2>3, <2>8, <3>1
  <2> QED  BY <1>2, <2>4, <2>5, <2>6, <2>7, <2>8 DEF Answers!Submit
<1>3. ASSUME NEW t \in Tests, Answers!JudgeTests(t)
      PROVE  AnswersInv'
  <2>1. Append(report.tests, t) \in Seq(Tests)
    <3>1. report.tests \in Seq(Tests)
      BY DEF AnswersInv
    <3> QED  BY <3>1
  <2>2. report' = [tests |-> Append(report.tests, t), compiler |-> report.compiler]
    BY <1>3 DEF Answers!JudgeTests, AnswersInv
  <2>3. ~fetched /\ run.status # Answers!SubmitError /\ UNCHANGED <<run, answer, doc, fetched>>
    BY <1>3 DEF Answers!JudgeTests, AnswersInv
  <2> QED  BY <2>1, <2>2, <2>3 DEF AnswersInv
<1>4. ASSUME NEW type \in {"xml", "bson", "other"}, NEW packing \in Packings,
             Answers!Fetch(type, packing)
      PROVE  AnswersInv'
  <2>1. /\ run.pc = "sent" /\ ~fetched /\ run.status # Answers!SubmitError
        /\ run' = [run EXCEPT !.pc = "done"] /\ UNCHANGED <<answer, report>>
    BY <1>4 DEF Answers!Fetch, AnswersInv
  <2>2. report.tests \in Seq(Tests)
    BY DEF AnswersInv
  <2>3. ASSUME NEW o, o = report.compiler \/ (report.compiler = None /\ o = ""),
               doc' = [run_id |-> "run", compiler_output |-> o, tests |-> Answers!View(report)]
        PROVE  AnswersInv'
    <3>1. Answers!View(report)' = Answers!View(report)
      BY <2>1
    <3>2. run'.pc = "done" /\ run'.status = run.status
      BY <2>1 DEF AnswersInv
    <3> QED  BY <2>1, <2>3, <3>1, <3>2 DEF AnswersInv
  <2>4. CASE type = "xml"
    <3> DEFINE d == Answers!Document(report, "xml", <<>>)
               o == IF d.compiler = None THEN "" ELSE d.compiler
    <3>1. doc' = Answers!ParseXml(d, "run")
      BY <1>4, <2>4 DEF Answers!Fetch
    <3> HIDE DEF d
    <3>2. doc' = [run_id |-> "run", compiler_output |-> o, tests |-> Answers!View(report)]
      <4>1. [k \in DOMAIN Answers!Numbered(d.tests) |->
               Answers!Entry("xml", Answers!Numbered(d.tests)[k])] = Answers!View(report)
        BY <2>2, ParsedTests DEF d
      <4> QED  BY <3>1, <4>1 DEF Answers!ParseXml
    <3>3. d.compiler = report.compiler
      BY DEF d, Answers!Document
    <3> QED  BY <2>3, <3>2, <3>3
  <2>5. CASE type = "bson"
    <3> DEFINE d == Answers!Document(report, "bson", packing)
    <3>1. doc' = Answers!ParseBson(d, "run")
      BY <1>4, <2>5 DEF Answers!Fetch
    <3> HIDE DEF d
    <3>2. doc' = [run_id |-> "run", compiler_output |-> d.compiler, tests |-> Answers!View(report)]
      <4>1. [k \in DOMAIN Answers!Numbered(d.tests) |->
               Answers!Entry("bson", Answers!Numbered(d.tests)[k])] = Answers!View(report)
        BY <2>2, ParsedTests DEF d
      <4> QED  BY <3>1, <4>1 DEF Answers!ParseBson
    <3>3. d.compiler = report.compiler
      BY DEF d, Answers!Document
    <3> QED  BY <2>3, <3>2, <3>3
  <2>6. CASE type = "other"
    <3>1. UNCHANGED <<doc, fetched>>
      BY <1>4, <2>6 DEF Answers!Fetch
    <3> QED  BY <2>1, <3>1 DEF AnswersInv
  <2> QED  BY <2>4, <2>5, <2>6
<1>5. CASE Answers!StoreError
  BY <1>5 DEF AnswersInv, Answers!StoreError
<1>6. CASE Answers!Die
  BY <1>6 DEF AnswersInv, Answers!Die
<1> QED
  BY <1>1, <1>2, <1>3, <1>4, <1>5, <1>6 DEF Next, vars, Answers!Next

\* A reader of the protocol of a run sees the tests the judge reported.
THEOREM ReportsAreShown == Spec => []ShownIsReported
<1>1. AnswersInv => ShownIsReported
  <2> SUFFICES ASSUME AnswersInv, fetched
               PROVE  /\ Answers!Shown.tests = Answers!View(report)
                      /\ \/ Answers!Shown.compiler_output = report.compiler
                         \/ report.compiler = None /\ Answers!Shown.compiler_output = ""
    BY DEF ShownIsReported, Answers!ShownIsReported
  <2>1. PICK o : /\ doc = [run_id |-> "run", compiler_output |-> o, tests |-> Answers!View(report)]
                 /\ o = report.compiler \/ (report.compiler = None /\ o = "")
    BY DEF AnswersInv
  <2>2. /\ "t" \notin DOMAIN doc /\ "c" \notin DOMAIN doc
        /\ "tests" \in DOMAIN doc /\ "compiler_output" \in DOMAIN doc
        /\ doc.tests = Answers!View(report) /\ doc.compiler_output = o
    BY <2>1
  <2>3. Answers!Shown.tests = Answers!View(report) /\ Answers!Shown.compiler_output = o
    BY <2>2, UnmarshalPresent DEF Answers!Shown
  <2> QED  BY <2>1, <2>3
<1> QED  BY <1>1, AnswersInit, AnswersStep, PTL DEF Spec

\* The user of a run that no judge took is shown why, unless its task is between its
\* two writes or died there.
THEOREM RefusalsAreShown == Spec => []RefusalIsShown
<1>1. AnswersInv => RefusalIsShown
  <2> SUFFICES ASSUME AnswersInv, run.status = Answers!SubmitError,
                      ~(run.pc \in {"erred", "dead"} /\ doc = None)
               PROVE  Answers!Shown.compiler_output = Why(answer)
    BY DEF RefusalIsShown, Answers!RefusalIsShown, Why
  <2>1. doc = Answers!ErrorProtocol(Why(answer))
    BY DEF AnswersInv
  <2>2. /\ "t" \notin DOMAIN doc /\ "c" \notin DOMAIN doc
        /\ "compiler_output" \in DOMAIN doc /\ doc.compiler_output = Why(answer)
    BY <2>1 DEF Answers!ErrorProtocol
  <2> QED  BY <2>2, UnmarshalPresent DEF Answers!Shown
<1> QED  BY <1>1, AnswersInit, AnswersStep, PTL DEF Spec

\* A set of naturals that holds 0 and the successor of each member holds all of them.
LEMMA Induction ==
  ASSUME NEW S \in SUBSET Nat, 0 \in S, \A n \in S : n + 1 \in S
  PROVE  S = Nat
<1> DEFINE Less == OpToRel(<, Nat)
           T == Nat \ S
<1>1. \A x, y \in Nat : x < y => <<x, y>> \in Less
  BY DEF OpToRel
<1> HIDE DEF Less
<1>2. IsWellFoundedOn(Less, Nat)
  BY NatLessThanWellFounded DEF Less
<1> SUFFICES ASSUME T # {}
             PROVE  FALSE
  OBVIOUS
<1>3. PICK x \in T : \A y \in T : <<y, x>> \notin Less
  <2>1. T \subseteq Nat
    OBVIOUS
  <2> HIDE DEF T
  <2> QED  BY <1>2, <2>1, WFMin
<1>4. x - 1 \in Nat /\ x - 1 < x
  BY <1>3
<1>5. x - 1 \in S
  BY <1>1, <1>3, <1>4
<1> QED  BY <1>3, <1>4, <1>5

\* The numbers of two rows, up to the n-th
Upto(a, b, n) == UNION {{a[i], b[i]} : i \in 1 .. n}

\* Of two rows of numbers, one number is the largest.
LEMMA Largest ==
  ASSUME NEW n \in Nat \ {0}, NEW a \in [1 .. n -> Int], NEW b \in [1 .. n -> Int]
  PROVE  \E x \in Upto(a, b, n) : \A y \in Upto(a, b, n) : x >= y
<1> DEFINE T(m) == Upto(a, b, m)
           Has(m) == \E x \in T(m) : \A y \in T(m) : x >= y
           S == {m \in Nat : m + 1 <= n => Has(m + 1)}
<1>1. ASSUME NEW i \in 1 .. n
      PROVE  \E x \in {a[i], b[i]} : x >= a[i] /\ x >= b[i]
  OBVIOUS
<1>2. ASSUME 1 <= n
      PROVE  Has(1)
  <2>1. T(1) = {a[1], b[1]}
    BY DEF Upto
  <2>2. 1 \in 1 .. n
    OBVIOUS
  <2>3. PICK x \in {a[1], b[1]} : x >= a[1] /\ x >= b[1]
    BY <1>1, <2>2
  <2> QED  BY <2>1, <2>3
<1>3. ASSUME NEW m \in S, m + 2 <= n
      PROVE  Has(m + 2)
  <2> DEFINE k == m + 2
  <2>1. m \in Nat /\ k \in 1 .. n /\ 1 .. k = (1 .. m + 1) \cup {k}
    BY <1>3
  <2>2. T(k) = T(m + 1) \cup {a[k], b[k]}
    <3> HIDE DEF k
    <3> QED  BY <2>1 DEF Upto
  <2>3. T(m + 1) \subseteq Int
    BY <2>1 DEF Upto
  <2>4. PICK x \in T(m + 1) : \A y \in T(m + 1) : x >= y
    <3>1. m + 1 <= n => Has(m + 1)
      OBVIOUS
    <3> HIDE DEF T
    <3> QED  BY <2>1, <3>1
  <2>5. PICK z \in {a[k], b[k]} : z >= a[k] /\ z >= b[k]
    BY <1>1, <2>1
  <2>6. a[k] \in Int /\ b[k] \in Int
    BY <2>1
  <2> HIDE DEF T, k
  <2>7. x \in Int /\ z \in Int
    BY <2>3, <2>6
  <2>8. CASE x >= z
    <3>1. x >= a[k] /\ x >= b[k]
      BY <2>5, <2>6, <2>7, <2>8
    <3> QED  BY <2>2, <2>4, <3>1 DEF k
  <2>9. CASE z >= x
    <3>1. \A y \in T(m + 1) : z >= y
      BY <2>3, <2>4, <2>7, <2>9
    <3> QED  BY <2>2, <2>5, <3>1 DEF k
  <2> QED  BY <2>7, <2>8, <2>9
<1> HIDE DEF Has
<1>4. 0 \in S
  BY <1>2
<1>5. ASSUME NEW m \in S
      PROVE  m + 1 \in S
  <2>1. m \in Nat /\ (m + 1) + 1 = m + 2
    OBVIOUS
  <2> QED  BY <1>3, <2>1
<1>6. S = Nat
  <2>1. S \in SUBSET Nat
    OBVIOUS
  <2> HIDE DEF S
  <2> QED  BY <1>4, <1>5, <2>1, Induction
<1>7. n - 1 \in Nat /\ (n - 1) + 1 = n
  OBVIOUS
<1>8. Has(n)
  <2>1. n - 1 \in S
    <3> HIDE DEF S
    <3> QED  BY <1>6, <1>7
  <2>2. (n - 1) + 1 <= n => Has((n - 1) + 1)
    BY <2>1
  <2> QED  BY <1>7, <2>2
<1> QED  BY <1>8 DEF Has

\* Both parsers of reports in XML read the same of a test.
LEMMA LegacySame ==
  ASSUME NEW r, r.tests \in Seq(Tests)
  PROVE  LET old == Answers!LegacyTests(Answers!Document(r, "xml", <<>>))
             new == Answers!View(r)
         IN
         /\ old.ok <=> \A t \in Answers!Range(r.tests) : t.status \in DOMAIN Answers!Names
         /\ old.ok =>
              /\ DOMAIN old.tests = DOMAIN new
              /\ \A k \in DOMAIN new : /\ old.tests[k].status = new[k].status
                                       /\ old.tests[k].string_status = new[k].string_status
                                       /\ old.tests[k].time = new[k].time
                                       /\ old.tests[k].real_time = new[k].real_time
                                       /\ old.maxtime >= new[k].time
<1> DEFINE d == Answers!Document(r, "xml", <<>>)
           N == 1 .. Len(r.tests)
           numbered == Answers!Numbered(d.tests)
           tests == [k \in DOMAIN numbered |-> LET t == numbered[k] IN
                      [status |-> t.status, string_status |-> Answers!StringOf(t.status),
                       time |-> Answers!ToInt(t.time), real_time |-> Answers!ToInt(t.real_time)]]
           times == UNION {{tests[k].time, tests[k].real_time} : k \in DOMAIN tests}
           unnamed == \E t \in Answers!Range(d.tests) :
                        t.status = None \/ t.status \notin DOMAIN Answers!Names
           old == Answers!LegacyTests(d)
           new == Answers!View(r)
           value(v) == IF v = None THEN 0 ELSE v
<1>1. old = IF unnamed THEN [ok |-> FALSE, tests |-> <<>>, maxtime |-> None]
            ELSE [ok |-> TRUE, tests |-> tests,
                  maxtime |-> IF times = {} THEN None ELSE Answers!Max(times)]
  BY DEF Answers!LegacyTests
<1>2. d.tests = [i \in DOMAIN r.tests |-> DocTest("xml", <<>>, i, r.tests[i])]
  BY DocumentTests
<1>3. DOMAIN r.tests = N /\ \A i \in N : i \in Nat /\ r.tests[i] \in Tests
  OBVIOUS
<1>4. /\ DOMAIN numbered = {NumberKey(i) : i \in N}
      /\ \A i \in N : numbered[NumberKey(i)] = DocTest("xml", <<>>, i, r.tests[i])
  BY NumberedTests
<1> HIDE DEF d, numbered, N
<1>5. unnamed <=> \E i \in N : r.tests[i].status \notin DOMAIN Answers!Names
  <2>1. \A i \in N : DocTest("xml", <<>>, i, r.tests[i]).status = r.tests[i].status
    BY DEF DocTest
  <2>2. None \notin DOMAIN Answers!Names
    BY NoneAssumption
  <2>3. Answers!Range(d.tests) = {DocTest("xml", <<>>, i, r.tests[i]) : i \in N}
    BY <1>2, <1>3 DEF Answers!Range
  <2> HIDE DEF d
  <2> QED  BY <2>1, <2>2, <2>3
<1>6. \A i \in N : /\ value(r.tests[i].time) \in Int
                   /\ value(r.tests[i].real_time) \in Int
  BY <1>3, AnswersAssumption
<1>7. ASSUME NEW i \in N
      PROVE  /\ NumberKey(i) \in DOMAIN tests
             /\ tests[NumberKey(i)] =
                  [status |-> r.tests[i].status,
                   string_status |-> Answers!StringOf(r.tests[i].status),
                   time |-> value(r.tests[i].time), real_time |-> value(r.tests[i].real_time)]
  <2> DEFINE t == DocTest("xml", <<>>, i, r.tests[i])
  <2>1. /\ t.status = r.tests[i].status
        /\ t.time = Answers!Value("xml", r.tests[i].time)
        /\ t.real_time = Answers!Value("xml", r.tests[i].real_time)
    BY DEF DocTest
  <2>2. r.tests[i].time \in Int \cup {None} /\ r.tests[i].real_time \in Int \cup {None}
    BY <1>3, AnswersAssumption
  <2>3. /\ Answers!ToInt(t.time) = value(r.tests[i].time)
        /\ Answers!ToInt(t.real_time) = value(r.tests[i].real_time)
    BY <2>1, <2>2, ToIntValue
  <2>4. NumberKey(i) \in DOMAIN numbered /\ numbered[NumberKey(i)] = t
    BY <1>4
  <2> HIDE DEF t, value
  <2> QED  BY <2>1, <2>3, <2>4
<1>8. DOMAIN tests = {NumberKey(i) : i \in N}
  BY <1>4
<1>9. DOMAIN new = {NumberKey(i) : i \in N} /\ \A i \in N : new[NumberKey(i)] = SeenTest(r.tests[i])
  <2>1. new = [k \in {Answers!Value("xml", i) : i \in DOMAIN r.tests} |-> SeenTest(r.tests[k.n])]
    BY DEF Answers!View, SeenTest
  <2>2. \A i \in N : Answers!Value("xml", i) = NumberKey(i) /\ NumberKey(i).n = i
    BY NoneAssumption DEF Answers!Value, NumberKey, N
  <2>3. {Answers!Value("xml", i) : i \in DOMAIN r.tests} = {NumberKey(i) : i \in N}
    BY <1>3, <2>2
  <2> HIDE DEF new
  <2> QED  BY <2>1, <2>2, <2>3
<1>10. ASSUME NEW i \in N
       PROVE  \E m \in times : m = Answers!Max(times) /\ m >= value(r.tests[i].time)
  <2> DEFINE n == Len(r.tests)
             a == [j \in N |-> value(r.tests[j].time)]
             b == [j \in N |-> value(r.tests[j].real_time)]
  <2>1. n \in Nat \ {0} /\ N = 1 .. n
    BY DEF N
  <2>2. a \in [1 .. n -> Int] /\ b \in [1 .. n -> Int]
    BY <1>6, <2>1
  <2>3. times = Upto(a, b, n)
    <3>1. \A j \in N : tests[NumberKey(j)].time = a[j] /\ tests[NumberKey(j)].real_time = b[j]
      BY <1>7
    <3> HIDE DEF tests, a, b
    <3>2. {{tests[k].time, tests[k].real_time} : k \in DOMAIN tests} = {{a[j], b[j]} : j \in N}
      BY <1>8, <3>1
    <3> QED  BY <2>1, <3>2 DEF Upto
  <2>4. a[i] = value(r.tests[i].time) /\ a[i] \in {a[i], b[i]}
    OBVIOUS
  <2> HIDE DEF times, a, b, n
  <2>5. \E x \in times : \A y \in times : x >= y
    <3>1. \E x \in Upto(a, b, n) : \A y \in Upto(a, b, n) : x >= y
      BY <2>1, <2>2, Largest
    <3> QED  BY <2>3, <3>1
  <2>6. Answers!Max(times) \in times /\ \A y \in times : Answers!Max(times) >= y
    BY <2>5 DEF Answers!Max
  <2>7. a[i] \in times
    BY <2>1, <2>3, <2>4 DEF Upto
  <2> QED  BY <2>4, <2>6, <2>7
<1>11. \A t \in Tests : t.status \in DOMAIN Answers!Names =>
         /\ SeenTest(t).status = t.status /\ SeenTest(t).string_status = Answers!StringOf(t.status)
         /\ SeenTest(t).time = value(t.time) /\ SeenTest(t).real_time = value(t.real_time)
  <2>1. None \notin DOMAIN Answers!Names
    BY NoneAssumption
  <2> QED  BY <2>1 DEF SeenTest
<1>12. Answers!Range(r.tests) = {r.tests[i] : i \in N}
  BY <1>3 DEF Answers!Range
<1> HIDE DEF tests, times, unnamed, new, value
<1>13. old.ok <=> \A t \in Answers!Range(r.tests) : t.status \in DOMAIN Answers!Names
  BY <1>1, <1>5, <1>12
<1>14. ASSUME old.ok
       PROVE  old.tests = tests /\ \A i \in N : old.maxtime = Answers!Max(times)
  <2>1. \A i \in N : times # {}
    BY <1>10
  <2> QED  BY <1>1, <1>14, <2>1
<1>15. ASSUME old.ok, NEW i \in N
       PROVE  /\ old.tests[NumberKey(i)].status = new[NumberKey(i)].status
              /\ old.tests[NumberKey(i)].string_status = new[NumberKey(i)].string_status
              /\ old.tests[NumberKey(i)].time = new[NumberKey(i)].time
              /\ old.tests[NumberKey(i)].real_time = new[NumberKey(i)].real_time
              /\ old.maxtime >= new[NumberKey(i)].time
  <2>1. r.tests[i].status \in DOMAIN Answers!Names
    BY <1>1, <1>5, <1>15
  <2>2. /\ new[NumberKey(i)].status = r.tests[i].status
        /\ new[NumberKey(i)].string_status = Answers!StringOf(r.tests[i].status)
        /\ new[NumberKey(i)].time = value(r.tests[i].time)
        /\ new[NumberKey(i)].real_time = value(r.tests[i].real_time)
    BY <1>3, <1>9, <1>11, <2>1
  <2>3. old.maxtime >= value(r.tests[i].time)
    BY <1>10, <1>14, <1>15
  <2>4. old.tests[NumberKey(i)] =
          [status |-> r.tests[i].status,
           string_status |-> Answers!StringOf(r.tests[i].status),
           time |-> value(r.tests[i].time), real_time |-> value(r.tests[i].real_time)]
    BY <1>7, <1>14, <1>15
  <2> HIDE DEF old
  <2> QED  BY <2>2, <2>3, <2>4
<1>16. old.ok => DOMAIN old.tests = DOMAIN new
  BY <1>8, <1>9, <1>14
<1> HIDE DEF old
<1> QED  BY <1>9, <1>13, <1>15, <1>16 DEF old, new, d

\* The older parser reads of a report what its readers are shown.
THEOREM LegacyAgrees == Spec => []LegacyReadsTheSame
<1>1. AnswersInv => LegacyReadsTheSame
  <2> SUFFICES ASSUME AnswersInv
               PROVE  LegacyReadsTheSame
    OBVIOUS
  <2>1. report.tests \in Seq(Tests)
    BY DEF AnswersInv
  <2> QED  BY <2>1, LegacySame DEF LegacyReadsTheSame, Answers!LegacyReadsTheSame
<1> QED  BY <1>1, AnswersInit, AnswersStep, PTL DEF Spec

-----------------------------------------------------------------------------
(***************************************************************************)
(* The tables of the monitors                                              *)
(***************************************************************************)

\* What a call of get_runs is given
Arguments == {"problem_id", "user_ids", "time_after", "time_before", "context_id",
              "context_source", "show_hidden"}

\* What a run may be
AllRuns ==
  {[status |-> s, problem |-> r.problem, user |-> r.user, time |-> r.time, context |-> r.context,
    source |-> r.source, visible |-> r.visible] : s \in Statuses \cup {Monitors!InQueue}, r \in Arriving}

\* A change of a run finds the table of the call again.
Found(call, u) ==
  IF Monitors!Unnamed(call) THEN Monitors!Untimed(call) ELSE u \in Monitors!Listed(call.user_ids)

\* The table lists only runs that the call selects, and all those a change of which
\* finds it again, with their verdicts.
Fresh(table, call, rs) ==
  /\ \A i \in DOMAIN table : i \in DOMAIN rs /\ Monitors!Selected(call, rs[i])
  /\ \A i \in DOMAIN rs :
       rs[i].status # Monitors!InQueue /\ Found(call, rs[i].user) /\ Monitors!Selected(call, rs[i])
         => i \in DOMAIN table /\ table[i] = rs[i].status

\* Every cached table was computed for a call whose meta is there.
MonitorsInv ==
  /\ runs \in Seq(AllRuns)
  /\ \A k \in DOMAIN store :
       \E call : /\ DOMAIN call = Arguments /\ Monitors!Key(call) = k
                 /\ Monitors!Subscribed(call) \in metas
                 /\ Fresh(store[k], call, runs)

\* A key has what the call was given.
LEMMA KeysDiffer ==
  ASSUME NEW c, NEW d, DOMAIN c = Arguments, DOMAIN d = Arguments, Monitors!Key(c) = Monitors!Key(d)
  PROVE  \A a \in Arguments : c[a] = d[a]
<1>1. \A e : Monitors!Key(e) = [a \in {b \in DOMAIN e : e[b] # None} |-> e[a]]
  BY DEF Monitors!Key, Monitors!RestrictDomain, Monitors!Restrict
<1> SUFFICES ASSUME NEW a \in Arguments PROVE c[a] = d[a]
  OBVIOUS
<1> DEFINE kc == [b \in {b \in DOMAIN c : c[b] # None} |-> c[b]]
           kd == [b \in {b \in DOMAIN d : d[b] # None} |-> d[b]]
<1>2. kc = kd
  BY <1>1
<1>3. \A b \in Arguments : (b \in DOMAIN kc <=> c[b] # None) /\ (b \in DOMAIN kd <=> d[b] # None)
  OBVIOUS
<1>4. \A b \in Arguments : (c[b] # None => kc[b] = c[b]) /\ (d[b] # None => kd[b] = d[b])
  OBVIOUS
<1> HIDE DEF kc, kd
<1> QED  BY <1>2, <1>3, <1>4

\* Whether a call selects a run depends on what the call was given.
LEMMA SameCall ==
  ASSUME NEW c, NEW d, DOMAIN c = Arguments, DOMAIN d = Arguments, Monitors!Key(c) = Monitors!Key(d)
  PROVE  /\ \A r : Monitors!Selected(c, r) <=> Monitors!Selected(d, r)
         /\ \A u : Found(c, u) <=> Found(d, u)
<1>1. \A a \in Arguments : c[a] = d[a]
  BY KeysDiffer
<1>2. /\ c.problem_id = d.problem_id /\ c.user_ids = d.user_ids /\ c.time_after = d.time_after
      /\ c.time_before = d.time_before /\ c.context_id = d.context_id
      /\ c.context_source = d.context_source /\ c.show_hidden = d.show_hidden
  BY <1>1 DEF Arguments
<1> QED  BY <1>2 DEF Monitors!Selected, Found, Monitors!Unnamed, Monitors!Untimed

\* What the views ask for are calls.
LEMMA ViewsCall ==
  ASSUME NEW r
  PROVE  /\ \A c \in Monitors!Range(Monitors!ContestCalls(r)) : DOMAIN c = Arguments
         /\ \A c \in Monitors!Range(Monitors!ProblemCalls(r)) : DOMAIN c = Arguments
<1>1. \A p, u, x : DOMAIN Monitors!Call(r, p, u, x) = Arguments
  BY DEF Monitors!Call, Arguments
<1> QED  BY <1>1 DEF Monitors!Range, Monitors!ContestCalls, Monitors!ProblemCalls

\* No table is cached in the beginning.
LEMMA MonitorsInit == Init => MonitorsInv
BY DEF Init, Monitors!Init, MonitorsInv

\* A view adds fresh tables and their metas.
LEMMA AskKeeps ==
  ASSUME MonitorsInv, NEW calls, \A c \in calls : DOMAIN c = Arguments,
         Monitors!Ask(calls), runs' = runs
  PROVE  MonitorsInv'
<1> DEFINE new == Monitors!Missed(calls)
           keys == {Monitors!Key(c) : c \in new}
           of(k) == CHOOSE c \in new : Monitors!Key(c) = k
<1>1. /\ store' = [k \in DOMAIN store \cup keys |-> IF k \in DOMAIN store THEN store[k]
                                                   ELSE Monitors!Table(of(k))]
      /\ metas' = metas \cup {Monitors!Subscribed(c) : c \in new}
  BY DEF Monitors!Ask
<1>2. new \subseteq calls
  BY DEF Monitors!Missed
<1>3. \A k \in keys : of(k) \in new /\ Monitors!Key(of(k)) = k
  OBVIOUS
<1>4. \A c : Fresh(Monitors!Table(c), c, runs)
  BY DEF Fresh, Monitors!Table
<1> HIDE DEF new, keys, of
<1>5. ASSUME NEW k \in DOMAIN store'
      PROVE  \E c : /\ DOMAIN c = Arguments /\ Monitors!Key(c) = k
                    /\ Monitors!Subscribed(c) \in metas'
                    /\ Fresh(store'[k], c, runs')
  <2>1. CASE k \in DOMAIN store
    <3>1. store'[k] = store[k]
      BY <1>1, <2>1
    <3> QED  BY <1>1, <2>1, <3>1 DEF MonitorsInv
  <2>2. CASE k \notin DOMAIN store
    <3>1. k \in keys /\ store'[k] = Monitors!Table(of(k))
      BY <1>1, <2>2
    <3>2. of(k) \in new /\ Monitors!Key(of(k)) = k /\ DOMAIN of(k) = Arguments
      BY <1>2, <1>3, <3>1
    <3>3. Monitors!Subscribed(of(k)) \in metas'
      BY <1>1, <3>2
    <3>4. Fresh(store'[k], of(k), runs')
      BY <1>4, <3>1
    <3> QED  BY <3>2, <3>3, <3>4
  <2> QED  BY <2>1, <2>2
<1> QED  BY <1>5 DEF MonitorsInv

\* A run that waits for a verdict is in no table that is bound to be as it is.
LEMMA QueuedKeeps ==
  ASSUME MonitorsInv, runs' \in Seq(AllRuns), DOMAIN runs \subseteq DOMAIN runs',
         NEW i \in DOMAIN runs', runs'[i].status = Monitors!InQueue,
         \A j \in DOMAIN runs' \ {i} : j \in DOMAIN runs /\ runs'[j] = runs[j],
         i \in DOMAIN runs => \A c : Monitors!Selected(c, runs[i]) <=> Monitors!Selected(c, runs'[i]),
         UNCHANGED <<store, metas>>
  PROVE  MonitorsInv'
<1>1. ASSUME NEW table, NEW c, Fresh(table, c, runs)
      PROVE  Fresh(table, c, runs')
  BY <1>1 DEF Fresh
<1> QED  BY <1>1 DEF MonitorsInv

\* Every step of the system keeps it: a verdict drops the tables that its run is in, and
\* other changes do not touch runs that have one.
LEMMA MonitorsStep == MonitorsInv /\ [Next]_vars => MonitorsInv'
<1> SUFFICES ASSUME MonitorsInv, [Next]_vars
             PROVE  MonitorsInv'
  OBVIOUS
<1>1. CASE UNCHANGED monitors
  BY <1>1 DEF monitors, MonitorsInv
<1>2. ASSUME NEW r \in Requests, Monitors!ShowContests(r)
      PROVE  MonitorsInv'
  BY <1>2, AskKeeps, ViewsCall DEF Monitors!ShowContests
<1>3. ASSUME NEW r \in Requests, Monitors!ShowProblems(r)
      PROVE  MonitorsInv'
  BY <1>3, AskKeeps, ViewsCall DEF Monitors!ShowProblems
<1>4. ASSUME NEW r \in Arriving, Monitors!Submit(r)
      PROVE  MonitorsInv'
  <2> DEFINE q == [status |-> Monitors!InQueue, problem |-> r.problem, user |-> r.user,
                   time |-> r.time, context |-> r.context, source |-> r.source,
                   visible |-> r.visible]
             n == Len(runs) + 1
  <2>1. runs' = Append(runs, q) /\ UNCHANGED <<store, metas>>
    BY <1>4 DEF Monitors!Submit
  <2>2. runs \in Seq(AllRuns) /\ q \in AllRuns
    <3>1. q \in AllRuns
      BY DEF AllRuns
    <3> HIDE DEF q
    <3> QED  BY <3>1 DEF MonitorsInv
  <2>3. q.status = Monitors!InQueue
    OBVIOUS
  <2> HIDE DEF q
  <2>4. /\ runs' \in Seq(AllRuns) /\ DOMAIN runs' = 1 .. n /\ DOMAIN runs = 1 .. Len(runs)
        /\ runs'[n] = q /\ \A j \in 1 .. Len(runs) : runs'[j] = runs[j]
        /\ Len(runs) \in Nat
    BY <2>1, <2>2
  <2>5. n \in DOMAIN runs' /\ n \notin DOMAIN runs /\ DOMAIN runs \subseteq DOMAIN runs'
    BY <2>4
  <2>6. \A j \in DOMAIN runs' \ {n} : j \in DOMAIN runs /\ runs'[j] = runs[j]
    BY <2>4
  <2> HIDE DEF n
  <2> QED  BY <2>1, <2>3, <2>4, <2>5, <2>6, QueuedKeeps
<1>5. ASSUME NEW i \in DOMAIN runs, NEW s \in Statuses \cup {Monitors!InQueue},
             runs' = [runs EXCEPT ![i].status = s]
      PROVE  /\ runs' \in Seq(AllRuns) /\ DOMAIN runs' = DOMAIN runs
             /\ runs'[i].status = s /\ runs'[i].user = runs[i].user
             /\ runs'[i].problem = runs[i].problem
             /\ \A c : Monitors!Selected(c, runs[i]) <=> Monitors!Selected(c, runs'[i])
             /\ \A j \in DOMAIN runs \ {i} : runs'[j] = runs[j]
  <2> DEFINE q == [runs[i] EXCEPT !.status = s]
  <2>1. runs \in Seq(AllRuns) /\ runs[i] \in AllRuns
    BY DEF MonitorsInv
  <2>2. PICK r \in Arriving, z \in Statuses \cup {Monitors!InQueue} :
          runs[i] = [status |-> z, problem |-> r.problem, user |-> r.user, time |-> r.time,
                     context |-> r.context, source |-> r.source, visible |-> r.visible]
    BY <2>1 DEF AllRuns
  <2>3. q = [status |-> s, problem |-> r.problem, user |-> r.user, time |-> r.time,
             context |-> r.context, source |-> r.source, visible |-> r.visible]
    BY <2>2
  <2>4. q \in AllRuns
    BY <2>3 DEF AllRuns
  <2>5. /\ q.status = s /\ q.user = runs[i].user /\ q.problem = runs[i].problem
        /\ q.time = runs[i].time /\ q.context = runs[i].context /\ q.source = runs[i].source
        /\ q.visible = runs[i].visible
    BY <2>2, <2>3
  <2>6. runs' = [runs EXCEPT ![i] = q]
    BY <1>5
  <2> HIDE DEF q
  <2>7. runs' \in Seq(AllRuns) /\ DOMAIN runs' = DOMAIN runs /\ runs'[i] = q
        /\ \A j \in DOMAIN runs \ {i} : runs'[j] = runs[j]
    BY <2>1, <2>4, <2>6
  <2>8. \A c : Monitors!Selected(c, runs[i]) <=> Monitors!Selected(c, q)
    BY <2>5 DEF Monitors!Selected
  <2> QED  BY <2>5, <2>7, <2>8
<1>6. ASSUME NEW i \in DOMAIN runs, NEW s \in Statuses, Monitors!Judged(i, s)
      PROVE  MonitorsInv'
  <2> DEFINE r == runs[i]
             found == {m \in metas : m.problem = r.problem /\ (r.user \in m.users \/ m.always)}
  <2>1. /\ runs' = [runs EXCEPT ![i].status = s]
        /\ store' = [k \in DOMAIN store \ {m.key : m \in found} |-> store[k]]
        /\ metas' = metas \ found
    BY <1>6 DEF Monitors!Judged, Monitors!Invalidate, Monitors!Restrict
  <2>2. /\ runs' \in Seq(AllRuns) /\ DOMAIN runs' = DOMAIN runs
        /\ runs'[i].user = r.user /\ runs'[i].problem = r.problem
        /\ \A c : Monitors!Selected(c, r) <=> Monitors!Selected(c, runs'[i])
        /\ \A j \in DOMAIN runs \ {i} : runs'[j] = runs[j]
    BY <1>5, <2>1
  <2>3. \A m \in found : m \in metas /\ m.problem = r.problem /\ (r.user \in m.users \/ m.always)
    OBVIOUS
  <2>4. \A m \in metas : m.problem = r.problem /\ (r.user \in m.users \/ m.always) => m \in found
    OBVIOUS
  <2> HIDE DEF found, r
  <2>5. ASSUME NEW k \in DOMAIN store'
        PROVE  \E c : /\ DOMAIN c = Arguments /\ Monitors!Key(c) = k
                      /\ Monitors!Subscribed(c) \in metas'
                      /\ Fresh(store'[k], c, runs')
    <3>1. k \in DOMAIN store /\ store'[k] = store[k] /\ \A m \in found : m.key # k
      BY <2>1
    <3>2. PICK c : /\ DOMAIN c = Arguments /\ Monitors!Key(c) = k
                   /\ Monitors!Subscribed(c) \in metas
                   /\ Fresh(store[k], c, runs)
      BY <3>1 DEF MonitorsInv
    <3> DEFINE m == Monitors!Subscribed(c)
    <3>3. /\ m.key = k /\ m.problem = c.problem_id
          /\ m.users = IF Monitors!Unnamed(c) THEN {} ELSE Monitors!Listed(c.user_ids)
          /\ m.always <=> Monitors!Unnamed(c) /\ Monitors!Untimed(c)
      BY <3>2 DEF Monitors!Subscribed
    <3> HIDE DEF m
    <3>4. m \notin found /\ m \in metas
      BY <3>1, <3>2, <3>3 DEF m
    <3>5. ~(Found(c, r.user) /\ Monitors!Selected(c, r))
      <4>1. SUFFICES ASSUME Found(c, r.user), Monitors!Selected(c, r) PROVE FALSE
        OBVIOUS
      <4>2. m.problem = r.problem
        BY <3>3, <4>1 DEF Monitors!Selected
      <4>3. r.user \in m.users \/ m.always
        BY <3>3, <4>1 DEF Found
      <4> QED  BY <2>4, <3>4, <4>2, <4>3
    <3>6. Fresh(store[k], c, runs')
      <4>1. r = runs[i]
        BY DEF r
      <4> QED  BY <2>2, <3>2, <3>5, <4>1 DEF Fresh
    <3>7. Monitors!Subscribed(c) \in metas'
      BY <2>1, <3>4 DEF m
    <3> QED  BY <3>1, <3>2, <3>6, <3>7
  <2> QED  BY <2>2, <2>5 DEF MonitorsInv
<1>7. ASSUME NEW i \in DOMAIN runs, Monitors!Rejudge(i)
      PROVE  MonitorsInv'
  <2>1. runs' = [runs EXCEPT ![i].status = Monitors!InQueue] /\ UNCHANGED <<store, metas>>
    BY <1>7 DEF Monitors!Rejudge
  <2>2. /\ runs' \in Seq(AllRuns) /\ DOMAIN runs' = DOMAIN runs
        /\ runs'[i].status = Monitors!InQueue
        /\ \A c : Monitors!Selected(c, runs[i]) <=> Monitors!Selected(c, runs'[i])
        /\ \A j \in DOMAIN runs \ {i} : runs'[j] = runs[j]
    BY <1>5, <2>1
  <2> QED  BY <2>1, <2>2, QueuedKeeps
<1>8. ASSUME NEW k \in DOMAIN store, Monitors!Expire(k)
      PROVE  MonitorsInv'
  <2>1. /\ store' = [x \in DOMAIN store \ {k} |-> store[x]] /\ UNCHANGED <<runs, metas>>
    BY <1>8 DEF Monitors!Expire, Monitors!Restrict
  <2> QED  BY <2>1 DEF MonitorsInv
<1> QED
  BY <1>1, <1>2, <1>3, <1>4, <1>6, <1>7, <1>8 DEF Next, vars, Monitors!Next

\* A cached table is what its key stands for now.
THEOREM StoredTablesAreFresh == Spec => []StoredIsFresh
<1>1. MonitorsInv => StoredIsFresh
  <2> SUFFICES ASSUME MonitorsInv, NEW c \in Monitors!Calls, Monitors!Key(c) \in DOMAIN store,
                      NEW i \in DOMAIN runs, runs[i].status # Monitors!InQueue, Found(c, runs[i].user)
               PROVE  LET stored == store[Monitors!Key(c)] IN
                      /\ i \in DOMAIN stored <=> Monitors!Selected(c, runs[i])
                      /\ i \in DOMAIN stored => stored[i] = runs[i].status
    BY DEF StoredIsFresh, Monitors!StoredIsFresh, Found
  <2>1. DOMAIN c = Arguments
    BY ViewsCall DEF Monitors!Calls
  <2>2. PICK d : /\ DOMAIN d = Arguments /\ Monitors!Key(d) = Monitors!Key(c)
                 /\ Fresh(store[Monitors!Key(c)], d, runs)
    BY DEF MonitorsInv
  <2>3. /\ Monitors!Selected(c, runs[i]) <=> Monitors!Selected(d, runs[i])
        /\ Found(c, runs[i].user) <=> Found(d, runs[i].user)
    BY <2>1, <2>2, SameCall
  <2> QED  BY <2>2, <2>3 DEF Fresh
<1> QED  BY <1>1, MonitorsInit, MonitorsStep, PTL DEF Spec

-----------------------------------------------------------------------------
(***************************************************************************)
(* The configuration of a contest                                          *)
(***************************************************************************)

\* What a problem is made of, of itself and of the one it inherits from
LEMMA InheritedSettings ==
  ASSUME NEW c, NEW d, NEW abstract,
         LET a      == Config!Inherited(d, abstract)
             copied == DOMAIN a \cap Config!Asks(d)
         IN  ~({"time_limit", "time_limit_millis"} \subseteq copied)
  PROVE  LET a      == Config!Inherited(d, abstract)
             copied == DOMAIN a \cap Config!Asks(d)
             whole  == [o \in copied \cup DOMAIN d |-> IF o \in copied THEN a[o] ELSE d[o]]
         IN  Config!Problem(c, d, abstract, 1) = Config!Problem(c, whole, <<>>, 1)
<1> DEFINE a      == Config!Inherited(d, abstract)
           copied == DOMAIN a \cap Config!Asks(d)
           whole  == [o \in copied \cup DOMAIN d |-> IF o \in copied THEN a[o] ELSE d[o]]
           limits == {"time_limit", "time_limit_millis"}
           others == Config!Inheritable \ limits
           names  == {"short_name", "internal_name"}
<1>1. Config!Inherited(whole, <<>>) = <<>>
  BY DEF Config!Inherited
<1> HIDE DEF a
<1>2. DOMAIN whole = copied \cup DOMAIN d
  OBVIOUS
<1>3. copied \cap DOMAIN d = {} /\ copied \subseteq Config!Inheritable /\ copied \subseteq DOMAIN a
  BY DEF Config!Asks
<1>4. /\ \A o \in DOMAIN d : o \in DOMAIN whole /\ whole[o] = d[o]
      /\ \A o \in copied : o \in DOMAIN whole /\ whole[o] = a[o]
  BY <1>3
<1>5. others \cap (DOMAIN a \ DOMAIN d) \subseteq copied
  BY DEF Config!Asks
<1>6. names \cap Config!Inheritable = {}
  BY DEF Config!Inheritable
<1>7. IF limits \cap DOMAIN d = {} THEN limits \cap copied = limits \cap DOMAIN a ELSE limits \cap copied = {}
  BY DEF Config!Asks, Config!Inheritable
<1>8. ~(limits \subseteq copied)
  BY DEF a
<1> HIDE DEF whole, copied, limits, others, names
<1>9. ASSUME NEW o \in others
      PROVE  Config!Setting(d, a, o) = Config!Setting(whole, <<>>, o)
  <2>1. o \notin DOMAIN <<>>
    OBVIOUS
  <2>2. CASE o \in DOMAIN d
    BY <1>4, <2>2 DEF Config!Setting, Config!Has, Config!First, Config!Values
  <2>3. CASE o \notin DOMAIN d /\ o \in DOMAIN a
    <3>1. o \in copied
      BY <1>5, <2>3
    <3> QED  BY <1>4, <2>3, <3>1 DEF Config!Setting, Config!Has, Config!First, Config!Values
  <2>4. CASE o \notin DOMAIN d /\ o \notin DOMAIN a
    <3>1. o \notin DOMAIN whole
      BY <1>2, <1>3, <2>4
    <3> QED  BY <2>1, <2>4, <3>1 DEF Config!Setting, Config!Has
  <2> QED  BY <2>2, <2>3, <2>4
<1>10. ASSUME NEW o \in names
       PROVE  /\ Config!Has(whole, o) <=> Config!Has(d, o)
              /\ Config!Has(d, o) => Config!First(whole, o) = Config!First(d, o)
  <2>1. o \notin copied
    BY <1>3, <1>6
  <2> QED  BY <1>2, <1>4, <2>1 DEF Config!Has, Config!First, Config!Values
<1>11. Config!TimeLimit(d, a) = Config!TimeLimit(whole, <<>>)
  <2> DEFINE s == "time_limit"
             m == "time_limit_millis"
  <2>1. s \notin DOMAIN <<>> /\ m \notin DOMAIN <<>> /\ limits = {s, m}
    BY DEF limits
  <2>2. \A o \in DOMAIN d : Config!First(whole, o) = Config!First(d, o)
    BY <1>4 DEF Config!First, Config!Values
  <2>3. \A o \in copied : Config!First(whole, o) = Config!First(a, o)
    BY <1>4 DEF Config!First, Config!Values
  <2>4. CASE m \in DOMAIN d
    BY <1>2, <2>2, <2>4 DEF Config!TimeLimit, Config!Has
  <2>5. CASE m \notin DOMAIN d /\ s \in DOMAIN d
    <3>1. m \notin DOMAIN whole /\ s \in DOMAIN whole
      BY <1>2, <1>7, <2>1, <2>5
    <3> QED  BY <2>2, <2>5, <3>1 DEF Config!TimeLimit, Config!Has
  <2>6. CASE m \notin DOMAIN d /\ s \notin DOMAIN d
    <3>1. \A o \in {s, m} : o \in DOMAIN whole <=> o \in DOMAIN a
      BY <1>2, <1>7, <2>1, <2>6
    <3>2. \A o \in {s, m} : o \in DOMAIN a => o \in copied
      BY <1>7, <2>1, <2>6
    <3>3. ~(s \in DOMAIN a /\ m \in DOMAIN a)
      BY <1>8, <2>1, <3>2
    <3> QED  BY <2>1, <2>3, <2>6, <3>1, <3>2, <3>3 DEF Config!TimeLimit, Config!Has
  <2> QED  BY <2>4, <2>5, <2>6
<1>12. {"type", "max_vm_size", "test_dir", "corr_dir", "test_pat", "corr_pat"} \subseteq others
  BY DEF others, limits, Config!Inheritable
<1>13. Config!MemoryLimit(d, a) = Config!MemoryLimit(whole, <<>>)
  <2>1. Config!Setting(d, a, "max_vm_size") = Config!Setting(whole, <<>>, "max_vm_size")
    BY <1>9, <1>12
  <2> QED  BY <2>1 DEF Config!MemoryLimit
<1>14. \A name : Config!TestsDir(c, d, a, name) = Config!TestsDir(c, whole, <<>>, name)
  <2>1. Config!Setting(d, a, "test_dir") = Config!Setting(whole, <<>>, "test_dir")
    BY <1>9, <1>12
  <2> QED  BY <2>1, Zenon DEF Config!TestsDir
<1> DEFINE short == IF Config!Has(d, "short_name") THEN Config!First(d, "short_name") ELSE Config!ToString(1)
           name  == IF Config!Has(d, "internal_name") THEN Config!First(d, "internal_name") ELSE short
           short2 == IF Config!Has(whole, "short_name") THEN Config!First(whole, "short_name") ELSE Config!ToString(1)
           name2  == IF Config!Has(whole, "internal_name") THEN Config!First(whole, "internal_name") ELSE short2
<1>15. short = short2 /\ name = name2
  BY <1>10 DEF names
<1>16. Config!Problem(c, d, abstract, 1) =
       [short_name |-> short, internal_name |-> name,
        output_only |-> Config!Setting(d, a, "type") = "output-only",
        time_limit |-> Config!TimeLimit(d, a), memory_limit |-> Config!MemoryLimit(d, a),
        tests_dir |-> Config!TestsDir(c, d, a, name), corr_dir |-> Config!Setting(d, a, "corr_dir"),
        test_pat |-> Config!Setting(d, a, "test_pat"), corr_pat |-> Config!Setting(d, a, "corr_pat")]
  BY DEF Config!Problem, a
<1>17. Config!Problem(c, whole, <<>>, 1) =
       [short_name |-> short2, internal_name |-> name2,
        output_only |-> Config!Setting(whole, <<>>, "type") = "output-only",
        time_limit |-> Config!TimeLimit(whole, <<>>), memory_limit |-> Config!MemoryLimit(whole, <<>>),
        tests_dir |-> Config!TestsDir(c, whole, <<>>, name2),
        corr_dir |-> Config!Setting(whole, <<>>, "corr_dir"),
        test_pat |-> Config!Setting(whole, <<>>, "test_pat"),
        corr_pat |-> Config!Setting(whole, <<>>, "corr_pat")]
  BY <1>1 DEF Config!Problem
<1>18. \A o \in {"type", "corr_dir", "test_pat", "corr_pat"} :
          Config!Setting(d, a, o) = Config!Setting(whole, <<>>, o)
  BY <1>9, <1>12
<1> HIDE DEF short, name, short2, name2
<1>19. Config!Problem(c, d, abstract, 1) = Config!Problem(c, whole, <<>>, 1)
  BY <1>11, <1>13, <1>14, <1>15, <1>16, <1>17, <1>18
<1> QED  BY <1>19 DEF whole, copied, a

\* Whatever the sections of a problem and of the one it inherits from say, the problem is
\* what it would be if what it inherits were written in its own section.  It holds of any
\* configuration, so in every state (EjudgeProblemCfg).
THEOREM InheritanceIsCopying == Spec => []InheritedIsOwn
<1>1. InheritedIsOwn
  BY InheritedSettings DEF InheritedIsOwn, Config!InheritedIsOwn, Config!Has
<1> QED  BY <1>1, PTL

-----------------------------------------------------------------------------
(***************************************************************************)
(* The problems of a configuration                                         *)
(*                                                                         *)
(* The sections of a file are walked twice: by the code, which gives each  *)
(* problem its id as it comes (NextProblem), and by the property, which    *)
(* numbers the problems that are not abstract.  HasProblems relates the    *)
(* two after every section.                                                *)
(***************************************************************************)

\* f[i] has the members of s at the places in P, up to the place i.
Collects(f, n, s, P) ==
  f = [i \in 0 .. n |->
         IF i = 0 THEN <<>> ELSE IF i \in P THEN Append(f[i - 1], s[i]) ELSE f[i - 1]]

\* There is such a function.
LEMMA CollectsExists ==
  ASSUME NEW s, NEW P, NEW n \in Nat
  PROVE  \E f : Collects(f, n, s, P)
<1> DEFINE next(h, i) == IF i = 0 THEN <<>> ELSE IF i \in P THEN Append(h[i - 1], s[i]) ELSE h[i - 1]
           S == {m \in Nat : \E f : Collects(f, m, s, P)}
<1>1. 0 \in S
  <2>1. Collects([i \in 0 .. 0 |-> <<>>], 0, s, P)
    BY DEF Collects
  <2> QED  BY <2>1
<1>2. ASSUME NEW m \in S
      PROVE  m + 1 \in S
  <2>1. PICK f : Collects(f, m, s, P)
    BY <1>2
  <2> DEFINE g == [i \in 0 .. m + 1 |-> IF i = m + 1 THEN next(f, i) ELSE f[i]]
  <2>2. \A i \in 0 .. m : f[i] = next(f, i)
    BY <2>1 DEF Collects
  <2>3. (\A i \in 0 .. m : g[i] = f[i]) /\ g[m + 1] = next(f, m + 1)
    OBVIOUS
  <2>4. g = [i \in 0 .. m + 1 |-> g[i]]
    OBVIOUS
  <2> HIDE DEF g
  <2>5. ASSUME NEW i \in 0 .. m + 1
        PROVE  g[i] = next(g, i)
    <3>1. i # 0 => i - 1 \in 0 .. m
      OBVIOUS
    <3>2. next(g, i) = next(f, i)
      BY <2>3, <3>1
    <3>3. i = m + 1 \/ i \in 0 .. m
      OBVIOUS
    <3> HIDE DEF next
    <3> QED  BY <2>2, <2>3, <3>2, <3>3
  <2>6. Collects(g, m + 1, s, P)
    BY <2>4, <2>5 DEF Collects
  <2> QED  BY <2>6
<1> HIDE DEF S
<1>3. S \in SUBSET Nat
  BY DEF S
<1>4. S = Nat
  BY <1>1, <1>2, <1>3, Induction
<1> QED  BY <1>4 DEF S

\* What it is at each place
LEMMA CollectsValues ==
  ASSUME NEW s, NEW P, NEW n \in Nat, NEW f, Collects(f, n, s, P)
  PROVE  /\ f[0] = <<>>
         /\ \A i \in Nat : i < n => f[i + 1] = IF i + 1 \in P THEN Append(f[i], s[i + 1]) ELSE f[i]
<1> DEFINE next(i) == IF i = 0 THEN <<>> ELSE IF i \in P THEN Append(f[i - 1], s[i]) ELSE f[i - 1]
<1>1. \A i \in 0 .. n : f[i] = next(i)
  BY DEF Collects
<1>2. f[0] = <<>>
  <2>1. 0 \in 0 .. n
    OBVIOUS
  <2>2. f[0] = next(0)
    BY <1>1, <2>1
  <2> QED  BY <2>2
<1>3. ASSUME NEW i \in Nat, i < n
      PROVE  f[i + 1] = IF i + 1 \in P THEN Append(f[i], s[i + 1]) ELSE f[i]
  <2>1. i + 1 \in 0 .. n /\ i + 1 # 0 /\ (i + 1) - 1 = i
    BY <1>3
  <2>2. f[i + 1] = next(i + 1)
    BY <1>1, <2>1
  <2> QED  BY <2>1, <2>2
<1> QED  BY <1>2, <1>3

\* The sequence t begins with s.
BeginsWith(t, s) == Len(s) <= Len(t) /\ \A k \in 1 .. Len(s) : t[k] = s[k]

\* A sequence begins with what it was before a member was or was not added to it.
LEMMA AddedAtTheEnd ==
  ASSUME NEW T, NEW t \in Seq(T), NEW x \in T, NEW u, u = t \/ u = Append(t, x)
  PROVE  u \in Seq(T) /\ BeginsWith(u, t) /\ BeginsWith(u, u)
<1>1. u \in Seq(T) /\ Len(t) \in Nat /\ Len(u) \in Nat /\ Len(t) <= Len(u)
  OBVIOUS
<1>2. \A k \in 1 .. Len(t) : u[k] = t[k]
  OBVIOUS
<1> QED  BY <1>1, <1>2 DEF BeginsWith

\* What is collected grows at its end.
LEMMA CollectsGrows ==
  ASSUME NEW T, NEW s \in Seq(T), NEW P, NEW f, Collects(f, Len(s), s, P)
  PROVE  \A i \in 0 .. Len(s) : f[i] \in Seq(T) /\ BeginsWith(f[Len(s)], f[i])
<1> DEFINE n == Len(s)
           Good(m) == \A i \in 0 .. m : f[i] \in Seq(T) /\ BeginsWith(f[m], f[i])
           S == {m \in Nat : m <= n => Good(m)}
<1>1. n \in Nat /\ \A i \in 1 .. n : s[i] \in T
  OBVIOUS
<1>2. /\ f[0] = <<>>
      /\ \A i \in Nat : i < n => f[i + 1] = IF i + 1 \in P THEN Append(f[i], s[i + 1]) ELSE f[i]
  BY <1>1, CollectsValues
<1> HIDE DEF n
<1>3. Good(0)
  <2>1. BeginsWith(f[0], f[0])
    BY <1>2 DEF BeginsWith
  <2>2. f[0] \in Seq(T)
    BY <1>2
  <2>3. \A i \in 0 .. 0 : i = 0
    OBVIOUS
  <2> QED  BY <2>1, <2>2, <2>3
<1>4. ASSUME NEW m \in Nat, m < n, Good(m)
      PROVE  Good(m + 1)
  <2>1. f[m + 1] = f[m] \/ f[m + 1] = Append(f[m], s[m + 1])
    BY <1>2, <1>4
  <2>2. f[m] \in Seq(T) /\ s[m + 1] \in T
    BY <1>1, <1>4
  <2>3. f[m + 1] \in Seq(T) /\ BeginsWith(f[m + 1], f[m]) /\ BeginsWith(f[m + 1], f[m + 1])
    BY <2>1, <2>2, AddedAtTheEnd
  <2>4. ASSUME NEW i \in 0 .. m
        PROVE  f[i] \in Seq(T) /\ BeginsWith(f[m + 1], f[i])
    <3>1. f[i] \in Seq(T) /\ BeginsWith(f[m], f[i])
      BY <1>4
    <3>2. Len(f[i]) \in Nat /\ Len(f[m]) \in Nat /\ Len(f[m + 1]) \in Nat
      BY <2>2, <2>3, <3>1
    <3> QED  BY <2>3, <3>1, <3>2 DEF BeginsWith
  <2>5. \A i \in 0 .. m + 1 : i = m + 1 \/ i \in 0 .. m
    OBVIOUS
  <2> QED  BY <2>3, <2>4, <2>5
<1>5. S = Nat
  <2> HIDE DEF Good
  <2>1. 0 \in S /\ S \in SUBSET Nat
    BY <1>3
  <2>2. ASSUME NEW m \in S PROVE m + 1 \in S
    <3>1. m + 1 <= n => m < n /\ m <= n
      BY <1>1
    <3> QED  BY <1>4, <3>1
  <2> HIDE DEF S
  <2> QED  BY <2>1, <2>2, Induction
<1>6. n \in S
  BY <1>1, <1>5
<1>7. Good(n)
  BY <1>1, <1>6
<1> QED  BY <1>7 DEF n

\* At gives what was collected in the end.
LEMMA AtCollects ==
  ASSUME NEW T, NEW s \in Seq(T), NEW P
  PROVE  \E f : Collects(f, Len(s), s, P) /\ Config!At(s, P) = f[Len(s)]
<1> DEFINE f == CHOOSE g : Collects(g, Len(s), s, P)
<1>1. Len(s) \in Nat
  OBVIOUS
<1>2. Collects(f, Len(s), s, P)
  BY <1>1, CollectsExists
<1>3. Config!At(s, P) = f[Len(s)]
  BY DEF Config!At, Collects
<1> QED  BY <1>2, <1>3

\* It is of members of s.
LEMMA AtType ==
  ASSUME NEW T, NEW s \in Seq(T), NEW P
  PROVE  Config!At(s, P) \in Seq(T)
<1>1. PICK f : Collects(f, Len(s), s, P) /\ Config!At(s, P) = f[Len(s)]
  BY AtCollects
<1>2. Len(s) \in 0 .. Len(s)
  OBVIOUS
<1> QED  BY <1>1, <1>2, CollectsGrows

\* f[i] is what the first i lines make of the parser c.
ReadsLines(f, n, s, c) ==
  f = [i \in 0 .. n |-> IF i = 0 THEN c ELSE Config!ReadLine(f[i - 1], s[i])]

\* There is such a function.
LEMMA ReadsLinesExists ==
  ASSUME NEW s, NEW c, NEW n \in Nat
  PROVE  \E f : ReadsLines(f, n, s, c)
<1> DEFINE next(h, i) == IF i = 0 THEN c ELSE Config!ReadLine(h[i - 1], s[i])
           S == {m \in Nat : \E f : ReadsLines(f, m, s, c)}
<1>1. 0 \in S
  <2>1. ReadsLines([i \in 0 .. 0 |-> c], 0, s, c)
    BY DEF ReadsLines
  <2> QED  BY <2>1
<1>2. ASSUME NEW m \in S
      PROVE  m + 1 \in S
  <2>1. PICK f : ReadsLines(f, m, s, c)
    BY <1>2
  <2> DEFINE g == [i \in 0 .. m + 1 |-> IF i = m + 1 THEN next(f, i) ELSE f[i]]
  <2>2. \A i \in 0 .. m : f[i] = next(f, i)
    BY <2>1 DEF ReadsLines
  <2>3. (\A i \in 0 .. m : g[i] = f[i]) /\ g[m + 1] = next(f, m + 1)
    OBVIOUS
  <2>4. g = [i \in 0 .. m + 1 |-> g[i]]
    OBVIOUS
  <2> HIDE DEF g
  <2>5. ASSUME NEW i \in 0 .. m + 1
        PROVE  g[i] = next(g, i)
    <3>1. i # 0 => i - 1 \in 0 .. m
      OBVIOUS
    <3>2. next(g, i) = next(f, i)
      BY <2>3, <3>1
    <3>3. i = m + 1 \/ i \in 0 .. m
      OBVIOUS
    <3> HIDE DEF next
    <3> QED  BY <2>2, <2>3, <3>2, <3>3
  <2>6. ReadsLines(g, m + 1, s, c)
    BY <2>4, <2>5 DEF ReadsLines
  <2> QED  BY <2>6
<1> HIDE DEF S
<1>3. S \in SUBSET Nat
  BY DEF S
<1>4. S = Nat
  BY <1>1, <1>2, <1>3, Induction
<1> QED  BY <1>4 DEF S

\* What the lines s make of the parser c
ReadFrom(c, s) == (CHOOSE f : ReadsLines(f, Len(s), s, c))[Len(s)]

\* One line after the other
LEMMA ReadFromSteps ==
  ASSUME NEW T, NEW s \in Seq(T), NEW c
  PROVE  \E f : /\ f[0] = c
                /\ \A i \in Nat : i < Len(s) => f[i + 1] = Config!ReadLine(f[i], s[i + 1])
                /\ ReadFrom(c, s) = f[Len(s)]
<1> DEFINE n == Len(s)
           f == CHOOSE g : ReadsLines(g, n, s, c)
<1>1. n \in Nat
  OBVIOUS
<1>2. ReadsLines(f, n, s, c)
  BY <1>1, ReadsLinesExists
<1>3. ReadFrom(c, s) = f[n]
  BY DEF ReadFrom
<1> HIDE DEF f, n
<1>4. \A i \in 0 .. n : f[i] = IF i = 0 THEN c ELSE Config!ReadLine(f[i - 1], s[i])
  BY <1>2 DEF ReadsLines
<1>5. f[0] = c
  BY <1>1, <1>4
<1>6. ASSUME NEW i \in Nat, i < n
      PROVE  f[i + 1] = Config!ReadLine(f[i], s[i + 1])
  <2>1. i + 1 \in 0 .. n /\ i + 1 # 0 /\ (i + 1) - 1 = i
    BY <1>1, <1>6
  <2> QED  BY <1>4, <2>1
<1> QED  BY <1>3, <1>5, <1>6 DEF n

\* The texts.  That the empty one is a string is no fact to the provers.
Text == STRING \cup {""}

\* One more text
LEMMA OneMore ==
  ASSUME NEW T, NEW v \in Seq(T), NEW x \in T
  PROVE  /\ <<x>> \in Seq(T) /\ <<x>> # <<>> /\ Head(<<x>>) = x
         /\ Append(v, x) \in Seq(T) /\ Append(v, x) # <<>>
         /\ v # <<>> => Head(Append(v, x)) = Head(v)
<1>1. <<x>> \in Seq(T) /\ <<x>> # <<>> /\ Head(<<x>>) = x
  OBVIOUS
<1>2. /\ Append(v, x) \in Seq(T) /\ Append(v, x) # <<>>
      /\ Len(Append(v, x)) = Len(v) + 1
      /\ \A i \in 1 .. Len(v) : Append(v, x)[i] = v[i]
  BY AppendProperties
<1>3. v # <<>> => Len(v) \in Nat /\ 1 \in 1 .. Len(v)
  BY EmptySeq
<1>4. Head(Append(v, x)) = Append(v, x)[1] /\ Head(v) = v[1]
  BY DEF Head
<1> QED  BY <1>1, <1>2, <1>3, <1>4

\* What is given, with values or without
IsSetting(v) == v = None \/ (v \in Seq(Text) /\ v # <<>>)

IsSection(s) ==
  /\ DOMAIN s = {"name", "options"}
  /\ IsFiniteSet(DOMAIN s.options)
  /\ \A o \in DOMAIN s.options : IsSetting(s.options[o])

\* The parser has its fields, and its sections are in an order.  The first is what comes
\* before any header.
Parser(c) ==
  /\ DOMAIN c = {"sections", "option", "indent", "error"}
  /\ \E S : c.sections \in Seq(S)
  /\ Len(c.sections) >= 1
  /\ \A i \in 1 .. Len(c.sections) : IsSection(c.sections[i])
  /\ c.sections[1].name = "default"

\* d is c with the option o of its last section set to v.
Sets(d, c, o, v) ==
  LET n   == Len(c.sections)
      old == Config!Current(c)
      now == Config!Current(d)
  IN  /\ Len(d.sections) = n
      /\ d.option = c.option /\ d.indent = c.indent /\ d.error = c.error
      /\ \A i \in 1 .. n - 1 : d.sections[i] = c.sections[i]
      /\ d.sections[n].name = c.sections[n].name
      /\ DOMAIN now = {o} \cup DOMAIN old
      /\ now[o] = v
      /\ \A x \in DOMAIN old : x # o => now[x] = old[x]

\* An option that is set keeps the rest.
LEMMA PutSets ==
  ASSUME NEW c, Parser(c), NEW o, NEW v, IsSetting(v)
  PROVE  Parser(Config!Put(c, o, v)) /\ Sets(Config!Put(c, o, v), c, o, v)
<1>1. PICK S : c.sections \in Seq(S)
  BY DEF Parser
<1> DEFINE n == Len(c.sections)
           s == c.sections
           opts == Config!With(s[n].options, o, v)
           last == [s[n] EXCEPT !.options = opts]
           t == [s EXCEPT ![n] = last]
           d == Config!Put(c, o, v)
<1>2. d = [c EXCEPT !.sections = t]
  BY DEF Config!Put
<1>3. n \in Nat /\ n >= 1 /\ DOMAIN s = 1 .. n /\ IsSection(s[n]) /\ s[1].name = "default"
  BY <1>1 DEF Parser
<1>4. /\ DOMAIN opts = {o} \cup DOMAIN s[n].options /\ opts[o] = v
      /\ \A x \in DOMAIN s[n].options : x # o => opts[x] = s[n].options[x]
  BY DEF Config!With
<1> HIDE DEF opts
<1>5. IsFiniteSet(DOMAIN opts)
  BY <1>3, <1>4, FS_AddElement DEF IsSection
<1>6. \A x \in DOMAIN opts : IsSetting(opts[x])
  BY <1>3, <1>4 DEF IsSection
<1>7. DOMAIN last = {"name", "options"} /\ last.name = s[n].name /\ last.options = opts
  BY <1>3 DEF IsSection
<1> HIDE DEF last
<1>8. IsSection(last)
  BY <1>5, <1>6, <1>7 DEF IsSection
<1>9. t \in Seq(S \cup {last}) /\ Len(t) = n /\ t[n] = last /\ \A i \in 1 .. n : i # n => t[i] = s[i]
  <2>1. s \in [1 .. n -> S]
    BY <1>1, <1>3
  <2>2. t \in [1 .. n -> S \cup {last}] /\ t[n] = last /\ \A i \in 1 .. n : i # n => t[i] = s[i]
    BY <1>3, <2>1
  <2> HIDE DEF t, n
  <2> QED  BY <1>3, <2>2
<1> HIDE DEF t, d
<1>10. /\ DOMAIN d = {"sections", "option", "indent", "error"} /\ d.sections = t
       /\ d.option = c.option /\ d.indent = c.indent /\ d.error = c.error
  BY <1>2 DEF Parser
<1> HIDE DEF n, s
<1>11. \A i \in 1 .. n : IsSection(s[i])
  BY DEF Parser, n, s
<1>12. \A i \in 1 .. n : IsSection(t[i])
  BY <1>8, <1>9, <1>11
<1>13. t[1].name = "default"
  BY <1>3, <1>7, <1>9
<1>14. Parser(d)
  <2>1. \E X : d.sections \in Seq(X)
    BY <1>9, <1>10
  <2> QED  BY <1>3, <1>9, <1>10, <1>12, <1>13, <2>1 DEF Parser
<1>15. Config!Current(d) = opts /\ Config!Current(c) = s[n].options
  BY <1>7, <1>9, <1>10 DEF Config!Current, Config!Last, n, s
<1>16. \A i \in 1 .. n - 1 : d.sections[i] = s[i]
  BY <1>3, <1>9, <1>10
<1>17. Sets(d, c, o, v)
  BY <1>4, <1>7, <1>9, <1>10, <1>15, <1>16 DEF Sets, n, s
<1> QED  BY <1>14, <1>17 DEF d

\* One more value of an option makes it a sequence that begins as before.
LEMMA ValueAdded ==
  ASSUME NEW c, Parser(c), NEW o, NEW v \in Text
  PROVE  LET d   == Config!AddValue(c, o, v)
             old == Config!Current(c)
         IN  /\ Parser(d)
             /\ o \notin DOMAIN old => Sets(d, c, o, <<v>>)
             /\ o \in DOMAIN old /\ old[o] # None =>
                  Sets(d, c, o, Append(old[o], v)) /\ old[o] \in Seq(Text) /\ old[o] # <<>>
<1> DEFINE d == Config!AddValue(c, o, v)
           old == Config!Current(c)
<1>1. \A x \in DOMAIN old : IsSetting(old[x])
  <2>1. IsSection(c.sections[Len(c.sections)])
    <3>1. Len(c.sections) \in 1 .. Len(c.sections)
      BY DEF Parser
    <3> QED  BY <3>1 DEF Parser
  <2> QED  BY <2>1 DEF IsSection, Config!Current, Config!Last
<1>2. CASE o \notin DOMAIN old
  <2>1. IsSetting(<<v>>)
    BY OneMore, <<>> \in Seq(Text) DEF IsSetting
  <2>2. d = Config!Put(c, o, <<v>>)
    BY <1>2 DEF Config!AddValue
  <2> QED  BY <1>2, <2>1, <2>2, PutSets
<1>3. CASE o \in DOMAIN old /\ old[o] # None
  <2>1. old[o] \in Seq(Text) /\ old[o] # <<>>
    BY <1>1, <1>3 DEF IsSetting
  <2> HIDE DEF old
  <2>2. IsSetting(Append(old[o], v))
    BY <2>1, OneMore DEF IsSetting
  <2>3. d = Config!Put(c, o, Append(old[o], v))
    BY <1>3 DEF Config!AddValue, old
  <2> HIDE DEF d
  <2> QED  BY <1>3, <2>1, <2>2, <2>3, PutSets DEF d, old
<1>4. CASE o \in DOMAIN old /\ old[o] = None
  <2>1. d = [c EXCEPT !.error = "crash"]
    BY <1>4 DEF Config!AddValue
  <2> HIDE DEF d
  <2>2. DOMAIN d = {"sections", "option", "indent", "error"} /\ d.sections = c.sections
    BY <2>1 DEF Parser
  <2>3. Parser(d)
    BY <2>2 DEF Parser
  <2> QED  BY <1>4, <2>3 DEF d, old
<1> QED  BY <1>2, <1>3, <1>4

\* The other fields may change.
LEMMA FieldKeeps ==
  ASSUME NEW c, Parser(c), NEW x
  PROVE  /\ Parser([c EXCEPT !.option = x])
         /\ Parser([c EXCEPT !.indent = x])
         /\ Parser([c EXCEPT !.error = x])
<1>1. ASSUME NEW d, DOMAIN d = DOMAIN c, d.sections = c.sections
      PROVE  Parser(d)
  BY <1>1 DEF Parser
<1>2. /\ DOMAIN [c EXCEPT !.option = x] = DOMAIN c /\ [c EXCEPT !.option = x].sections = c.sections
      /\ DOMAIN [c EXCEPT !.indent = x] = DOMAIN c /\ [c EXCEPT !.indent = x].sections = c.sections
      /\ DOMAIN [c EXCEPT !.error = x] = DOMAIN c /\ [c EXCEPT !.error = x].sections = c.sections
  BY DEF Parser
<1> QED  BY <1>1, <1>2

\* A header begins a section.
LEMMA HeaderAdds ==
  ASSUME NEW c, Parser(c), NEW name
  PROVE  LET h == Config!Header(c, name)
             n == Len(c.sections)
         IN  /\ Parser(h)
             /\ Len(h.sections) = n + 1
             /\ \A i \in 1 .. n : h.sections[i] = c.sections[i]
             /\ h.sections[n + 1].name = name
             /\ DOMAIN Config!Current(h) = {}
             /\ h.option = None /\ h.indent = c.indent /\ h.error = c.error
<1>1. PICK S : c.sections \in Seq(S)
  BY DEF Parser
<1> DEFINE new == [name |-> name, options |-> <<>>]
           s == c.sections
           n == Len(s)
           t == Append(s, new)
           h == Config!Header(c, name)
<1>2. h = [c EXCEPT !.sections = t, !.option = None]
  BY DEF Config!Header
<1>3. IsSection(new) /\ new.name = name /\ DOMAIN new.options = {}
  <2>1. DOMAIN new = {"name", "options"} /\ new.options = <<>> /\ DOMAIN <<>> = {} /\ new.name = name
    OBVIOUS
  <2> HIDE DEF new
  <2> QED  BY <2>1, FS_EmptySet DEF IsSection
<1> HIDE DEF new
<1>4. /\ t \in Seq(S \cup {new}) /\ Len(t) = n + 1 /\ t[n + 1] = new /\ n \in Nat
      /\ \A i \in 1 .. n : t[i] = s[i]
  BY <1>1
<1> HIDE DEF t, h
<1>5. /\ DOMAIN h = {"sections", "option", "indent", "error"} /\ h.sections = t
      /\ h.option = None /\ h.indent = c.indent /\ h.error = c.error
  BY <1>2 DEF Parser
<1>6. n >= 1 /\ (\A i \in 1 .. n : IsSection(s[i])) /\ s[1].name = "default"
  BY DEF Parser
<1> HIDE DEF n, s
<1>7. \A i \in 1 .. n + 1 : IsSection(t[i])
  BY <1>3, <1>4, <1>6
<1>8. t[1].name = "default"
  BY <1>4, <1>6
<1>9. Parser(h)
  <2>1. \E X : h.sections \in Seq(X)
    BY <1>4, <1>5
  <2> QED  BY <1>4, <1>5, <1>6, <1>7, <1>8, <2>1 DEF Parser
<1>10. DOMAIN Config!Current(h) = {}
  BY <1>3, <1>4, <1>5 DEF Config!Current, Config!Last
<1> QED  BY <1>3, <1>4, <1>5, <1>9, <1>10 DEF h, n, s

\* A line that is made of texts keeps the parser.
LEMMA ReadLineKeeps ==
  ASSUME NEW c, Parser(c), NEW l, l.name \in Text, l.value \in Text
  PROVE  Parser(Config!ReadLine(c, l))
<1> DEFINE d == [c EXCEPT !.indent = l.indent]
<1>1. Parser(d)
  BY FieldKeeps
<1>2. Parser(Config!BlankLine(c))
  <2>1. Parser(Config!AddValue(c, c.option, ""))
    BY ValueAdded DEF Text
  <2> QED  BY <2>1 DEF Config!BlankLine
<1>3. Parser(Config!AddValue(c, c.option, l.name))
  BY ValueAdded
<1> HIDE DEF d
<1>4. Parser(Config!Header(d, l.name))
  BY <1>1, HeaderAdds
<1>5. Parser(Config!Bogus(d))
  <2> DEFINE e == [d EXCEPT !.error = "bogus"]
  <2>1. Parser(e)
    BY <1>1, FieldKeeps
  <2>2. Config!Bogus(d) = [e EXCEPT !.option = None]
    BY <1>1 DEF Config!Bogus, Parser
  <2> HIDE DEF e
  <2>3. Parser([e EXCEPT !.option = None])
    BY <2>1, FieldKeeps
  <2> QED  BY <2>2, <2>3
<1>6. Parser(Config!Option(d, l))
  <2>1. IsSetting(None)
    BY DEF IsSetting
  <2>2. Parser(Config!Put(d, l.name, None)) /\ Parser(Config!AddValue(d, l.name, l.value))
    BY <1>1, <2>1, PutSets, ValueAdded
  <2> QED  BY <2>2, FieldKeeps DEF Config!Option
<1>7. Config!ReadLine(c, l) \in {c, Config!BlankLine(c), Config!AddValue(c, c.option, l.name),
                                 Config!Header(d, l.name), Config!Bogus(d), Config!Option(d, l)}
  BY DEF Config!ReadLine, d
<1> QED  BY <1>2, <1>3, <1>4, <1>5, <1>6, <1>7

\* A file before its first line
LEMMA EmptyParser ==
  /\ Parser(Config!Empty)
  /\ Len(Config!Empty.sections) = 1 /\ DOMAIN Config!Current(Config!Empty) = {}
  /\ Config!Empty.option = None /\ Config!Empty.indent = 0 /\ Config!Empty.error = "none"
<1> DEFINE first == [name |-> "default", options |-> <<>>]
           e == Config!Empty
<1>1. e = [sections |-> <<first>>, option |-> None, indent |-> 0, error |-> "none"]
  BY DEF Config!Empty
<1>2. IsSection(first) /\ first.name = "default" /\ DOMAIN first.options = {}
  <2>1. DOMAIN first = {"name", "options"} /\ first.options = <<>> /\ DOMAIN <<>> = {} /\ first.name = "default"
    OBVIOUS
  <2> HIDE DEF first
  <2> QED  BY <2>1, FS_EmptySet DEF IsSection
<1> HIDE DEF first, e
<1>3. /\ e.sections \in Seq({first}) /\ Len(e.sections) = 1 /\ e.sections[1] = first
      /\ DOMAIN e = {"sections", "option", "indent", "error"}
      /\ e.option = None /\ e.indent = 0 /\ e.error = "none"
  BY <1>1
<1>4. \A i \in 1 .. Len(e.sections) : IsSection(e.sections[i])
  BY <1>2, <1>3
<1>5. Parser(e)
  <2>1. \E X : e.sections \in Seq(X)
    BY <1>3
  <2> QED  BY <1>2, <1>3, <1>4, <2>1 DEF Parser
<1>6. DOMAIN Config!Current(e) = {}
  BY <1>2, <1>3 DEF Config!Current, Config!Last
<1> QED  BY <1>3, <1>5, <1>6 DEF e

\* A file made of texts
LinesOfText == [kind : STRING, indent : Nat, name : STRING, value : STRING]

\* So it is after many lines.
LEMMA ReadKeeps ==
  ASSUME NEW s \in Seq(LinesOfText), NEW c, Parser(c)
  PROVE  Parser(ReadFrom(c, s))
<1> DEFINE n == Len(s)
<1>1. n \in Nat /\ \A i \in 1 .. n : s[i] \in LinesOfText
  OBVIOUS
<1>2. PICK f : /\ f[0] = c
               /\ \A i \in Nat : i < n => f[i + 1] = Config!ReadLine(f[i], s[i + 1])
               /\ ReadFrom(c, s) = f[n]
  BY ReadFromSteps
<1> DEFINE S == {m \in Nat : m <= n => Parser(f[m])}
<1> HIDE DEF n
<1>3. 0 \in S
  BY <1>2
<1>4. ASSUME NEW m \in S
      PROVE  m + 1 \in S
  <2> SUFFICES ASSUME m + 1 <= n PROVE Parser(f[m + 1])
    OBVIOUS
  <2>1. m \in Nat /\ m < n /\ m <= n /\ m + 1 \in 1 .. n
    BY <1>1
  <2>2. s[m + 1].name \in Text /\ s[m + 1].value \in Text
    BY <1>1, <2>1 DEF LinesOfText, Text
  <2>3. f[m + 1] = Config!ReadLine(f[m], s[m + 1])
    BY <1>2, <2>1
  <2>4. Parser(f[m])
    BY <2>1
  <2> QED  BY <2>2, <2>3, <2>4, ReadLineKeeps
<1>5. S \in SUBSET Nat
  OBVIOUS
<1> HIDE DEF S
<1>6. S = Nat
  BY <1>3, <1>4, <1>5, Induction
<1>7. n \in S
  BY <1>1, <1>6
<1> QED  BY <1>1, <1>2, <1>7 DEF S

\* A file is read line by line.
LEMMA ReadIsReadFrom ==
  ASSUME NEW s
  PROVE  Config!Read(s) = ReadFrom(Config!Empty, s)
BY DEF Config!Read, ReadFrom, ReadsLines

\* The parser has read the first lines,
LEMMA ParserInit == Init => Parser(config)
<1> SUFFICES ASSUME Init PROVE Parser(config)
  OBVIOUS
<1>1. PICK lines \in Beginnings : config = Config!Read(lines)
  BY DEF Init, Config!Init
<1>2. lines \in Seq(LinesOfText)
  BY ConfigAssumption DEF LinesOfText
<1> QED  BY <1>1, <1>2, ReadIsReadFrom, EmptyParser, ReadKeeps

\* and then one line in each step.
LEMMA ParserStep == Parser(config) /\ [Next]_vars => Parser(config)'
<1> SUFFICES ASSUME Parser(config), [Next]_vars
             PROVE  Parser(config')
  BY DEF Parser
<1>1. CASE UNCHANGED file
  BY <1>1 DEF file
<1>2. CASE Config!Next
  <2>1. PICK l \in Lines : config' = Config!ReadLine(config, l)
    BY <1>2 DEF Config!Next, Config!NextLine
  <2>2. l.name \in Text /\ l.value \in Text
    BY ConfigAssumption DEF Text
  <2> QED  BY <2>1, <2>2, ReadLineKeeps
<1> QED  BY <1>1, <1>2 DEF Next, vars

\* What there is before the first of the sections s
NoProblems(c, s) ==
  [last |-> 0, problems |-> <<>>, abstract |-> <<>>,
   failed |-> \/ c.error # "none" \/ s = <<>>
             \/ Config!NoValue(c.sections[1].options, "test_dir")]

\* f[i] is what the first i of the sections make of the contest.
TakesSections(f, n, c, s) ==
  f = [i \in 0 .. n |-> IF i = 0 THEN NoProblems(c, s)
                        ELSE Config!NextProblem(c, f[i - 1], s[i].options)]

\* There is such a function.
LEMMA TakesSectionsExists ==
  ASSUME NEW c, NEW s, NEW n \in Nat
  PROVE  \E f : TakesSections(f, n, c, s)
<1> DEFINE next(h, i) == IF i = 0 THEN NoProblems(c, s)
                         ELSE Config!NextProblem(c, h[i - 1], s[i].options)
           S == {m \in Nat : \E f : TakesSections(f, m, c, s)}
<1>1. 0 \in S
  <2>1. TakesSections([i \in 0 .. 0 |-> NoProblems(c, s)], 0, c, s)
    BY DEF TakesSections
  <2> QED  BY <2>1
<1>2. ASSUME NEW m \in S
      PROVE  m + 1 \in S
  <2>1. PICK f : TakesSections(f, m, c, s)
    BY <1>2
  <2> DEFINE g == [i \in 0 .. m + 1 |-> IF i = m + 1 THEN next(f, i) ELSE f[i]]
  <2>2. \A i \in 0 .. m : f[i] = next(f, i)
    BY <2>1 DEF TakesSections
  <2>3. (\A i \in 0 .. m : g[i] = f[i]) /\ g[m + 1] = next(f, m + 1)
    OBVIOUS
  <2>4. g = [i \in 0 .. m + 1 |-> g[i]]
    OBVIOUS
  <2> HIDE DEF g
  <2>5. ASSUME NEW i \in 0 .. m + 1
        PROVE  g[i] = next(g, i)
    <3>1. i # 0 => i - 1 \in 0 .. m
      OBVIOUS
    <3>2. next(g, i) = next(f, i)
      BY <2>3, <3>1
    <3>3. i = m + 1 \/ i \in 0 .. m
      OBVIOUS
    <3> HIDE DEF next
    <3> QED  BY <2>2, <2>3, <3>2, <3>3
  <2>6. TakesSections(g, m + 1, c, s)
    BY <2>4, <2>5 DEF TakesSections
  <2> QED  BY <2>6
<1> HIDE DEF S
<1>3. S \in SUBSET Nat
  BY DEF S
<1>4. S = Nat
  BY <1>1, <1>2, <1>3, Induction
<1> QED  BY <1>4 DEF S

\* The id of a problem: the one it names, or the one after that of the problem before
IdAfter(d, last) == IF Config!Has(d, "id") THEN Number[Config!First(d, "id")] ELSE last + 1

\* f[i] is the id of the i-th problem.
GivesIds(f, n, own) ==
  f = [i \in 0 .. n |-> IF i = 0 THEN 0 ELSE IdAfter(own[i].options, f[i - 1])]

\* There is such a function.
LEMMA GivesIdsExists ==
  ASSUME NEW s, NEW n \in Nat
  PROVE  \E f : GivesIds(f, n, s)
<1> DEFINE next(h, i) == IF i = 0 THEN 0 ELSE IdAfter(s[i].options, h[i - 1])
           S == {m \in Nat : \E f : GivesIds(f, m, s)}
<1>1. 0 \in S
  <2>1. GivesIds([i \in 0 .. 0 |-> 0], 0, s)
    BY DEF GivesIds
  <2> QED  BY <2>1
<1>2. ASSUME NEW m \in S
      PROVE  m + 1 \in S
  <2>1. PICK f : GivesIds(f, m, s)
    BY <1>2
  <2> DEFINE g == [i \in 0 .. m + 1 |-> IF i = m + 1 THEN next(f, i) ELSE f[i]]
  <2>2. \A i \in 0 .. m : f[i] = next(f, i)
    BY <2>1 DEF GivesIds
  <2>3. (\A i \in 0 .. m : g[i] = f[i]) /\ g[m + 1] = next(f, m + 1)
    OBVIOUS
  <2>4. g = [i \in 0 .. m + 1 |-> g[i]]
    OBVIOUS
  <2> HIDE DEF g
  <2>5. ASSUME NEW i \in 0 .. m + 1
        PROVE  g[i] = next(g, i)
    <3>1. i # 0 => i - 1 \in 0 .. m
      OBVIOUS
    <3>2. next(g, i) = next(f, i)
      BY <2>3, <3>1
    <3>3. i = m + 1 \/ i \in 0 .. m
      OBVIOUS
    <3> HIDE DEF next
    <3> QED  BY <2>2, <2>3, <3>2, <3>3
  <2>6. GivesIds(g, m + 1, s)
    BY <2>4, <2>5 DEF GivesIds
  <2> QED  BY <2>6
<1> HIDE DEF S
<1>3. S \in SUBSET Nat
  BY DEF S
<1>4. S = Nat
  BY <1>1, <1>2, <1>3, Induction
<1> QED  BY <1>4 DEF S

\* acc has the first m problems of own, under the ids of id, the later of two with one id.
HasProblems(acc, id, own, m) ==
  /\ acc.last = id[m]
  /\ DOMAIN acc.problems = {id[k] : k \in 1 .. m}
  /\ \A k \in 1 .. m :
       Config!Has(own[k].options, "short_name") /\ (\A j \in 1 .. m : j > k => id[j] # id[k])
         => acc.problems[id[k]].short_name = Config!First(own[k].options, "short_name")

\* One more problem
LEMMA ProblemMore ==
  ASSUME NEW c, NEW acc, NEW id, NEW own, NEW m \in Nat,
         DOMAIN acc = {"last", "problems", "abstract", "failed"},
         ~acc.failed, HasProblems(acc, id, own, m),
         NEW d, own[m + 1].options = d, ~Config!Has(d, "abstract"),
         id[m + 1] = IdAfter(d, id[m]),
         ~Config!NextProblem(c, acc, d).failed
  PROVE  HasProblems(Config!NextProblem(c, acc, d), id, own, m + 1)
<1> DEFINE new == id[m + 1]
           p == Config!Problem(c, d, acc.abstract, new)
           next == Config!NextProblem(c, acc, d)
           problems == Config!With(acc.problems, new, p)
<1>1. acc.last = id[m]
  BY DEF HasProblems
<1>2. next = IF Config!NoValue(d, "id") \/ Config!Broken(d, acc.abstract)
             THEN [acc EXCEPT !.failed = TRUE]
             ELSE [acc EXCEPT !.last = new, !.problems = problems]
  BY <1>1 DEF Config!NextProblem, IdAfter
<1> HIDE DEF next, problems
<1>3. next = [acc EXCEPT !.last = new, !.problems = problems]
  <2>1. [acc EXCEPT !.failed = TRUE].failed
    OBVIOUS
  <2> QED  BY <1>2, <2>1 DEF next
<1>4. next.last = new /\ next.problems = problems
  BY <1>3
<1> HIDE DEF p, new
<1>5. /\ DOMAIN problems = {new} \cup DOMAIN acc.problems
      /\ problems[new] = p
      /\ \A x \in DOMAIN acc.problems : x # new => problems[x] = acc.problems[x]
  BY DEF problems, Config!With
<1>6. Config!Has(d, "short_name") => p.short_name = Config!First(d, "short_name")
  BY DEF p, Config!Problem
<1>7. 1 .. m + 1 = (1 .. m) \cup {m + 1} /\ \A k \in 1 .. m : m + 1 > k
  OBVIOUS
<1>8. DOMAIN problems = {id[k] : k \in 1 .. m + 1}
  BY <1>5, <1>7 DEF HasProblems, new
<1>9. ASSUME NEW k \in 1 .. m + 1, Config!Has(own[k].options, "short_name"),
             \A j \in 1 .. m + 1 : j > k => id[j] # id[k]
      PROVE  problems[id[k]].short_name = Config!First(own[k].options, "short_name")
  <2>1. CASE k = m + 1
    BY <1>5, <1>6, <1>9, <2>1 DEF new
  <2>2. CASE k \in 1 .. m
    <3>1. id[k] # new
      BY <1>7, <1>9, <2>2 DEF new
    <3>2. id[k] \in DOMAIN acc.problems
      BY <2>2 DEF HasProblems
    <3>3. acc.problems[id[k]].short_name = Config!First(own[k].options, "short_name")
      BY <1>7, <1>9, <2>2 DEF HasProblems
    <3> QED  BY <1>5, <3>1, <3>2, <3>3
  <2> QED  BY <1>7, <2>1, <2>2
<1> QED  BY <1>4, <1>8, <1>9 DEF HasProblems, new, next

\* An abstract problem is none of the contest.
LEMMA AbstractMore ==
  ASSUME NEW c, NEW acc, NEW id, NEW own, NEW m,
         DOMAIN acc = {"last", "problems", "abstract", "failed"},
         ~acc.failed, HasProblems(acc, id, own, m), NEW d, Config!Has(d, "abstract")
  PROVE  HasProblems(Config!NextProblem(c, acc, d), id, own, m)
<1> DEFINE next == Config!NextProblem(c, acc, d)
           known == Config!With(acc.abstract, Config!First(d, "short_name"), d)
<1>1. next \in {[acc EXCEPT !.failed = TRUE], [acc EXCEPT !.abstract = known]}
  BY DEF Config!NextProblem
<1> HIDE DEF next, known
<1>2. next.last = acc.last /\ next.problems = acc.problems
  BY <1>1
<1> QED  BY <1>2 DEF HasProblems, next

\* After each section the contest has its fields, and a failure stays.
LEMMA NextProblemKeeps ==
  ASSUME NEW c, NEW acc, NEW d, DOMAIN acc = {"last", "problems", "abstract", "failed"}
  PROVE  /\ DOMAIN Config!NextProblem(c, acc, d) = DOMAIN acc
         /\ acc.failed => Config!NextProblem(c, acc, d).failed
<1> DEFINE new == IF Config!Has(d, "id") THEN Number[Config!First(d, "id")] ELSE acc.last + 1
           next == Config!NextProblem(c, acc, d)
           known == Config!With(acc.abstract, Config!First(d, "short_name"), d)
           problems == Config!With(acc.problems, new, Config!Problem(c, d, acc.abstract, new))
<1>1. next \in {acc, [acc EXCEPT !.failed = TRUE], [acc EXCEPT !.abstract = known],
                [acc EXCEPT !.last = new, !.problems = problems]}
  BY DEF Config!NextProblem
<1>2. acc.failed => next = acc
  BY DEF Config!NextProblem
<1> HIDE DEF next, known, new, problems
<1>3. DOMAIN next = DOMAIN acc
  BY <1>1
<1> QED  BY <1>2, <1>3 DEF next

\* What the contest is made of
LEMMA ContestFound == Parser(config) => ProblemsAreFound
<1> SUFFICES ASSUME Parser(config) PROVE ProblemsAreFound
  OBVIOUS
<1> DEFINE s == Config!ProblemSections(config)
           n == Len(s)
           Q == {i \in DOMAIN s : ~Config!Has(s[i].options, "abstract")}
           own == Config!At(s, Q)
           f == CHOOSE g : TakesSections(g, n, config, s)
           id == CHOOSE g : GivesIds(g, Len(own), own)
<1>1. PICK T : config.sections \in Seq(T)
  BY DEF Parser
<1>2. s \in Seq(T)
  BY <1>1, AtType DEF Config!ProblemSections, Config!Named
<1>3. PICK u : Collects(u, n, s, Q) /\ own = u[n]
  BY <1>2, AtCollects
<1>4. n \in Nat /\ DOMAIN s = 1 .. n
  BY <1>2
<1>5. \A i \in 0 .. n : u[i] \in Seq(T) /\ BeginsWith(own, u[i])
  <2> HIDE DEF Q, own, s
  <2> QED  BY <1>2, <1>3, CollectsGrows
<1>6. /\ u[0] = <<>>
      /\ \A i \in Nat : i < n => u[i + 1] = IF i + 1 \in Q THEN Append(u[i], s[i + 1]) ELSE u[i]
  <2>1. Collects(u, n, s, Q) /\ n \in Nat
    BY <1>3, <1>4
  <2> HIDE DEF Q, n, s, own, f, id
  <2> QED  BY <2>1, CollectsValues
<1>7. Len(own) \in Nat
  <2>1. n \in 0 .. n
    BY <1>4
  <2> HIDE DEF own
  <2> QED  BY <1>3, <1>5, <2>1
<1>8. TakesSections(f, n, config, s) /\ Config!Contest(config) = f[n]
  <2>1. TakesSections(f, n, config, s)
    <3> HIDE DEF n, s
    <3> QED  BY <1>4, TakesSectionsExists
  <2>2. Config!Contest(config) = f[n]
    BY DEF Config!Contest, TakesSections, NoProblems
  <2> QED  BY <2>1, <2>2
<1>9. GivesIds(id, Len(own), own)
  <2> HIDE DEF own
  <2> QED  BY <1>7, GivesIdsExists
<1>10. ProblemsAreFound =
         LET problems == Config!Contest(config).problems IN
         ~Config!Contest(config).failed =>
           /\ DOMAIN problems = {id[i] : i \in DOMAIN own}
           /\ \A i \in DOMAIN own :
                Config!Has(own[i].options, "short_name") /\ (\A j \in DOMAIN own : j > i => id[j] # id[i])
                  => problems[id[i]].short_name = Config!First(own[i].options, "short_name")
  BY DEF ProblemsAreFound, Config!ProblemsAreFound, GivesIds, IdAfter
<1> HIDE DEF f, id
<1>11. \A i \in 0 .. Len(own) : id[i] = IF i = 0 THEN 0 ELSE IdAfter(own[i].options, id[i - 1])
  <2> HIDE DEF own
  <2> QED  BY <1>9 DEF GivesIds
<1>12. \A i \in 0 .. n : f[i] = IF i = 0 THEN NoProblems(config, s)
                               ELSE Config!NextProblem(config, f[i - 1], s[i].options)
  <2> HIDE DEF n, s
  <2> QED  BY <1>8 DEF TakesSections
<1> HIDE DEF own, n, s, Q
<1> DEFINE Good(i) == /\ DOMAIN f[i] = {"last", "problems", "abstract", "failed"}
                      /\ ~f[i].failed => HasProblems(f[i], id, own, Len(u[i]))
           S == {i \in Nat : i <= n => Good(i)}
<1>13. Good(0)
  <2>1. f[0] = NoProblems(config, s)
    BY <1>4, <1>12
  <2>2. Len(u[0]) = 0 /\ id[0] = 0
    BY <1>6, <1>7, <1>11
  <2>3. /\ DOMAIN f[0] = {"last", "problems", "abstract", "failed"}
        /\ f[0].last = 0 /\ f[0].problems = <<>>
    BY <2>1 DEF NoProblems
  <2>4. DOMAIN <<>> = {} /\ 1 .. 0 = {}
    OBVIOUS
  <2>5. HasProblems(f[0], id, own, 0)
    BY <2>2, <2>3, <2>4 DEF HasProblems
  <2> QED  BY <2>2, <2>3, <2>5
<1>14. ASSUME NEW i \in Nat, i < n, Good(i)
       PROVE  Good(i + 1)
  <2> DEFINE d == s[i + 1].options
             m == Len(u[i])
  <2>1. i + 1 \in 0 .. n /\ i \in 0 .. n /\ i + 1 # 0 /\ (i + 1) - 1 = i /\ i + 1 \in DOMAIN s
    BY <1>4, <1>14
  <2>2. f[i + 1] = Config!NextProblem(config, f[i], d)
    BY <1>12, <2>1
  <2>3. /\ DOMAIN f[i + 1] = {"last", "problems", "abstract", "failed"}
        /\ f[i].failed => f[i + 1].failed
    BY <1>14, <2>2, NextProblemKeeps
  <2>4. ASSUME ~f[i + 1].failed
        PROVE  HasProblems(f[i + 1], id, own, Len(u[i + 1]))
    <3>1. ~f[i].failed /\ HasProblems(f[i], id, own, m)
      BY <1>14, <2>3, <2>4
    <3>2. CASE i + 1 \notin Q
      <4>1. u[i + 1] = u[i]
        BY <1>6, <1>14, <3>2
      <4>2. Config!Has(d, "abstract")
        BY <2>1, <3>2 DEF Q
      <4> QED  BY <1>14, <2>2, <3>1, <4>1, <4>2, AbstractMore
    <3>3. CASE i + 1 \in Q
      <4>1. u[i + 1] = Append(u[i], s[i + 1])
        BY <1>6, <1>14, <3>3
      <4>2. ~Config!Has(d, "abstract")
        BY <3>3 DEF Q
      <4>3. u[i] \in Seq(T) /\ BeginsWith(own, u[i + 1])
        BY <1>5, <2>1
      <4>4. Len(u[i + 1]) = m + 1 /\ m \in Nat /\ u[i + 1][m + 1] = s[i + 1]
        BY <4>1, <4>3
      <4>5. m + 1 \in 0 .. Len(own) /\ own[m + 1] = s[i + 1]
        BY <1>7, <4>3, <4>4 DEF BeginsWith
      <4>6. id[m + 1] = IdAfter(d, id[m])
        <5>1. m + 1 # 0 /\ (m + 1) - 1 = m
          BY <4>4
        <5> QED  BY <1>11, <4>5, <5>1
      <4>7. HasProblems(Config!NextProblem(config, f[i], d), id, own, m + 1)
        <5> HIDE DEF m
        <5> QED  BY <1>14, <2>2, <2>4, <3>1, <4>2, <4>4, <4>5, <4>6, ProblemMore
      <4> QED  BY <2>2, <4>4, <4>7
    <3> QED  BY <3>2, <3>3
  <2> QED  BY <2>3, <2>4
<1>15. S = Nat
  <2> HIDE DEF Good
  <2>1. 0 \in S /\ S \in SUBSET Nat
    BY <1>13
  <2>2. ASSUME NEW m \in S PROVE m + 1 \in S
    <3>1. m + 1 <= n => m < n /\ m <= n
      BY <1>4
    <3> QED  BY <1>14, <3>1
  <2> HIDE DEF S
  <2> QED  BY <2>1, <2>2, Induction
<1>16. Good(n)
  <2> HIDE DEF Good
  <2>1. n \in S
    BY <1>4, <1>15
  <2> QED  BY <1>4, <2>1
<1>17. DOMAIN own = 1 .. Len(own)
  <2>1. n \in 0 .. n
    BY <1>4
  <2>2. own \in Seq(T)
    BY <1>3, <1>5, <2>1
  <2> QED  BY <2>2
<1> QED  BY <1>3, <1>8, <1>10, <1>16, <1>17 DEF HasProblems

\* Every problem of a contest is found under the id it names, or else the one after that
\* of the problem before it, in a file of any length (EjudgeContestCfg.initProblem).
THEOREM ProblemsAreAtTheirIds == Spec => []ProblemsAreFound
BY ContestFound, ParserInit, ParserStep, PTL DEF Spec

-----------------------------------------------------------------------------
(***************************************************************************)
(* A configuration that is printed and read again. The parser that reads   *)
(* the printed lines gets the same sections, in the order of their names,  *)
(* and finds the same at the head of each option; and of such sections the *)
(* same problems are made. First: lines that are read text by text.        *)
(***************************************************************************)

\* f[i] is the first i members of s, one after the other.
Joins(f, n, s) == f = [i \in 1 .. n |-> IF i = 1 THEN s[i] ELSE f[i - 1] \o s[i]]

\* The members of s, one after the other (FlattenSeq)
Joined(s) == IF Len(s) = 0 THEN s ELSE (CHOOSE f : Joins(f, Len(s), s))[Len(s)]

\* There is such a function.
LEMMA JoinsExists ==
  ASSUME NEW s, NEW n \in Nat
  PROVE  \E f : Joins(f, n, s)
<1> DEFINE S == {m \in Nat : \E f : Joins(f, m, s)}
<1>1. 0 \in S
  <2> DEFINE f == [i \in 1 .. 0 |-> IF i = 1 THEN s[i] ELSE <<>> \o s[i]]
  <2>1. Joins(f, 0, s)
    BY DEF Joins
  <2> QED  BY <2>1
<1>2. ASSUME NEW m \in S
      PROVE  m + 1 \in S
  <2>1. PICK f : Joins(f, m, s)
    BY <1>2
  <2> DEFINE next(h, i) == IF i = 1 THEN s[i] ELSE h[i - 1] \o s[i]
             g == [i \in 1 .. m + 1 |-> IF i = m + 1 THEN next(f, i) ELSE f[i]]
  <2>2. Joins(g, m + 1, s)
    <3>1. \A i \in 1 .. m : f[i] = next(f, i)
      BY <2>1 DEF Joins
    <3>2. \A i \in 1 .. m : g[i] = f[i]
      OBVIOUS
    <3>3. g[m + 1] = next(f, m + 1)
      OBVIOUS
    <3>4. g = [i \in 1 .. m + 1 |-> g[i]]
      OBVIOUS
    <3> HIDE DEF g
    <3>5. ASSUME NEW i \in 1 .. m + 1
          PROVE  g[i] = next(g, i)
      <4>1. i # 1 => i - 1 \in 1 .. m
        OBVIOUS
      <4>2. next(g, i) = next(f, i)
        BY <3>2, <4>1
      <4>3. i = m + 1 \/ i \in 1 .. m
        OBVIOUS
      <4> HIDE DEF next
      <4> QED  BY <3>1, <3>2, <3>3, <4>2, <4>3
    <3> QED  BY <3>4, <3>5 DEF Joins
  <2> QED  BY <2>2
<1> HIDE DEF S
<1>3. S = Nat
  <2>1. S \in SUBSET Nat
    BY DEF S
  <2> QED  BY <1>1, <1>2, <2>1, Induction
<1> QED  BY <1>3 DEF S

\* What is joined grows by one member after the other.
LEMMA JoinedGrows ==
  ASSUME NEW T, NEW s \in Seq(Seq(T))
  PROVE  \E f : /\ f[0] = <<>>
                /\ \A i \in Nat : i < Len(s) => f[i + 1] = f[i] \o s[i + 1]
                /\ \A i \in 0 .. Len(s) : f[i] \in Seq(T)
                /\ Joined(s) = f[Len(s)]
<1> DEFINE n == Len(s)
           g == CHOOSE h : Joins(h, n, s)
           f == [i \in 0 .. n |-> IF i = 0 THEN <<>> ELSE g[i]]
<1>1. n \in Nat /\ \A i \in 1 .. n : s[i] \in Seq(T)
  OBVIOUS
<1>2. Joins(g, n, s)
  BY <1>1, JoinsExists
<1>3. n # 0 => Joined(s) = g[n]
  BY DEF Joined
<1>4. n = 0 => Joined(s) = <<>>
  BY DEF Joined
<1> HIDE DEF n, g
<1>5. \A i \in 1 .. n : g[i] = IF i = 1 THEN s[i] ELSE g[i - 1] \o s[i]
  BY <1>2 DEF Joins
<1>6. f[0] = <<>> /\ \A i \in 1 .. n : f[i] = g[i]
  BY <1>1
<1> HIDE DEF f
<1>7. ASSUME NEW i \in Nat, i < n
      PROVE  f[i + 1] = f[i] \o s[i + 1]
  <2>1. i + 1 \in 1 .. n /\ (i + 1) - 1 = i
    BY <1>1, <1>7
  <2>2. f[i + 1] = g[i + 1] /\ s[i + 1] \in Seq(T)
    BY <1>1, <1>6, <2>1
  <2>3. CASE i = 0
    <3>1. g[i + 1] = s[i + 1]
      BY <1>5, <2>1, <2>3
    <3>2. <<>> \o s[i + 1] = s[i + 1]
      BY <2>2
    <3> QED  BY <1>6, <2>2, <2>3, <3>1, <3>2
  <2>4. CASE i # 0
    <3>1. i \in 1 .. n /\ i + 1 # 1
      BY <1>1, <1>7, <2>4
    <3> QED  BY <1>5, <1>6, <2>1, <2>2, <3>1
  <2> QED  BY <2>3, <2>4
<1> DEFINE Good(i) == f[i] \in Seq(T)
           S == {i \in Nat : i <= n => Good(i)}
<1>8. S = Nat
  <2>1. Good(0)
    BY <1>6
  <2>2. ASSUME NEW i \in Nat, i < n, Good(i)
        PROVE  Good(i + 1)
    <3>1. i + 1 \in 1 .. n
      BY <1>1, <2>2
    <3>2. f[i] \in Seq(T) /\ s[i + 1] \in Seq(T) /\ f[i + 1] = f[i] \o s[i + 1]
      BY <1>1, <1>7, <2>2, <3>1
    <3> QED  BY <3>2
  <2> HIDE DEF Good
  <2>3. 0 \in S /\ S \in SUBSET Nat
    BY <2>1
  <2>4. ASSUME NEW i \in S PROVE i + 1 \in S
    <3>1. i + 1 <= n => i < n /\ i <= n
      BY <1>1
    <3> QED  BY <2>2, <3>1
  <2> HIDE DEF S
  <2> QED  BY <2>3, <2>4, Induction
<1>9. \A i \in 0 .. n : f[i] \in Seq(T)
  BY <1>1, <1>8
<1>10. Joined(s) = f[n]
  BY <1>1, <1>3, <1>4, <1>6
<1> QED  BY <1>6, <1>7, <1>9, <1>10 DEF n

\* A sequence of sequences is one of sequences of the same kind.
LEMMA SequencesOfOneKind ==
  ASSUME NEW X, NEW s \in Seq(X), \A i \in 1 .. Len(s) : \E T : s[i] \in Seq(T)
  PROVE  \E T : s \in Seq(Seq(T))
<1> DEFINE kind(i) == CHOOSE T : s[i] \in Seq(T)
           all == UNION {kind(i) : i \in 1 .. Len(s)}
<1>1. ASSUME NEW i \in 1 .. Len(s)
      PROVE  s[i] \in Seq(all)
  <2>1. s[i] \in Seq(kind(i))
    OBVIOUS
  <2>2. kind(i) \subseteq all
    OBVIOUS
  <2> HIDE DEF kind, all
  <2>3. Len(s[i]) \in Nat /\ \A k \in 1 .. Len(s[i]) : s[i][k] \in kind(i)
    BY <2>1
  <2>4. s[i] = [k \in 1 .. Len(s[i]) |-> s[i][k]]
    BY <2>1
  <2> QED  BY <2>2, <2>3, <2>4
<1> HIDE DEF all
<1>2. s = [i \in 1 .. Len(s) |-> s[i]] /\ Len(s) \in Nat
  OBVIOUS
<1>3. s \in Seq(Seq(all))
  BY <1>1, <1>2
<1> QED  BY <1>3

\* Nothing is read, or one line, or two texts one after the other.
LEMMA ReadNothing ==
  ASSUME NEW c
  PROVE  ReadFrom(c, <<>>) = c
<1> DEFINE s == <<>>
<1>1. s \in Seq({}) /\ Len(s) = 0
  OBVIOUS
<1> HIDE DEF s
<1>2. PICK f : /\ f[0] = c
               /\ \A i \in Nat : i < Len(s) => f[i + 1] = Config!ReadLine(f[i], s[i + 1])
               /\ ReadFrom(c, s) = f[Len(s)]
  BY <1>1, ReadFromSteps
<1> QED  BY <1>1, <1>2 DEF s

\* One line
LEMMA ReadOne ==
  ASSUME NEW c, NEW l
  PROVE  ReadFrom(c, <<l>>) = Config!ReadLine(c, l)
<1>1. <<l>> \in Seq({l}) /\ Len(<<l>>) = 1 /\ <<l>>[1] = l
  OBVIOUS
<1> DEFINE s == <<l>>
<1> HIDE DEF s
<1>2. PICK f : /\ f[0] = c
               /\ \A i \in Nat : i < Len(s) => f[i + 1] = Config!ReadLine(f[i], s[i + 1])
               /\ ReadFrom(c, s) = f[Len(s)]
  BY <1>1, ReadFromSteps DEF s
<1>3. f[0 + 1] = Config!ReadLine(f[0], s[0 + 1])
  BY <1>1, <1>2 DEF s
<1> QED  BY <1>1, <1>2, <1>3 DEF s

\* What comes after a text is read by the parser that has read it.
LEMMA ReadFromConcat ==
  ASSUME NEW T, NEW a \in Seq(T), NEW b \in Seq(T), NEW c
  PROVE  ReadFrom(c, a \o b) = ReadFrom(ReadFrom(c, a), b)
<1> DEFINE d == ReadFrom(c, a)
           ab == a \o b
           n == Len(a)
           m == Len(b)
<1>1. /\ ab \in Seq(T) /\ Len(ab) = n + m /\ n \in Nat /\ m \in Nat
      /\ \A i \in 1 .. n : ab[i] = a[i]
      /\ \A i \in 1 .. m : ab[n + i] = b[i]
  OBVIOUS
<1>2. PICK f : /\ f[0] = c
               /\ \A i \in Nat : i < n => f[i + 1] = Config!ReadLine(f[i], a[i + 1])
               /\ d = f[n]
  BY ReadFromSteps
<1> HIDE DEF d
<1>3. PICK g : /\ g[0] = d
               /\ \A i \in Nat : i < m => g[i + 1] = Config!ReadLine(g[i], b[i + 1])
               /\ ReadFrom(d, b) = g[m]
  BY ReadFromSteps
<1> HIDE DEF ab
<1>4. PICK h : /\ h[0] = c
               /\ \A i \in Nat : i < Len(ab) => h[i + 1] = Config!ReadLine(h[i], ab[i + 1])
               /\ ReadFrom(c, ab) = h[Len(ab)]
  BY <1>1, ReadFromSteps
<1> HIDE DEF n, m
<1> DEFINE S == {i \in Nat : i <= n => h[i] = f[i]}
           U == {i \in Nat : i <= m => h[n + i] = g[i]}
<1>5. S = Nat
  <2>1. 0 \in S /\ S \in SUBSET Nat
    BY <1>2, <1>4
  <2>2. ASSUME NEW i \in S PROVE i + 1 \in S
    <3>1. i + 1 <= n => i < n /\ i <= n /\ i + 1 \in 1 .. n /\ i < Len(ab)
      BY <1>1
    <3>2. i + 1 <= n => h[i + 1] = f[i + 1]
      BY <1>1, <1>2, <1>4, <3>1
    <3> QED  BY <3>2
  <2> HIDE DEF S
  <2> QED  BY <2>1, <2>2, Induction
<1>6. h[n] = d
  <2>1. n \in S
    BY <1>1, <1>5
  <2> QED  BY <1>1, <1>2, <2>1
<1>7. U = Nat
  <2>1. 0 \in U /\ U \in SUBSET Nat
    BY <1>1, <1>3, <1>6
  <2>2. ASSUME NEW i \in U PROVE i + 1 \in U
    <3> HIDE DEF S
    <3>1. i + 1 <= m => i < m /\ i <= m /\ i + 1 \in 1 .. m /\ n + i < Len(ab) /\ n + i \in Nat
                        /\ (n + i) + 1 = n + (i + 1)
      <4>1. i \in Nat
        OBVIOUS
      <4> HIDE DEF U
      <4> QED  BY <1>1, <4>1
    <3>2. i + 1 <= m => h[n + (i + 1)] = Config!ReadLine(h[n + i], ab[n + (i + 1)])
      BY <1>4, <3>1
    <3>3. i + 1 <= m => h[n + (i + 1)] = g[i + 1]
      BY <1>1, <1>3, <3>1, <3>2
    <3> QED  BY <3>3
  <2> HIDE DEF U
  <2> QED  BY <2>1, <2>2, Induction
<1>8. h[n + m] = g[m]
  BY <1>1, <1>7
<1> QED  BY <1>1, <1>3, <1>4, <1>8 DEF ab, d

\* Texts one after the other
LEMMA ReadJoined ==
  ASSUME NEW T, NEW s \in Seq(Seq(T)), NEW c
  PROVE  \E h : /\ h[0] = c
                /\ \A i \in Nat : i < Len(s) => h[i + 1] = ReadFrom(h[i], s[i + 1])
                /\ ReadFrom(c, Joined(s)) = h[Len(s)]
<1>1. PICK f : /\ f[0] = <<>>
               /\ \A i \in Nat : i < Len(s) => f[i + 1] = f[i] \o s[i + 1]
               /\ \A i \in 0 .. Len(s) : f[i] \in Seq(T)
               /\ Joined(s) = f[Len(s)]
  BY JoinedGrows
<1> DEFINE h == [i \in 0 .. Len(s) |-> ReadFrom(c, f[i])]
<1>2. Len(s) \in Nat /\ \A i \in 1 .. Len(s) : s[i] \in Seq(T)
  OBVIOUS
<1>3. h[0] = c
  BY <1>1, <1>2, ReadNothing
<1>4. ASSUME NEW i \in Nat, i < Len(s)
      PROVE  h[i + 1] = ReadFrom(h[i], s[i + 1])
  <2>1. i \in 0 .. Len(s) /\ i + 1 \in 0 .. Len(s) /\ i + 1 \in 1 .. Len(s)
    BY <1>2, <1>4
  <2>2. f[i] \in Seq(T) /\ s[i + 1] \in Seq(T) /\ f[i + 1] = f[i] \o s[i + 1]
    BY <1>1, <1>2, <1>4, <2>1
  <2>3. ReadFrom(c, f[i] \o s[i + 1]) = ReadFrom(ReadFrom(c, f[i]), s[i + 1])
    BY <2>2, ReadFromConcat
  <2> QED  BY <2>1, <2>2, <2>3
<1>5. ReadFrom(c, Joined(s)) = h[Len(s)]
  BY <1>1, <1>2
<1> QED  BY <1>3, <1>4, <1>5

\* FlattenSeq joins.
LEMMA FlattenJoins ==
  ASSUME NEW s
  PROVE  Config!FlattenSeq(s) = Joined(s)
BY DEF Config!FlattenSeq, Joined, Joins

(***************************************************************************)
(* At gives the members at some places, in their order.                    *)
(***************************************************************************)

\* One member after the other
LEMMA AtSteps ==
  ASSUME NEW T, NEW s \in Seq(T), NEW P
  PROVE  \E u : /\ u[0] = <<>>
                /\ \A i \in Nat : i < Len(s) =>
                     u[i + 1] = IF i + 1 \in P THEN Append(u[i], s[i + 1]) ELSE u[i]
                /\ Config!At(s, P) = u[Len(s)]
<1> DEFINE n == Len(s)
<1>1. PICK u : Collects(u, n, s, P) /\ Config!At(s, P) = u[n]
  BY AtCollects
<1>2. n \in Nat
  OBVIOUS
<1> HIDE DEF n
<1>3. Collects(u, n, s, P) /\ n \in Nat
  BY <1>1, <1>2
<1>4. /\ u[0] = <<>>
      /\ \A i \in Nat : i < n => u[i + 1] = IF i + 1 \in P THEN Append(u[i], s[i + 1]) ELSE u[i]
  BY <1>3, CollectsValues
<1> QED  BY <1>1, <1>4 DEF n

\* The places in P of a sequence of n members, in their order
Places(n, P) == Config!At([i \in 1 .. n |-> i], P)

\* At gives the members at those places.
LEMMA AtPlaces ==
  ASSUME NEW T, NEW s \in Seq(T), NEW P
  PROVE  LET g == Places(Len(s), P)
             t == Config!At(s, P)
         IN  t \in Seq(T) /\ Len(t) = Len(g) /\ \A k \in 1 .. Len(t) : t[k] = s[g[k]]
<1> DEFINE n == Len(s)
           own == [i \in 1 .. n |-> i]
<1>1. n \in Nat /\ (\A i \in 1 .. n : s[i] \in T) /\ own \in Seq(Nat) /\ Len(own) = n
      /\ \A i \in 1 .. n : own[i] = i
  OBVIOUS
<1>2. PICK u : /\ u[0] = <<>>
               /\ \A i \in Nat : i < n =>
                    u[i + 1] = IF i + 1 \in P THEN Append(u[i], s[i + 1]) ELSE u[i]
               /\ Config!At(s, P) = u[n]
  BY AtSteps
<1>3. PICK w : /\ w[0] = <<>>
               /\ \A i \in Nat : i < n =>
                    w[i + 1] = IF i + 1 \in P THEN Append(w[i], own[i + 1]) ELSE w[i]
               /\ Places(n, P) = w[n]
  <2> HIDE DEF own
  <2>1. Places(n, P) = Config!At(own, P)
    BY DEF Places, own
  <2> QED  BY <1>1, <2>1, AtSteps
<1> HIDE DEF n, own
<1> DEFINE Good(i) == /\ u[i] \in Seq(T) /\ w[i] \in Seq(Nat) /\ Len(u[i]) = Len(w[i])
                      /\ \A k \in 1 .. Len(u[i]) : u[i][k] = s[w[i][k]]
           S == {i \in Nat : i <= n => Good(i)}
<1>6. Good(0)
  BY <1>2, <1>3
<1>7. ASSUME NEW i \in Nat, i < n, Good(i)
      PROVE  Good(i + 1)
  <2>1. i + 1 \in 1 .. n
    BY <1>1, <1>7
  <2>2. s[i + 1] \in T /\ own[i + 1] = i + 1
    BY <1>1, <2>1
  <2>3. CASE i + 1 \in P
    <3>1. u[i + 1] = Append(u[i], s[i + 1]) /\ w[i + 1] = Append(w[i], i + 1)
      BY <1>2, <1>3, <1>7, <2>2, <2>3
    <3>2. u[i + 1] \in Seq(T) /\ w[i + 1] \in Seq(Nat) /\ Len(u[i + 1]) = Len(u[i]) + 1
          /\ Len(w[i + 1]) = Len(w[i]) + 1 /\ Len(u[i]) \in Nat
      BY <1>7, <2>2, <3>1
    <3>3. ASSUME NEW k \in 1 .. Len(u[i + 1])
          PROVE  u[i + 1][k] = s[w[i + 1][k]]
      <4>1. CASE k = Len(u[i]) + 1
        BY <1>7, <2>2, <3>1, <3>2, <4>1
      <4>2. CASE k \in 1 .. Len(u[i])
        <5>1. u[i + 1][k] = u[i][k] /\ w[i + 1][k] = w[i][k]
          BY <1>7, <2>2, <3>1, <3>2, <4>2
        <5> QED  BY <1>7, <4>2, <5>1
      <4> QED  BY <3>2, <4>1, <4>2
    <3> QED  BY <1>7, <3>2, <3>3
  <2>4. CASE i + 1 \notin P
    <3>1. u[i + 1] = u[i] /\ w[i + 1] = w[i]
      BY <1>2, <1>3, <1>7, <2>4
    <3> QED  BY <1>7, <3>1
  <2> QED  BY <2>3, <2>4
<1>8. S = Nat
  <2> HIDE DEF Good
  <2>1. 0 \in S /\ S \in SUBSET Nat
    BY <1>6
  <2>2. ASSUME NEW i \in S PROVE i + 1 \in S
    <3>1. i + 1 <= n => i < n /\ i <= n
      BY <1>1
    <3> QED  BY <1>7, <3>1
  <2> HIDE DEF S
  <2> QED  BY <2>1, <2>2, Induction
<1>9. Good(n)
  <2> HIDE DEF Good
  <2>1. n \in S
    BY <1>1, <1>8
  <2> QED  BY <1>1, <2>1
<1> QED  BY <1>2, <1>3, <1>9 DEF n

\* They are in their order, and all of them.
LEMMA PlacesOrdered ==
  ASSUME NEW n \in Nat, NEW P
  PROVE  LET g == Places(n, P) IN
         /\ g \in Seq(1 .. n)
         /\ \A k \in 1 .. Len(g) : g[k] \in P
         /\ \A k, l \in 1 .. Len(g) : k < l => g[k] < g[l]
         /\ \A j \in 1 .. n : j \in P => \E k \in 1 .. Len(g) : g[k] = j
<1> DEFINE own == [i \in 1 .. n |-> i]
<1>1. own \in Seq(Nat) /\ Len(own) = n /\ \A i \in 1 .. n : own[i] = i
  OBVIOUS
<1>2. PICK w : /\ w[0] = <<>>
               /\ \A i \in Nat : i < n =>
                    w[i + 1] = IF i + 1 \in P THEN Append(w[i], own[i + 1]) ELSE w[i]
               /\ Places(n, P) = w[n]
  <2> HIDE DEF own
  <2>1. Places(n, P) = Config!At(own, P)
    BY DEF Places, own
  <2> QED  BY <1>1, <2>1, AtSteps
<1> HIDE DEF own
<1> DEFINE Good(i) ==
             /\ w[i] \in Seq(1 .. n)
             /\ \A k \in 1 .. Len(w[i]) : w[i][k] \in P /\ w[i][k] <= i
             /\ \A k, l \in 1 .. Len(w[i]) : k < l => w[i][k] < w[i][l]
             /\ \A j \in 1 .. i : j \in P => \E k \in 1 .. Len(w[i]) : w[i][k] = j
           S == {i \in Nat : i <= n => Good(i)}
<1>4. Good(0)
  <2>1. w[0] \in Seq(1 .. n) /\ Len(w[0]) = 0 /\ 1 .. 0 = {}
    BY <1>2
  <2> QED  BY <2>1
<1>5. ASSUME NEW i \in Nat, i < n, Good(i)
      PROVE  Good(i + 1)
  <2> DEFINE a == w[i]
             b == w[i + 1]
  <2>1. i + 1 \in 1 .. n /\ own[i + 1] = i + 1
    BY <1>1, <1>5
  <2>2. /\ a \in Seq(1 .. n)
        /\ \A k \in 1 .. Len(a) : a[k] \in P /\ a[k] <= i
        /\ \A k, l \in 1 .. Len(a) : k < l => a[k] < a[l]
        /\ \A j \in 1 .. i : j \in P => \E k \in 1 .. Len(a) : a[k] = j
    BY <1>5
  <2>3. b = IF i + 1 \in P THEN Append(a, i + 1) ELSE a
    BY <1>2, <1>5, <2>1
  <2>4. \A j \in 1 .. i + 1 : j = i + 1 \/ j \in 1 .. i
    OBVIOUS
  <2> HIDE DEF a, b
  <2>5. CASE i + 1 \in P
    <3>1. /\ b \in Seq(1 .. n) /\ Len(b) = Len(a) + 1 /\ Len(a) \in Nat /\ b[Len(a) + 1] = i + 1
          /\ \A k \in 1 .. Len(a) : b[k] = a[k] /\ a[k] \in 1 .. n
      BY <2>1, <2>2, <2>3, <2>5
    <3>2. \A k \in 1 .. Len(b) : k = Len(a) + 1 \/ k \in 1 .. Len(a)
      BY <3>1
    <3>3. ASSUME NEW k \in 1 .. Len(b)
          PROVE  b[k] \in P /\ b[k] <= i + 1
      <4>1. CASE k = Len(a) + 1
        BY <2>5, <3>1, <4>1
      <4>2. CASE k \in 1 .. Len(a)
        <5>1. a[k] \in P /\ a[k] <= i /\ b[k] = a[k] /\ a[k] \in 1 .. n
          BY <2>2, <3>1, <4>2
        <5> QED  BY <5>1
      <4> QED  BY <3>2, <4>1, <4>2
    <3>4. ASSUME NEW k \in 1 .. Len(b), NEW l \in 1 .. Len(b), k < l
          PROVE  b[k] < b[l]
      <4>1. k \in 1 .. Len(a)
        BY <3>1, <3>4
      <4>2. CASE l = Len(a) + 1
        <5>1. a[k] <= i /\ b[k] = a[k] /\ a[k] \in 1 .. n /\ b[l] = i + 1
          BY <2>2, <3>1, <4>1, <4>2
        <5> QED  BY <5>1
      <4>3. CASE l \in 1 .. Len(a)
        BY <2>2, <3>1, <3>4, <4>1, <4>3
      <4> QED  BY <3>2, <4>2, <4>3
    <3>5. ASSUME NEW j \in 1 .. i + 1, j \in P
          PROVE  \E k \in 1 .. Len(b) : b[k] = j
      <4>1. CASE j = i + 1
        BY <3>1, <4>1
      <4>2. CASE j \in 1 .. i
        <5>1. PICK k \in 1 .. Len(a) : a[k] = j
          BY <2>2, <3>5, <4>2
        <5> QED  BY <3>1, <5>1
      <4> QED  BY <2>4, <4>1, <4>2
    <3> QED  BY <3>1, <3>3, <3>4, <3>5 DEF b
  <2>6. CASE i + 1 \notin P
    <3>1. b = a
      BY <2>3, <2>6
    <3>2. \A k \in 1 .. Len(a) : a[k] \in 1 .. n
      BY <2>2
    <3>3. \A k \in 1 .. Len(b) : b[k] \in P /\ b[k] <= i + 1
      BY <2>2, <3>1, <3>2
    <3>4. \A j \in 1 .. i + 1 : j \in P => \E k \in 1 .. Len(b) : b[k] = j
      BY <2>2, <2>4, <2>6, <3>1
    <3> QED  BY <2>2, <3>1, <3>3, <3>4 DEF b
  <2> QED  BY <2>5, <2>6
<1>6. S = Nat
  <2> HIDE DEF Good
  <2>1. 0 \in S /\ S \in SUBSET Nat
    BY <1>4
  <2>2. ASSUME NEW i \in S PROVE i + 1 \in S
    <3>1. i + 1 <= n => i < n /\ i <= n
      OBVIOUS
    <3> QED  BY <1>5, <3>1
  <2> HIDE DEF S
  <2> QED  BY <2>1, <2>2, Induction
<1>7. Good(n)
  <2> HIDE DEF Good
  <2>1. n \in S
    BY <1>6
  <2> QED  BY <2>1
<1> QED  BY <1>2, <1>7

\* What is appended to the second of two texts is appended to both.
StaysLast(x, y, e) == Append(x \o y, e) = x \o Append(y, e)

\* So it is of sequences.
LEMMA AppendStaysLast ==
  ASSUME NEW T, NEW x \in Seq(T), NEW y \in Seq(T), NEW e \in T
  PROVE  StaysLast(x, y, e)
BY DEF StaysLast

\* R are the places in P of the first n and those in Q of the next m.
Together(R, P, n, Q, m) ==
  (\A i \in 1 .. n : i \in R <=> i \in P) /\ (\A i \in 1 .. m : n + i \in R <=> i \in Q)

\* Of two texts one after the other
LEMMA AtConcat ==
  ASSUME NEW T, NEW a \in Seq(T), NEW b \in Seq(T), NEW P, NEW Q, NEW R,
         Together(R, P, Len(a), Q, Len(b))
  PROVE  Config!At(a \o b, R) = Config!At(a, P) \o Config!At(b, Q)
<1> DEFINE ab == a \o b
           n == Len(a)
           m == Len(b)
<1>1. /\ ab \in Seq(T) /\ Len(ab) = n + m /\ n \in Nat /\ m \in Nat
      /\ \A i \in 1 .. n : ab[i] = a[i] /\ a[i] \in T
      /\ \A i \in 1 .. m : ab[n + i] = b[i] /\ b[i] \in T
  OBVIOUS
<1>2. PICK f : /\ f[0] = <<>>
               /\ \A i \in Nat : i < n =>
                    f[i + 1] = IF i + 1 \in P THEN Append(f[i], a[i + 1]) ELSE f[i]
               /\ Config!At(a, P) = f[n]
  BY AtSteps
<1>3. PICK g : /\ g[0] = <<>>
               /\ \A i \in Nat : i < m =>
                    g[i + 1] = IF i + 1 \in Q THEN Append(g[i], b[i + 1]) ELSE g[i]
               /\ Config!At(b, Q) = g[m]
  BY AtSteps
<1> HIDE DEF ab
<1>4. PICK h : /\ h[0] = <<>>
               /\ \A i \in Nat : i < n + m =>
                    h[i + 1] = IF i + 1 \in R THEN Append(h[i], ab[i + 1]) ELSE h[i]
               /\ Config!At(ab, R) = h[n + m]
  <2>1. Len(ab) = n + m
    BY <1>1
  <2>2. ab \in Seq(T)
    BY <1>1
  <2>3. \E h : /\ h[0] = <<>>
               /\ \A i \in Nat : i < Len(ab) =>
                    h[i + 1] = IF i + 1 \in R THEN Append(h[i], ab[i + 1]) ELSE h[i]
               /\ Config!At(ab, R) = h[Len(ab)]
    BY <2>2, AtSteps
  <2> HIDE DEF n, m
  <2> QED  BY <2>1, <2>3
<1> HIDE DEF n, m
<1>8. \A i \in 1 .. n : i \in R <=> i \in P
  BY DEF n, Together
<1>9. \A i \in 1 .. m : n + i \in R <=> i \in Q
  BY DEF n, m, Together
<1> DEFINE Same(i) == h[i] = f[i] /\ f[i] \in Seq(T)
           Then(i) == h[n + i] = f[n] \o g[i] /\ g[i] \in Seq(T)
           S == {i \in Nat : i <= n => Same(i)}
           U == {i \in Nat : i <= m => Then(i)}
<1>10. S = Nat
  <2>1. Same(0)
    BY <1>2, <1>4
  <2>2. ASSUME NEW i \in Nat, i < n, Same(i) PROVE Same(i + 1)
    <3>1. i + 1 \in 1 .. n /\ i < n + m
      BY <1>1, <2>2
    <3>2. f[i + 1] = IF i + 1 \in P THEN Append(f[i], a[i + 1]) ELSE f[i]
      BY <1>2, <2>2
    <3>3. h[i + 1] = IF i + 1 \in R THEN Append(h[i], ab[i + 1]) ELSE h[i]
      BY <1>4, <3>1
    <3>4. ab[i + 1] = a[i + 1] /\ a[i + 1] \in T /\ (i + 1 \in R <=> i + 1 \in P)
      BY <1>1, <1>8, <3>1
    <3>5. h[i + 1] = f[i + 1]
      BY <2>2, <3>2, <3>3, <3>4
    <3>6. Append(f[i], a[i + 1]) \in Seq(T)
      BY <2>2, <3>4
    <3> QED  BY <2>2, <3>2, <3>5, <3>6
  <2> HIDE DEF Same
  <2>3. 0 \in S /\ S \in SUBSET Nat
    BY <2>1
  <2>4. ASSUME NEW i \in S PROVE i + 1 \in S
    <3>1. i + 1 <= n => i < n /\ i <= n
      BY <1>1
    <3> QED  BY <2>2, <3>1
  <2> HIDE DEF S
  <2> QED  BY <2>3, <2>4, Induction
<1>11. Same(n)
  <2> HIDE DEF Same
  <2>1. n \in S
    BY <1>1, <1>10
  <2> QED  BY <1>1, <2>1
<1>12. U = Nat
  <2>1. Then(0)
    <3>1. n + 0 = n
      BY <1>1
    <3>2. f[n] \o <<>> = f[n]
      BY <1>11
    <3> QED  BY <1>3, <1>11, <3>1, <3>2
  <2>2. ASSUME NEW i \in Nat, i < m, Then(i) PROVE Then(i + 1)
    <3>1. i + 1 \in 1 .. m /\ n + i \in Nat /\ n + i < n + m /\ (n + i) + 1 = n + (i + 1)
      BY <1>1, <2>2
    <3>2. g[i + 1] = IF i + 1 \in Q THEN Append(g[i], b[i + 1]) ELSE g[i]
      BY <1>3, <2>2
    <3>3. h[n + (i + 1)] = IF n + (i + 1) \in R THEN Append(h[n + i], ab[n + (i + 1)]) ELSE h[n + i]
      BY <1>4, <3>1
    <3>4. ab[n + (i + 1)] = b[i + 1] /\ b[i + 1] \in T /\ (n + (i + 1) \in R <=> i + 1 \in Q)
      BY <1>1, <1>9, <3>1
    <3>5. Append(g[i], b[i + 1]) \in Seq(T)
      BY <2>2, <3>4
    <3>6. Append(f[n] \o g[i], b[i + 1]) = f[n] \o Append(g[i], b[i + 1])
      <4>1. f[n] \in Seq(T) /\ g[i] \in Seq(T) /\ b[i + 1] \in T
        BY <1>11, <2>2, <3>4
      <4>2. StaysLast(f[n], g[i], b[i + 1])
        BY <4>1, AppendStaysLast
      <4> QED  BY <4>2 DEF StaysLast
    <3> QED  BY <2>2, <3>2, <3>3, <3>4, <3>5, <3>6
  <2> HIDE DEF Then
  <2>3. 0 \in U /\ U \in SUBSET Nat
    BY <2>1
  <2>4. ASSUME NEW i \in U PROVE i + 1 \in U
    <3>1. i + 1 <= m => i < m /\ i <= m
      BY <1>1
    <3> QED  BY <2>2, <3>1
  <2> HIDE DEF U
  <2> QED  BY <2>3, <2>4, Induction
<1>13. Then(m)
  <2> HIDE DEF Then
  <2>1. m \in U
    BY <1>1, <1>12
  <2> QED  BY <1>1, <2>1
<1> QED  BY <1>1, <1>2, <1>3, <1>4, <1>13 DEF ab

\* At all places, or at none
LEMMA AtAll ==
  ASSUME NEW T, NEW s \in Seq(T), NEW P, \A i \in 1 .. Len(s) : i \in P
  PROVE  Config!At(s, P) = s
<1> DEFINE n == Len(s)
<1>1. n \in Nat /\ \A i \in 1 .. n : s[i] \in T
  OBVIOUS
<1>2. PICK u : /\ u[0] = <<>>
               /\ \A i \in Nat : i < n =>
                    u[i + 1] = IF i + 1 \in P THEN Append(u[i], s[i + 1]) ELSE u[i]
               /\ Config!At(s, P) = u[n]
  BY AtSteps
<1>3. \A i \in 1 .. n : i \in P
  OBVIOUS
<1> HIDE DEF n
<1> DEFINE Good(i) == u[i] \in Seq(T) /\ Len(u[i]) = i /\ \A k \in 1 .. i : u[i][k] = s[k]
           S == {i \in Nat : i <= n => Good(i)}
<1>5. Good(0)
  BY <1>2
<1>6. ASSUME NEW i \in Nat, i < n, Good(i)
      PROVE  Good(i + 1)
  <2>1. i + 1 \in 1 .. n
    BY <1>1, <1>6
  <2>2. u[i + 1] = Append(u[i], s[i + 1]) /\ s[i + 1] \in T
    BY <1>1, <1>2, <1>3, <1>6, <2>1
  <2>3. \A k \in 1 .. i + 1 : k = i + 1 \/ k \in 1 .. i
    OBVIOUS
  <2> QED  BY <1>6, <2>2, <2>3
<1>7. S = Nat
  <2> HIDE DEF Good
  <2>1. 0 \in S /\ S \in SUBSET Nat
    BY <1>5
  <2>2. ASSUME NEW i \in S PROVE i + 1 \in S
    <3>1. i + 1 <= n => i < n /\ i <= n
      BY <1>1
    <3> QED  BY <1>6, <3>1
  <2> HIDE DEF S
  <2> QED  BY <2>1, <2>2, Induction
<1>8. Good(n)
  <2> HIDE DEF Good
  <2>1. n \in S
    BY <1>1, <1>7
  <2> QED  BY <1>1, <2>1
<1> QED  BY <1>2, <1>8, SeqEqual DEF n

\* None of the places is there.
LEMMA AtNone ==
  ASSUME NEW T, NEW s \in Seq(T), NEW P, \A i \in 1 .. Len(s) : i \notin P
  PROVE  Config!At(s, P) = <<>>
<1> DEFINE g == Places(Len(s), P)
<1>1. Len(s) \in Nat
  OBVIOUS
<1>2. g \in Seq(1 .. Len(s)) /\ \A k \in 1 .. Len(g) : g[k] \in P
  BY <1>1, PlacesOrdered
<1>3. Config!At(s, P) \in Seq(T) /\ Len(Config!At(s, P)) = Len(g)
  BY AtPlaces
<1> HIDE DEF g
<1>4. Len(g) = 0
  <2>1. \A k \in 1 .. Len(g) : g[k] \in 1 .. Len(s)
    BY <1>2
  <2>2. Len(g) \in Nat
    BY <1>2
  <2>3. ~(1 \in 1 .. Len(g))
    BY <1>2, <2>1
  <2> QED  BY <2>2, <2>3
<1> QED  BY <1>3, <1>4

(***************************************************************************)
(* A printed line is read, and the lines of an option, of a section and of *)
(* all sections.                                                           *)
(***************************************************************************)

\* Two settings of which the same is read: none, or the same at the head
Agrees(v, w) == (v = None <=> w = None) /\ Head(v) = Head(w)

\* Two sections in which the same is found
Like(d, e) == DOMAIN d = DOMAIN e /\ \A o \in DOMAIN d : Agrees(d[o], e[o])

\* The parser is ready for a line that is not deeper.  What a blank line continues is
\* there.
Ready(c) ==
  /\ Parser(c) /\ c.error = "none" /\ c.indent = 0
  /\ c.option = None \/ c.option \in DOMAIN Config!Current(c)

\* The parser d is c with its last section like the options e.
Became(d, c, e) ==
  LET n == Len(c.sections) IN
  /\ Ready(d)
  /\ Len(d.sections) = n
  /\ \A i \in 1 .. n - 1 : d.sections[i] = c.sections[i]
  /\ d.sections[n].name = c.sections[n].name
  /\ Like(Config!Current(d), e)

\* One more option, or another value of one
LEMMA LikeMore ==
  ASSUME NEW d, NEW e, NEW o, NEW now, Like(d, e),
         DOMAIN now = {o} \cup DOMAIN d, \A x \in DOMAIN d : x # o => now[x] = d[x],
         NEW v, Agrees(now[o], v)
  PROVE  Like(now, Config!With(e, o, v))
<1>1. /\ DOMAIN Config!With(e, o, v) = {o} \cup DOMAIN e
      /\ Config!With(e, o, v)[o] = v
      /\ \A x \in DOMAIN e : x # o => Config!With(e, o, v)[x] = e[x]
  BY DEF Config!With
<1> QED  BY <1>1 DEF Like

\* Before a line is read its indent is taken.
LEMMA Indented ==
  ASSUME NEW c, Parser(c), NEW k
  PROVE  LET d == [c EXCEPT !.indent = k] IN
         /\ Parser(d) /\ d.indent = k /\ d.sections = c.sections
         /\ d.option = c.option /\ d.error = c.error
<1>1. Parser([c EXCEPT !.indent = k])
  BY FieldKeeps
<1> QED  BY <1>1 DEF Parser

\* The option a line belongs to is remembered.
LEMMA OptionRemembered ==
  ASSUME NEW c, Parser(c), NEW o
  PROVE  LET d == [c EXCEPT !.option = o] IN
         /\ Parser(d) /\ d.option = o /\ d.sections = c.sections
         /\ d.indent = c.indent /\ d.error = c.error
<1>1. Parser([c EXCEPT !.option = o])
  BY FieldKeeps
<1> QED  BY <1>1 DEF Parser

\* What the lines are that are printed
LEMMA PrintedLines ==
  ASSUME NEW c, c.error = "none", c.indent = 0, NEW o, NEW v
  PROVE  LET d == [c EXCEPT !.indent = 0] IN
         /\ Config!ReadLine(c, Config!Line("blank", o, v)) = Config!BlankLine(c)
         /\ Config!ReadLine(c, Config!Line("header", o, v)) = Config!Header(d, o)
         /\ Config!ReadLine(c, Config!Line("word", o, v)) = [Config!Put(d, o, None) EXCEPT !.option = o]
         /\ Config!ReadLine(c, Config!Line("option", o, v)) = [Config!AddValue(d, o, v) EXCEPT !.option = o]
BY DEF Config!ReadLine, Config!Line, Config!Option

\* A value is read: the first, or one more.
LEMMA ValueRead ==
  ASSUME NEW c, NEW b, NEW e, NEW o, NEW v, NEW x \in Text,
         Became(c, b, e), Len(b.sections) \in Nat,
         \/ o \notin DOMAIN e /\ Head(v) = x
         \/ o \in DOMAIN e /\ e[o] = v,
         v # None
  PROVE  Became(Config!ReadLine(c, Config!Line("option", o, x)), b, Config!With(e, o, v))
<1> DEFINE c1 == [c EXCEPT !.indent = 0]
           c2 == Config!AddValue(c1, o, x)
           d  == [c2 EXCEPT !.option = o]
           n  == Len(b.sections)
           old == Config!Current(c)
<1>1. /\ Parser(c) /\ c.error = "none" /\ c.indent = 0 /\ Len(c.sections) = n
      /\ \A i \in 1 .. n - 1 : c.sections[i] = b.sections[i]
      /\ c.sections[n].name = b.sections[n].name
      /\ Like(old, e)
  BY DEF Became, Ready
<1>2. Config!ReadLine(c, Config!Line("option", o, x)) = d
  BY <1>1, PrintedLines
<1>3. /\ Parser(c1) /\ c1.indent = 0 /\ c1.sections = c.sections
      /\ c1.option = c.option /\ c1.error = "none"
  BY <1>1, Indented
<1> HIDE DEF c1
<1>4. Config!Current(c1) = old
  BY <1>3 DEF Config!Current
<1> HIDE DEF old
<1>5. /\ Parser(c2)
      /\ o \notin DOMAIN old => Sets(c2, c1, o, <<x>>)
      /\ o \in DOMAIN old /\ old[o] # None =>
           Sets(c2, c1, o, Append(old[o], x)) /\ old[o] \in Seq(Text) /\ old[o] # <<>>
  BY <1>3, <1>4, ValueAdded
<1> HIDE DEF c2
<1>6. PICK w : Sets(c2, c1, o, w) /\ Agrees(w, v)
  <2>1. None \notin Seq(Text)
    BY ConfigAssumption DEF Text
  <2>2. CASE o \notin DOMAIN e /\ Head(v) = x
    <3>1. o \notin DOMAIN old
      BY <1>1, <2>2 DEF Like
    <3>2. <<x>> \in Seq(Text) /\ Head(<<x>>) = x
      OBVIOUS
    <3>3. Agrees(<<x>>, v)
      BY <2>1, <2>2, <3>2 DEF Agrees
    <3> QED  BY <1>5, <3>1, <3>3
  <2>3. CASE o \in DOMAIN e /\ e[o] = v
    <3>1. o \in DOMAIN old /\ Agrees(old[o], v)
      BY <1>1, <2>3 DEF Like
    <3>2. old[o] # None
      BY <3>1 DEF Agrees
    <3>3. Sets(c2, c1, o, Append(old[o], x)) /\ old[o] \in Seq(Text) /\ old[o] # <<>>
      BY <1>5, <3>1, <3>2
    <3>4. Append(old[o], x) \in Seq(Text) /\ Head(Append(old[o], x)) = Head(old[o])
      BY <3>3
    <3>5. Agrees(Append(old[o], x), v)
      BY <2>1, <3>1, <3>4 DEF Agrees
    <3> QED  BY <3>3, <3>5
  <2> QED  BY <2>2, <2>3
<1>7. /\ Parser(d) /\ d.option = o /\ d.sections = c2.sections
      /\ d.indent = c2.indent /\ d.error = c2.error
  BY <1>5, OptionRemembered
<1> HIDE DEF d
<1>8. /\ Len(c2.sections) = n /\ c2.indent = 0 /\ c2.error = "none"
      /\ \A i \in 1 .. n - 1 : c2.sections[i] = c.sections[i]
      /\ c2.sections[n].name = c.sections[n].name
      /\ DOMAIN Config!Current(c2) = {o} \cup DOMAIN old
      /\ Config!Current(c2)[o] = w
      /\ \A y \in DOMAIN old : y # o => Config!Current(c2)[y] = old[y]
  BY <1>1, <1>3, <1>4, <1>6 DEF Sets
<1>9. Config!Current(d) = Config!Current(c2)
  BY <1>7 DEF Config!Current
<1>10. Like(Config!Current(d), Config!With(e, o, v))
  BY <1>1, <1>6, <1>8, <1>9, LikeMore
<1>11. d.option \in DOMAIN Config!Current(d)
  BY <1>7, <1>8, <1>9
<1> QED  BY <1>1, <1>2, <1>7, <1>8, <1>10, <1>11 DEF Became, Ready

\* An option without value
LEMMA WordRead ==
  ASSUME NEW c, NEW b, NEW e, NEW o, NEW x, Became(c, b, e), Len(b.sections) \in Nat
  PROVE  Became(Config!ReadLine(c, Config!Line("word", o, x)), b, Config!With(e, o, None))
<1> DEFINE c1 == [c EXCEPT !.indent = 0]
           c2 == Config!Put(c1, o, None)
           d  == [c2 EXCEPT !.option = o]
           n  == Len(b.sections)
           old == Config!Current(c)
<1>1. /\ Parser(c) /\ c.error = "none" /\ c.indent = 0 /\ Len(c.sections) = n
      /\ \A i \in 1 .. n - 1 : c.sections[i] = b.sections[i]
      /\ c.sections[n].name = b.sections[n].name
      /\ Like(old, e)
  BY DEF Became, Ready
<1>2. Config!ReadLine(c, Config!Line("word", o, x)) = d
  BY <1>1, PrintedLines
<1>3. /\ Parser(c1) /\ c1.indent = 0 /\ c1.sections = c.sections
      /\ c1.option = c.option /\ c1.error = "none"
  BY <1>1, Indented
<1> HIDE DEF c1
<1>4. Config!Current(c1) = old
  BY <1>3 DEF Config!Current
<1> HIDE DEF old
<1>5. IsSetting(None) /\ Agrees(None, None)
  BY DEF IsSetting, Agrees
<1>6. Parser(c2) /\ Sets(c2, c1, o, None)
  BY <1>3, <1>5, PutSets
<1> HIDE DEF c2
<1>7. /\ Parser(d) /\ d.option = o /\ d.sections = c2.sections
      /\ d.indent = c2.indent /\ d.error = c2.error
  BY <1>6, OptionRemembered
<1> HIDE DEF d
<1>8. /\ Len(c2.sections) = n /\ c2.indent = 0 /\ c2.error = "none"
      /\ \A i \in 1 .. n - 1 : c2.sections[i] = c.sections[i]
      /\ c2.sections[n].name = c.sections[n].name
      /\ DOMAIN Config!Current(c2) = {o} \cup DOMAIN old
      /\ Config!Current(c2)[o] = None
      /\ \A y \in DOMAIN old : y # o => Config!Current(c2)[y] = old[y]
  BY <1>1, <1>3, <1>4, <1>6 DEF Sets
<1>9. Config!Current(d) = Config!Current(c2)
  BY <1>7 DEF Config!Current
<1>10. Like(Config!Current(d), Config!With(e, o, None))
  BY <1>1, <1>5, <1>8, <1>9, LikeMore
<1>11. d.option \in DOMAIN Config!Current(d)
  BY <1>7, <1>8, <1>9
<1> QED  BY <1>1, <1>2, <1>7, <1>8, <1>10, <1>11 DEF Became, Ready

\* What a value begins with is there, if there is a value.
IsShown(v) == IsSetting(v) /\ (v # None => Head(v) # "")

\* A sequence is one of more members, too.
LEMMA SequenceOfMore ==
  ASSUME NEW T, NEW U, T \subseteq U, NEW s \in Seq(T)
  PROVE  s \in Seq(U)
<1>1. Len(s) \in Nat /\ s = [k \in 1 .. Len(s) |-> s[k]] /\ \A k \in 1 .. Len(s) : s[k] \in T
  OBVIOUS
<1> QED  BY <1>1

\* If the first place is one of P, the first member is the first there.
LEMMA FirstAt ==
  ASSUME NEW T, NEW s \in Seq(T), Len(s) >= 1, NEW P, 1 \in P
  PROVE  Len(Config!At(s, P)) >= 1 /\ Config!At(s, P)[1] = s[1] /\ Places(Len(s), P)[1] = 1
<1> DEFINE n == Len(s)
           g == Places(n, P)
           t == Config!At(s, P)
<1>1. n \in Nat /\ n >= 1
  OBVIOUS
<1>2. t \in Seq(T) /\ Len(t) = Len(g) /\ \A k \in 1 .. Len(t) : t[k] = s[g[k]]
  BY AtPlaces
<1> HIDE DEF n
<1>3. /\ g \in Seq(1 .. n)
      /\ \A k, l \in 1 .. Len(g) : k < l => g[k] < g[l]
      /\ \A j \in 1 .. n : j \in P => \E k \in 1 .. Len(g) : g[k] = j
  BY <1>1, PlacesOrdered
<1> HIDE DEF g, t
<1>4. Len(g) \in Nat /\ \A k \in 1 .. Len(g) : g[k] \in 1 .. n
  <2>1. g \in Seq(1 .. n)
    BY <1>3
  <2> QED  BY <2>1, LenProperties, ElementOfSeq
<1>5. PICK k \in 1 .. Len(g) : g[k] = 1
  BY <1>1, <1>3
<1>6. Len(g) >= 1 /\ 1 \in 1 .. Len(g) /\ (k = 1 \/ 1 < k)
  BY <1>4, <1>5
<1>7. g[1] = 1
  <2>1. 1 < k => g[1] < 1
    BY <1>3, <1>5, <1>6
  <2>2. g[1] \in 1 .. n
    BY <1>4, <1>6
  <2> QED  BY <1>5, <1>6, <2>1, <2>2
<1>8. t[1] = s[1]
  BY <1>2, <1>6, <1>7
<1> QED  BY <1>2, <1>6, <1>7, <1>8 DEF t, g, n

\* What there is has a first member.
LEMMA HeadIsFirst ==
  ASSUME NEW T, NEW v \in Seq(T), v # <<>>
  PROVE  Len(v) >= 1 /\ v[1] = Head(v) /\ 1 \in DOMAIN v
<1>1. Len(v) \in Nat \ {0}
  BY EmptySeq
<1>2. DOMAIN v = 1 .. Len(v)
  BY LenProperties
<1> QED  BY <1>1, <1>2 DEF Head

\* The first value that is printed of an option is its first value.
LEMMA FirstIsShown ==
  ASSUME NEW v \in Seq(Text), v # <<>>, Head(v) # ""
  PROVE  LET t == Config!At(v, {i \in DOMAIN v : v[i] # ""}) IN
         t \in Seq(Text) /\ Len(t) >= 1 /\ t[1] = Head(v)
<1>1. Len(v) >= 1 /\ v[1] = Head(v) /\ 1 \in DOMAIN v
  BY HeadIsFirst
<1> DEFINE P == {i \in DOMAIN v : v[i] # ""}
<1>2. 1 \in P
  BY <1>1
<1> HIDE DEF P
<1>3. Config!At(v, P) \in Seq(Text)
  BY AtType
<1>4. Len(Config!At(v, P)) >= 1 /\ Config!At(v, P)[1] = v[1]
  BY <1>1, <1>2, FirstAt
<1> QED  BY <1>1, <1>3, <1>4 DEF P

\* An option is read as it was printed.
LEMMA OptionRead ==
  ASSUME NEW c, NEW b, NEW e, NEW o, NEW v,
         Became(c, b, e), Len(b.sections) \in Nat, o \notin DOMAIN e, IsShown(v)
  PROVE  Became(ReadFrom(c, Config!PrintOption(o, v)), b, Config!With(e, o, v))
<1>1. CASE v = None
  <2>1. Config!PrintOption(o, v) = <<Config!Line("word", o, "")>>
    BY <1>1 DEF Config!PrintOption
  <2>2. ReadFrom(c, Config!PrintOption(o, v)) = Config!ReadLine(c, Config!Line("word", o, ""))
    BY <2>1, ReadOne
  <2> QED  BY <1>1, <2>2, WordRead
<1>2. CASE v # None
  <2> DEFINE given == Config!At(v, {i \in DOMAIN v : v[i] # ""})
             line(x) == Config!Line("option", o, x)
             s == [i \in DOMAIN given |-> line(given[i])]
             with == Config!With(e, o, v)
             n == Len(s)
  <2>1. v \in Seq(Text) /\ v # <<>> /\ Head(v) # ""
    BY <1>2 DEF IsShown, IsSetting
  <2>2. given \in Seq(Text) /\ Len(given) >= 1 /\ given[1] = Head(v)
    BY <2>1, FirstIsShown
  <2>3. Config!PrintOption(o, v) = s
    BY <1>2 DEF Config!PrintOption
  <2> HIDE DEF given, line
  <2>4. /\ s \in Seq({line(x) : x \in Text}) /\ n = Len(given) /\ n \in Nat /\ n >= 1
        /\ \A i \in 1 .. n : s[i] = line(given[i]) /\ given[i] \in Text
    BY <2>2
  <2> HIDE DEF s
  <2>5. PICK f : /\ f[0] = c
                 /\ \A i \in Nat : i < n => f[i + 1] = Config!ReadLine(f[i], s[i + 1])
                 /\ ReadFrom(c, s) = f[n]
    BY <2>4, ReadFromSteps
  <2> HIDE DEF n
  <2>6. /\ o \in DOMAIN with /\ with[o] = v /\ Config!With(with, o, v) = with
    <3>1. with = [y \in {o} \cup DOMAIN e |-> IF y = o THEN v ELSE e[y]]
      BY DEF Config!With
    <3>2. DOMAIN with = {o} \cup DOMAIN e /\ with[o] = v
          /\ \A y \in DOMAIN e : y # o => with[y] = e[y]
      BY <3>1
    <3>3. Config!With(with, o, v) = [y \in {o} \cup DOMAIN with |-> IF y = o THEN v ELSE with[y]]
      BY DEF Config!With
    <3> HIDE DEF with
    <3> QED  BY <3>1, <3>2, <3>3
  <2> HIDE DEF with
  <2> DEFINE S == {i \in Nat : i + 1 <= n => Became(f[i + 1], b, with)}
  <2>7. ASSUME NEW i \in Nat, i < n
        PROVE  f[i + 1] = Config!ReadLine(f[i], line(given[i + 1])) /\ given[i + 1] \in Text
    <3>1. i + 1 \in 1 .. n
      BY <2>4, <2>7
    <3> QED  BY <2>4, <2>5, <2>7, <3>1
  <2>8. S = Nat
    <3>1. 0 \in S
      <4>1. f[0 + 1] = Config!ReadLine(c, line(given[1])) /\ given[1] \in Text
        BY <2>4, <2>5, <2>7
      <4>2. Became(f[0 + 1], b, with)
        BY <1>2, <2>2, <4>1, ValueRead DEF line, with
      <4> QED  BY <4>2
    <3>2. ASSUME NEW i \in S PROVE i + 1 \in S
      <4> SUFFICES ASSUME (i + 1) + 1 <= n PROVE Became(f[(i + 1) + 1], b, with)
        OBVIOUS
      <4>1. i + 1 \in Nat /\ i + 1 < n /\ i + 1 <= n
        BY <2>4
      <4>2. f[(i + 1) + 1] = Config!ReadLine(f[i + 1], line(given[(i + 1) + 1])) /\ given[(i + 1) + 1] \in Text
        BY <2>7, <4>1
      <4>3. Became(f[i + 1], b, with)
        BY <4>1
      <4>4. Became(f[(i + 1) + 1], b, Config!With(with, o, v))
        BY <1>2, <2>6, <4>2, <4>3, ValueRead DEF line
      <4> QED  BY <2>6, <4>4
    <3>3. S \in SUBSET Nat
      OBVIOUS
    <3> HIDE DEF S
    <3> QED  BY <3>1, <3>2, <3>3, Induction
  <2>9. Became(f[n], b, with)
    <3>1. n - 1 \in Nat /\ (n - 1) + 1 = n
      BY <2>4
    <3>2. n - 1 \in S
      BY <2>8, <3>1
    <3> QED  BY <2>4, <3>1, <3>2
  <2> QED  BY <2>3, <2>5, <2>9 DEF with
<1> QED  BY <1>1, <1>2

\* A finite set is listed whole, and each member once.
LEMMA Listed ==
  ASSUME NEW S, IsFiniteSet(S)
  PROVE  LET t == Config!SetToSeq(S) IN
         /\ t \in Seq(S)
         /\ \A i, j \in 1 .. Len(t) : t[i] = t[j] => i = j
         /\ S = {t[i] : i \in 1 .. Len(t)}
<1> DEFINE n == Cardinality(S)
           t == Config!SetToSeq(S)
<1>1. \A X : Config!Cardinality(X) = Cardinality(X)
  BY DEF Config!Cardinality, Cardinality
<1>2. n \in Nat /\ ExistsBijection(1 .. n, S)
  BY FS_CardinalityType
<1>3. PICK g : g \in [1 .. n -> S] /\ \A a, x \in 1 .. n : g[a] = g[x] => a = x
  BY <1>2 DEF ExistsBijection, Bijection, Injection, IsInjective
<1>4. t = CHOOSE f \in [1 .. n -> S] : \A a, x \in DOMAIN f : f[a] = f[x] => a = x
  BY <1>1 DEF Config!SetToSeq, Config!IsInjective
<1> HIDE DEF t
<1>5. t \in [1 .. n -> S] /\ \A a, x \in 1 .. n : t[a] = t[x] => a = x
  <2>1. \E f \in [1 .. n -> S] : \A a, x \in DOMAIN f : f[a] = f[x] => a = x
    <3>1. DOMAIN g = 1 .. n
      BY <1>3
    <3> QED  BY <1>3, <3>1
  <2>2. t \in [1 .. n -> S] /\ \A a, x \in DOMAIN t : t[a] = t[x] => a = x
    BY <1>4, <2>1
  <2>3. DOMAIN t = 1 .. n
    BY <2>2
  <2> QED  BY <2>2, <2>3
<1>6. t \in Injection(1 .. n, S)
  BY <1>5 DEF Injection, IsInjective
<1>7. t \in Surjection(1 .. n, S)
  <2>1. IsFiniteSet(1 .. n) /\ Cardinality(1 .. n) = n
    BY <1>2, FS_Interval
  <2> QED  BY <1>6, <2>1, FS_Injection
<1> HIDE DEF n
<1>8. t \in Seq(S) /\ Len(t) = n
  BY <1>2, <1>5
<1>9. \A x \in S : \E i \in 1 .. n : t[i] = x
  BY <1>7 DEF Surjection
<1> QED  BY <1>5, <1>8, <1>9 DEF t

\* Its options are printed whole.
IsPrintable(s) == IsSection(s) /\ \A o \in DOMAIN s.options : IsShown(s.options[o])

\* The lines of each option of a section
OptionTexts(s) == [i \in DOMAIN Config!Options(s) |->
  Config!PrintOption(Config!Options(s)[i], s.options[Config!Options(s)[i]])]

\* They are texts of one kind.
LEMMA OptionTextsType ==
  ASSUME NEW s, IsPrintable(s)
  PROVE  \E T : OptionTexts(s) \in Seq(Seq(T))
<1> DEFINE opts == Config!Options(s)
           t == OptionTexts(s)
           n == Len(opts)
<1>1. opts \in Seq(DOMAIN s.options)
  BY Listed DEF IsPrintable, IsSection, Config!Options
<1> HIDE DEF opts
<1>2. n \in Nat /\ DOMAIN opts = 1 .. n /\ \A i \in 1 .. n : opts[i] \in DOMAIN s.options
  BY <1>1, LenProperties, ElementOfSeq
<1>3. t = [i \in 1 .. n |-> Config!PrintOption(opts[i], s.options[opts[i]])]
  BY <1>2 DEF OptionTexts, opts
<1> HIDE DEF t
<1>4. t \in Seq({t[i] : i \in 1 .. n}) /\ Len(t) = n
  BY <1>2, <1>3
<1>5. ASSUME NEW i \in 1 .. n
      PROVE  \E T : t[i] \in Seq(T)
  <2> DEFINE o == opts[i]
             v == s.options[o]
             lines == {Config!Line("word", o, "")} \cup {Config!Line("option", o, x) : x \in Text}
  <2>1. t[i] = Config!PrintOption(o, v)
    BY <1>3
  <2>2. IsShown(v)
    BY <1>2 DEF IsPrintable
  <2> HIDE DEF v, o
  <2>3. CASE v = None
    <3>1. t[i] = <<Config!Line("word", o, "")>>
      BY <2>1, <2>3 DEF Config!PrintOption
    <3>2. \A l : <<l>> \in Seq({l})
      OBVIOUS
    <3>3. t[i] \in Seq({Config!Line("word", o, "")})
      BY <3>1, <3>2
    <3> QED  BY <3>3
  <2>4. CASE v # None
    <3> DEFINE given == Config!At(v, {k \in DOMAIN v : v[k] # ""})
    <3>1. given \in Seq(Text)
      BY <2>2, <2>4, AtType DEF IsShown, IsSetting
    <3>2. t[i] = [k \in DOMAIN given |-> Config!Line("option", o, given[k])]
      BY <2>1, <2>4 DEF Config!PrintOption
    <3> HIDE DEF given
    <3>3. Len(given) \in Nat /\ DOMAIN given = 1 .. Len(given) /\ \A k \in 1 .. Len(given) : given[k] \in Text
      BY <3>1, LenProperties, ElementOfSeq
    <3>4. t[i] \in Seq({Config!Line("option", o, x) : x \in Text})
      BY <3>2, <3>3
    <3> QED  BY <3>4
  <2> QED  BY <2>3, <2>4
<1> QED  BY <1>4, <1>5, SequencesOfOneKind DEF t

\* What is like one is like the other.
LEMMA BecameLike ==
  ASSUME NEW d, NEW c, NEW e, NEW f, Became(d, c, e), Like(e, f)
  PROVE  Became(d, c, f)
BY DEF Became, Like, Agrees

\* The options of a section are read as they were printed.
LEMMA OptionsRead ==
  ASSUME NEW c, NEW b, NEW e, Became(c, b, e), DOMAIN e = {}, Len(b.sections) \in Nat,
         NEW s, IsPrintable(s)
  PROVE  Became(ReadFrom(c, Joined(OptionTexts(s))), b, s.options)
<1> DEFINE t == OptionTexts(s)
           opts == Config!Options(s)
           d == s.options
           n == Len(opts)
           known(i) == {opts[k] : k \in 1 .. i}
           part(i) == [o \in known(i) |-> d[o]]
<1>1. /\ opts \in Seq(DOMAIN d)
      /\ \A i, j \in 1 .. n : opts[i] = opts[j] => i = j
      /\ DOMAIN d = known(n)
  BY Listed DEF IsPrintable, IsSection, Config!Options
<1>2. PICK T : t \in Seq(Seq(T))
  BY OptionTextsType
<1>3. n \in Nat /\ DOMAIN opts = 1 .. n /\ \A i \in 1 .. n : opts[i] \in DOMAIN d
  <2> HIDE DEF opts
  <2> QED  BY <1>1, LenProperties, ElementOfSeq
<1>4. Len(t) = n /\ \A i \in 1 .. n : t[i] = Config!PrintOption(opts[i], d[opts[i]])
  <2>1. t = [i \in 1 .. n |-> Config!PrintOption(opts[i], d[opts[i]])]
    BY <1>3 DEF OptionTexts
  <2> HIDE DEF t, opts
  <2> QED  BY <1>3, <2>1
<1> HIDE DEF t, opts
<1>5. PICK h : /\ h[0] = c
               /\ \A i \in Nat : i < n => h[i + 1] = ReadFrom(h[i], t[i + 1])
               /\ ReadFrom(c, Joined(t)) = h[n]
  <2>1. \E h : /\ h[0] = c
               /\ \A i \in Nat : i < Len(t) => h[i + 1] = ReadFrom(h[i], t[i + 1])
               /\ ReadFrom(c, Joined(t)) = h[Len(t)]
    BY <1>2, ReadJoined
  <2>2. Len(t) = n
    BY <1>4
  <2> QED  BY <2>1, <2>2
<1> DEFINE S == {i \in Nat : i <= n => Became(h[i], b, part(i))}
<1>6. Became(h[0], b, part(0))
  <2>1. DOMAIN part(0) = {}
    BY 1 .. 0 = {}
  <2> HIDE DEF part
  <2>2. Like(e, part(0))
    BY <2>1 DEF Like
  <2> QED  BY <1>5, <2>2, BecameLike
<1>7. ASSUME NEW i \in Nat, i < n, Became(h[i], b, part(i))
      PROVE  Became(h[i + 1], b, part(i + 1))
  <2> DEFINE o == opts[i + 1]
  <2>1. i + 1 \in 1 .. n /\ 1 .. i + 1 = (1 .. i) \cup {i + 1} /\ 1 .. i \subseteq 1 .. n /\ i + 1 \notin 1 .. i
    BY <1>3, <1>7
  <2>2. known(i + 1) = {o} \cup known(i)
    BY <2>1
  <2>3. o \notin known(i)
    BY <1>1, <2>1
  <2>4. o \in DOMAIN d /\ IsShown(d[o])
    BY <1>3, <2>1 DEF IsPrintable
  <2>5. h[i + 1] = ReadFrom(h[i], Config!PrintOption(o, d[o]))
    BY <1>4, <1>5, <1>7, <2>1
  <2> HIDE DEF known, o
  <2>6. DOMAIN part(i) = known(i) /\ \A y \in known(i) : part(i)[y] = d[y]
    OBVIOUS
  <2>7. part(i + 1) = [y \in {o} \cup known(i) |-> d[y]]
    BY <2>2
  <2> HIDE DEF part
  <2>8. Became(h[i + 1], b, Config!With(part(i), o, d[o]))
    BY <1>7, <2>3, <2>4, <2>5, <2>6, OptionRead
  <2>9. Config!With(part(i), o, d[o]) = part(i + 1)
    <3>1. Config!With(part(i), o, d[o]) = [y \in {o} \cup known(i) |-> IF y = o THEN d[o] ELSE part(i)[y]]
      BY <2>6 DEF Config!With
    <3> QED  BY <2>6, <2>7, <3>1
  <2> QED  BY <2>8, <2>9
<1> HIDE DEF known, part
<1>8. S = Nat
  <2>1. 0 \in S /\ S \in SUBSET Nat
    BY <1>6
  <2>2. ASSUME NEW i \in S PROVE i + 1 \in S
    <3>1. i + 1 <= n => i < n /\ i <= n
      BY <1>3
    <3> QED  BY <1>7, <3>1
  <2> HIDE DEF S
  <2> QED  BY <2>1, <2>2, Induction
<1>9. Became(h[n], b, part(n))
  <2>1. n \in S
    BY <1>3, <1>8
  <2> QED  BY <1>3, <2>1
<1>10. Like(part(n), d)
  <2>1. DOMAIN part(n) = DOMAIN d /\ \A o \in DOMAIN d : part(n)[o] = d[o]
    BY <1>1 DEF part
  <2> QED  BY <2>1 DEF Like, Agrees
<1> QED  BY <1>5, <1>9, <1>10, BecameLike DEF t

\* The blank line before a header is one more value at most.
LEMMA BlankRead ==
  ASSUME NEW c, Ready(c)
  PROVE  LET d == Config!BlankLine(c)
             n == Len(c.sections)
         IN  /\ Parser(d) /\ d.error = "none" /\ d.indent = 0 /\ Len(d.sections) = n
             /\ \A i \in 1 .. n - 1 : d.sections[i] = c.sections[i]
             /\ d.sections[n].name = c.sections[n].name
             /\ Like(Config!Current(d), Config!Current(c))
<1> DEFINE o == c.option
           old == Config!Current(c)
           d == Config!BlankLine(c)
<1>1. Parser(c) /\ c.error = "none" /\ c.indent = 0
  BY DEF Ready
<1>2. \A e : Like(e, e)
  BY DEF Like, Agrees
<1>3. CASE d = c
  BY <1>1, <1>2, <1>3
<1>4. CASE o # None /\ old[o] # None
  <2>1. d = Config!AddValue(c, o, "") /\ o \in DOMAIN old
    BY <1>4 DEF Config!BlankLine, Ready
  <2> HIDE DEF o
  <2>2. /\ Parser(d) /\ Sets(d, c, o, Append(old[o], ""))
        /\ old[o] \in Seq(Text) /\ old[o] # <<>>
    <3>1. /\ Parser(Config!AddValue(c, o, ""))
          /\ o \in DOMAIN old /\ old[o] # None =>
               Sets(Config!AddValue(c, o, ""), c, o, Append(old[o], "")) /\ old[o] \in Seq(Text) /\ old[o] # <<>>
      <4>1. "" \in Text
        BY DEF Text
      <4> HIDE DEF o
      <4> QED  BY <1>1, <4>1, ValueAdded
    <3> HIDE DEF d, old
    <3> QED  BY <1>4, <2>1, <3>1
  <2> HIDE DEF old
  <2>3. Append(old[o], "") \in Seq(Text) /\ Head(Append(old[o], "")) = Head(old[o])
    <3>1. "" \in Text
      BY DEF Text
    <3> QED  BY <2>2, <3>1, OneMore
  <2>4. None \notin Seq(Text)
    BY ConfigAssumption DEF Text
  <2>5. Agrees(Append(old[o], ""), old[o])
    BY <2>2, <2>3, <2>4 DEF Agrees
  <2> HIDE DEF d
  <2>6. Like(Config!Current(d), old)
    <3>1. /\ DOMAIN Config!Current(d) = {o} \cup DOMAIN old
          /\ Config!Current(d)[o] = Append(old[o], "")
          /\ \A x \in DOMAIN old : x # o => Config!Current(d)[x] = old[x]
      BY <2>2 DEF Sets, old
    <3> QED  BY <2>1, <2>5, <3>1 DEF Like, Agrees
  <2> QED  BY <1>1, <2>2, <2>6 DEF Sets, d, old
<1>5. d = c \/ (o # None /\ old[o] # None)
  BY DEF Config!BlankLine
<1> QED  BY <1>3, <1>4, <1>5

\* The lines of a header
HeaderText(name) == <<Config!Line("blank", "", ""), Config!Line("header", name, "")>>

\* A section is its header, which the first has none of, and its options.
LEMMA SectionText ==
  ASSUME NEW s, IsPrintable(s)
  PROVE  \E T : /\ Joined(OptionTexts(s)) \in Seq(T) /\ HeaderText(s.name) \in Seq(T)
                /\ Config!PrintSection(s) = IF s.name = "default" THEN Joined(OptionTexts(s))
                                            ELSE HeaderText(s.name) \o Joined(OptionTexts(s))
<1> DEFINE t == Joined(OptionTexts(s))
           head == HeaderText(s.name)
           two == {Config!Line("blank", "", ""), Config!Line("header", s.name, "")}
<1>1. PICK T : OptionTexts(s) \in Seq(Seq(T))
  BY OptionTextsType
<1>2. t \in Seq(T)
  <2>1. PICK f : (\A i \in 0 .. Len(OptionTexts(s)) : f[i] \in Seq(T)) /\ t = f[Len(OptionTexts(s))]
    BY <1>1, JoinedGrows
  <2>2. Len(OptionTexts(s)) \in Nat
    BY <1>1, LenProperties
  <2> QED  BY <2>1, <2>2
<1>3. Config!PrintSection(s) = (IF s.name = "default" THEN <<>> ELSE head) \o t
  BY FlattenJoins DEF Config!PrintSection, OptionTexts, HeaderText, Config!Values
<1>4. head \in Seq(two)
  <2>1. \A x, y : <<x, y>> \in Seq({x, y})
    OBVIOUS
  <2> QED  BY <2>1 DEF HeaderText
<1> HIDE DEF t, head, two
<1>5. T \subseteq T \cup two /\ two \subseteq T \cup two
  OBVIOUS
<1>6. t \in Seq(T \cup two) /\ head \in Seq(T \cup two)
  BY <1>2, <1>4, <1>5, SequenceOfMore
<1>7. <<>> \o t = t
  BY <1>2, ConcatEmptySeq
<1>8. Config!PrintSection(s) = IF s.name = "default" THEN t ELSE head \o t
  BY <1>3, <1>7
<1> QED  BY <1>6, <1>8 DEF t, head

\* Two lines are read.
LEMMA ReadTwo ==
  ASSUME NEW c, NEW l, NEW m
  PROVE  ReadFrom(c, <<l, m>>) = Config!ReadLine(Config!ReadLine(c, l), m)
<1> DEFINE s == <<l, m>>
<1>1. s \in Seq({l, m}) /\ Len(s) = 2 /\ s[1] = l /\ s[2] = m
  OBVIOUS
<1> HIDE DEF s
<1>2. PICK f : /\ f[0] = c
               /\ \A i \in Nat : i < Len(s) => f[i + 1] = Config!ReadLine(f[i], s[i + 1])
               /\ ReadFrom(c, s) = f[Len(s)]
  BY <1>1, ReadFromSteps
<1>3. f[0 + 1] = Config!ReadLine(f[0], s[0 + 1]) /\ f[1 + 1] = Config!ReadLine(f[1], s[1 + 1])
  BY <1>1, <1>2
<1> QED  BY <1>1, <1>2, <1>3 DEF s

\* A header is read.
LEMMA HeaderRead ==
  ASSUME NEW c, Ready(c), NEW name
  PROVE  LET h == ReadFrom(c, HeaderText(name))
             n == Len(c.sections)
         IN  /\ Ready(h) /\ Len(h.sections) = n + 1 /\ n \in Nat /\ n >= 1
             /\ \A i \in 1 .. n - 1 : h.sections[i] = c.sections[i]
             /\ h.sections[n].name = c.sections[n].name
             /\ Like(h.sections[n].options, c.sections[n].options)
             /\ h.sections[n + 1].name = name /\ DOMAIN Config!Current(h) = {}
<1> DEFINE one == Config!Line("blank", "", "")
           two == Config!Line("header", name, "")
           d == Config!BlankLine(c)
           e == [d EXCEPT !.indent = 0]
           h == Config!Header(e, name)
           n == Len(c.sections)
<1>1. Parser(c) /\ c.error = "none" /\ c.indent = 0 /\ n \in Nat /\ n >= 1
  <2>1. \E S : c.sections \in Seq(S)
    BY DEF Ready, Parser
  <2>2. n \in Nat
    BY <2>1, LenProperties
  <2> QED  BY <2>2 DEF Ready, Parser
<1>2. ReadFrom(c, HeaderText(name)) = Config!ReadLine(Config!ReadLine(c, one), two)
  <2>1. HeaderText(name) = <<one, two>>
    BY DEF HeaderText
  <2> HIDE DEF one, two
  <2> QED  BY <2>1, ReadTwo
<1>3. Config!ReadLine(c, one) = d
  BY <1>1 DEF Config!ReadLine, Config!Line
<1>4. /\ Parser(d) /\ d.error = "none" /\ d.indent = 0 /\ Len(d.sections) = n
      /\ \A i \in 1 .. n - 1 : d.sections[i] = c.sections[i]
      /\ d.sections[n].name = c.sections[n].name
      /\ Like(Config!Current(d), Config!Current(c))
  BY BlankRead
<1> HIDE DEF d
<1>5. Config!ReadLine(d, two) = h
  BY <1>4 DEF Config!ReadLine, Config!Line
<1>6. /\ Parser(e) /\ e.indent = 0 /\ e.sections = d.sections /\ e.error = "none"
  BY <1>4, Indented
<1> HIDE DEF e, n
<1>7. /\ Parser(h) /\ Len(h.sections) = n + 1
      /\ \A i \in 1 .. n : h.sections[i] = d.sections[i]
      /\ h.sections[n + 1].name = name
      /\ DOMAIN Config!Current(h) = {}
      /\ h.option = None /\ h.indent = 0 /\ h.error = "none"
  <2>1. Len(e.sections) = n
    BY <1>4, <1>6
  <2> QED  BY <1>6, <2>1, HeaderAdds
<1> HIDE DEF h
<1>8. Ready(h)
  BY <1>7 DEF Ready
<1>9. \A i \in 1 .. n - 1 : h.sections[i] = c.sections[i]
  BY <1>1, <1>4, <1>7
<1>10. h.sections[n].name = c.sections[n].name /\ Like(h.sections[n].options, c.sections[n].options)
  <2>1. n \in 1 .. n
    BY <1>1
  <2>2. h.sections[n] = d.sections[n]
    BY <1>7, <2>1
  <2>3. Config!Current(d) = d.sections[n].options /\ Config!Current(c) = c.sections[n].options
    BY <1>4 DEF Config!Current, Config!Last, n
  <2> QED  BY <1>4, <2>2, <2>3
<1> QED  BY <1>1, <1>2, <1>3, <1>5, <1>7, <1>8, <1>9, <1>10 DEF n

\* A section that was printed with its header is read.
LEMMA SectionRead ==
  ASSUME NEW c, Ready(c), NEW s, IsPrintable(s), s.name # "default"
  PROVE  LET d == ReadFrom(c, Config!PrintSection(s))
             n == Len(c.sections)
         IN  /\ Ready(d) /\ Len(d.sections) = n + 1
             /\ \A i \in 1 .. n - 1 : d.sections[i] = c.sections[i]
             /\ d.sections[n].name = c.sections[n].name
             /\ Like(d.sections[n].options, c.sections[n].options)
             /\ d.sections[n + 1].name = s.name
             /\ Like(d.sections[n + 1].options, s.options)
<1> DEFINE h == ReadFrom(c, HeaderText(s.name))
           t == Joined(OptionTexts(s))
           d == ReadFrom(h, t)
           n == Len(c.sections)
<1>1. ReadFrom(c, Config!PrintSection(s)) = d
  <2>1. PICK T : /\ t \in Seq(T) /\ HeaderText(s.name) \in Seq(T)
                 /\ Config!PrintSection(s) = IF s.name = "default" THEN t ELSE HeaderText(s.name) \o t
    BY SectionText
  <2> HIDE DEF t
  <2> QED  BY <2>1, ReadFromConcat
<1>2. /\ Ready(h) /\ Len(h.sections) = n + 1 /\ n \in Nat /\ n >= 1
      /\ \A i \in 1 .. n - 1 : h.sections[i] = c.sections[i]
      /\ h.sections[n].name = c.sections[n].name
      /\ Like(h.sections[n].options, c.sections[n].options)
      /\ h.sections[n + 1].name = s.name /\ DOMAIN Config!Current(h) = {}
  BY HeaderRead
<1> HIDE DEF h, n
<1>3. Became(h, h, Config!Current(h))
  BY <1>2 DEF Became, Like, Agrees
<1>4. Became(d, h, s.options)
  <2>1. Len(h.sections) \in Nat
    BY <1>2
  <2> QED  BY <1>2, <1>3, <2>1, OptionsRead
<1> HIDE DEF d
<1>5. /\ Ready(d) /\ Len(d.sections) = n + 1
      /\ \A i \in 1 .. (n + 1) - 1 : d.sections[i] = h.sections[i]
      /\ d.sections[n + 1].name = h.sections[n + 1].name
      /\ Like(Config!Current(d), s.options)
  BY <1>2, <1>4 DEF Became
<1>6. \A i \in 1 .. n : d.sections[i] = h.sections[i]
  BY <1>2, <1>5
<1>7. \A i \in 1 .. n - 1 : i \in 1 .. n
  BY <1>2
<1>8. n \in 1 .. n
  BY <1>2
<1>9. Config!Current(d) = d.sections[n + 1].options
  BY <1>5 DEF Config!Current, Config!Last
<1> QED  BY <1>1, <1>2, <1>5, <1>6, <1>7, <1>8, <1>9 DEF n

\* The same sections, and the same is found in each
Shows(t, s) ==
  /\ Len(t) = Len(s)
  /\ \A i \in 1 .. Len(s) : t[i].name = s[i].name /\ Like(t[i].options, s[i].options)

\* Sections that are printed, the first without a header, are read.
LEMMA SectionsRead ==
  ASSUME NEW X, NEW s \in Seq(X), Len(s) >= 1,
         \A i \in 1 .. Len(s) : IsPrintable(s[i]) /\ (s[i].name = "default" <=> i = 1)
  PROVE  LET d == Config!Read(Config!FlattenSeq([i \in DOMAIN s |-> Config!PrintSection(s[i])]))
         IN  Ready(d) /\ Shows(d.sections, s)
<1> DEFINE t == [i \in DOMAIN s |-> Config!PrintSection(s[i])]
           n == Len(s)
           empty == Config!Empty
<1>1. n \in Nat /\ n >= 1 /\ DOMAIN s = 1 .. n
  OBVIOUS
<1>2. t \in Seq({t[i] : i \in 1 .. n}) /\ Len(t) = n /\ \A i \in 1 .. n : t[i] = Config!PrintSection(s[i])
  <2>1. t = [i \in 1 .. n |-> Config!PrintSection(s[i])]
    BY <1>1
  <2> HIDE DEF t, n
  <2> QED  BY <1>1, <2>1
<1> HIDE DEF t, n
<1>3. \A i \in 1 .. n : IsPrintable(s[i]) /\ (s[i].name = "default" <=> i = 1)
  BY DEF n
<1>4. PICK T : t \in Seq(Seq(T))
  <2>1. ASSUME NEW i \in 1 .. n
        PROVE  \E T : t[i] \in Seq(T)
    <3>1. PICK T : /\ Joined(OptionTexts(s[i])) \in Seq(T) /\ HeaderText(s[i].name) \in Seq(T)
                   /\ t[i] = IF s[i].name = "default" THEN Joined(OptionTexts(s[i]))
                             ELSE HeaderText(s[i].name) \o Joined(OptionTexts(s[i]))
      BY <1>2, <1>3, SectionText
    <3>2. HeaderText(s[i].name) \o Joined(OptionTexts(s[i])) \in Seq(T)
      BY <3>1, ConcatProperties
    <3>3. t[i] \in Seq(T)
      BY <3>1, <3>2
    <3> QED  BY <3>3
  <2> QED  BY <1>2, <2>1, SequencesOfOneKind
<1>5. PICK h : /\ h[0] = empty
               /\ \A i \in Nat : i < n => h[i + 1] = ReadFrom(h[i], t[i + 1])
               /\ ReadFrom(empty, Joined(t)) = h[n]
  <2>1. \E h : /\ h[0] = empty
               /\ \A i \in Nat : i < Len(t) => h[i + 1] = ReadFrom(h[i], t[i + 1])
               /\ ReadFrom(empty, Joined(t)) = h[Len(t)]
    BY <1>4, ReadJoined
  <2>2. Len(t) = n
    BY <1>2
  <2> QED  BY <2>1, <2>2
<1>6. Config!Read(Config!FlattenSeq(t)) = h[n]
  BY <1>5, FlattenJoins, ReadIsReadFrom
<1> DEFINE Good(i) == /\ Ready(h[i]) /\ Len(h[i].sections) = i
                      /\ \A j \in 1 .. i : /\ h[i].sections[j].name = s[j].name
                                           /\ Like(h[i].sections[j].options, s[j].options)
           S == {i \in Nat : i + 1 <= n => Good(i + 1)}
<1>7. Good(1)
  <2>1. /\ Parser(empty) /\ Len(empty.sections) = 1 /\ DOMAIN Config!Current(empty) = {}
        /\ empty.option = None /\ empty.indent = 0 /\ empty.error = "none"
    BY EmptyParser
  <2> HIDE DEF empty
  <2>2. Became(empty, empty, Config!Current(empty))
    BY <2>1 DEF Became, Ready, Like, Agrees
  <2>3. IsPrintable(s[1]) /\ s[1].name = "default"
    BY <1>1, <1>3
  <2>4. h[1] = ReadFrom(empty, Joined(OptionTexts(s[1])))
    <3>1. h[0 + 1] = ReadFrom(h[0], t[0 + 1])
      BY <1>1, <1>5
    <3>2. t[1] = Config!PrintSection(s[1])
      BY <1>1, <1>2
    <3>3. t[1] = Joined(OptionTexts(s[1]))
      BY <2>3, <3>2, SectionText
    <3> QED  BY <1>5, <3>1, <3>3
  <2>5. Became(h[1], empty, s[1].options)
    BY <2>1, <2>2, <2>3, <2>4, OptionsRead
  <2>6. /\ Ready(h[1]) /\ Len(h[1].sections) = 1
        /\ h[1].sections[1].name = "default"
        /\ Like(h[1].sections[1].options, s[1].options)
    <3>1. empty.sections[1].name = "default"
      BY <2>1 DEF Parser
    <3> QED  BY <2>1, <2>5, <3>1 DEF Became, Config!Current, Config!Last
  <2>7. \A j \in 1 .. 1 : j = 1
    OBVIOUS
  <2> QED  BY <2>3, <2>6, <2>7
<1>8. ASSUME NEW i \in Nat, i >= 1, i < n, Good(i)
      PROVE  Good(i + 1)
  <2> DEFINE c == h[i]
             d == h[i + 1]
  <2>1. i + 1 \in 1 .. n /\ i \in 1 .. n /\ i + 1 # 1
    BY <1>1, <1>8
  <2>2. d = ReadFrom(c, Config!PrintSection(s[i + 1]))
    BY <1>2, <1>5, <1>8, <2>1
  <2>3. IsPrintable(s[i + 1]) /\ s[i + 1].name # "default"
    BY <1>3, <2>1
  <2>4. /\ Ready(c) /\ Len(c.sections) = i
        /\ \A j \in 1 .. i : c.sections[j].name = s[j].name /\ Like(c.sections[j].options, s[j].options)
    BY <1>8
  <2> HIDE DEF c, d
  <2>5. /\ Ready(d) /\ Len(d.sections) = i + 1
        /\ \A j \in 1 .. i - 1 : d.sections[j] = c.sections[j]
        /\ d.sections[i].name = c.sections[i].name
        /\ Like(d.sections[i].options, c.sections[i].options)
        /\ d.sections[i + 1].name = s[i + 1].name
        /\ Like(d.sections[i + 1].options, s[i + 1].options)
    <3> DEFINE e == s[i + 1]
               r == ReadFrom(c, Config!PrintSection(e))
               m == Len(c.sections)
    <3>1. Ready(c) /\ IsPrintable(e) /\ e.name # "default"
      BY <2>3, <2>4
    <3>2. m = i /\ r = d
      BY <2>2, <2>4
    <3> HIDE DEF e
    <3>3. /\ Ready(r) /\ Len(r.sections) = m + 1
          /\ \A j \in 1 .. m - 1 : r.sections[j] = c.sections[j]
          /\ r.sections[m].name = c.sections[m].name
          /\ Like(r.sections[m].options, c.sections[m].options)
          /\ r.sections[m + 1].name = e.name
          /\ Like(r.sections[m + 1].options, e.options)
      BY <3>1, SectionRead
    <3> HIDE DEF r, m
    <3> QED  BY <3>2, <3>3 DEF e
  <2>6. Like(d.sections[i].options, s[i].options)
    <3>1. i \in 1 .. i
      BY <1>8
    <3>2. Like(c.sections[i].options, s[i].options)
      BY <2>4, <3>1
    <3> QED  BY <2>5, <3>2 DEF Like, Agrees
  <2>7. ASSUME NEW j \in 1 .. i + 1
        PROVE  d.sections[j].name = s[j].name /\ Like(d.sections[j].options, s[j].options)
    <3>1. j = i + 1 \/ j = i \/ j \in 1 .. i - 1
      OBVIOUS
    <3>2. j # i + 1 => j \in 1 .. i
      OBVIOUS
    <3> QED  BY <2>4, <2>5, <2>6, <3>1, <3>2
  <2> QED  BY <2>5, <2>7 DEF d
<1>9. S = Nat
  <2> HIDE DEF Good
  <2>1. 0 \in S /\ S \in SUBSET Nat
    BY <1>7
  <2>2. ASSUME NEW i \in S PROVE i + 1 \in S
    <3>1. (i + 1) + 1 <= n => i + 1 \in Nat /\ i + 1 >= 1 /\ i + 1 < n /\ i + 1 <= n
      BY <1>1
    <3> QED  BY <1>8, <3>1
  <2> HIDE DEF S
  <2> QED  BY <2>1, <2>2, Induction
<1>10. Good(n)
  <2> HIDE DEF Good
  <2>1. n - 1 \in Nat /\ (n - 1) + 1 = n /\ n <= n
    BY <1>1
  <2>2. n - 1 \in S
    BY <1>9, <2>1
  <2> QED  BY <2>1, <2>2
<1> QED  BY <1>6, <1>10 DEF Shows, t, n

(***************************************************************************)
(* Printing takes the sections by their names.                             *)
(***************************************************************************)

\* The sections of a name, in their order
OfName(s, p) == Config!At(s, {i \in DOMAIN s : s[i].name = p})

\* They are of the sections, and have the name.
LEMMA OfNameMembers ==
  ASSUME NEW X, NEW s \in Seq(X), NEW p
  PROVE  /\ OfName(s, p) \in Seq(X)
         /\ \A k \in 1 .. Len(OfName(s, p)) :
              OfName(s, p)[k].name = p /\ \E i \in 1 .. Len(s) : OfName(s, p)[k] = s[i]
<1> DEFINE P == {i \in DOMAIN s : s[i].name = p}
           n == Len(s)
           g == Places(n, P)
           t == Config!At(s, P)
<1>1. n \in Nat
  OBVIOUS
<1>2. t \in Seq(X) /\ Len(t) = Len(g) /\ \A k \in 1 .. Len(t) : t[k] = s[g[k]]
  BY AtPlaces
<1>3. \A i \in P : s[i].name = p
  OBVIOUS
<1>4. OfName(s, p) = t
  BY DEF OfName
<1> HIDE DEF P, n, t
<1>5. g \in Seq(1 .. n) /\ \A k \in 1 .. Len(g) : g[k] \in P
  BY <1>1, PlacesOrdered
<1> HIDE DEF g
<1>6. \A k \in 1 .. Len(g) : g[k] \in 1 .. n
  BY <1>5, ElementOfSeq
<1>7. ASSUME NEW k \in 1 .. Len(t)
      PROVE  t[k].name = p /\ \E i \in 1 .. n : t[k] = s[i]
  <2>1. t[k] = s[g[k]] /\ g[k] \in P /\ g[k] \in 1 .. n
    BY <1>2, <1>5, <1>6
  <2> QED  BY <1>3, <2>1
<1> QED  BY <1>2, <1>4, <1>7 DEF n

\* Of two rows of sections, those of the first come first.
ComesFirst(a, b, p) == OfName(a \o b, p) = OfName(a, p) \o OfName(b, p)

\* So it is of sections.
LEMMA OfNameConcat ==
  ASSUME NEW X, NEW a \in Seq(X), NEW b \in Seq(X), NEW p
  PROVE  ComesFirst(a, b, p)
<1> DEFINE P == {i \in DOMAIN a : a[i].name = p}
           Q == {i \in DOMAIN b : b[i].name = p}
           R == {i \in DOMAIN (a \o b) : (a \o b)[i].name = p}
<1>1. /\ DOMAIN a = 1 .. Len(a) /\ DOMAIN b = 1 .. Len(b) /\ Len(a) \in Nat /\ Len(b) \in Nat
      /\ DOMAIN (a \o b) = 1 .. Len(a) + Len(b)
      /\ \A i \in 1 .. Len(a) : (a \o b)[i] = a[i]
      /\ \A i \in 1 .. Len(b) : (a \o b)[Len(a) + i] = b[i]
  OBVIOUS
<1>2. \A i \in 1 .. Len(a) : i \in R <=> i \in P
  <2>1. \A i \in 1 .. Len(a) : i \in 1 .. Len(a) + Len(b)
    BY <1>1
  <2> QED  BY <1>1, <2>1
<1>3. \A i \in 1 .. Len(b) : Len(a) + i \in R <=> i \in Q
  <2>1. \A i \in 1 .. Len(b) : Len(a) + i \in 1 .. Len(a) + Len(b)
    BY <1>1
  <2> QED  BY <1>1, <2>1
<1>4. OfName(a \o b, p) = Config!At(a \o b, R) /\ OfName(a, p) = Config!At(a, P)
      /\ OfName(b, p) = Config!At(b, Q)
  BY DEF OfName
<1> HIDE DEF P, Q, R
<1>5. Config!At(a \o b, R) = Config!At(a, P) \o Config!At(b, Q)
  <2>1. Together(R, P, Len(a), Q, Len(b))
    BY <1>2, <1>3 DEF Together
  <2> QED  BY <2>1, AtConcat
<1> QED  BY <1>4, <1>5 DEF ComesFirst

\* Sections of one name are all of that name, and none of another.
LEMMA OfNameAgain ==
  ASSUME NEW X, NEW s \in Seq(X), NEW p, NEW q
  PROVE  OfName(OfName(s, p), q) = IF q = p THEN OfName(s, p) ELSE <<>>
<1> DEFINE t == OfName(s, p)
           P == {i \in DOMAIN t : t[i].name = q}
<1>1. t \in Seq(X) /\ \A k \in 1 .. Len(t) : t[k].name = p
  BY OfNameMembers
<1> HIDE DEF t
<1>2. DOMAIN t = 1 .. Len(t)
  BY <1>1, LenProperties
<1>3. OfName(t, q) = Config!At(t, P)
  BY DEF OfName
<1>4. q = p => \A i \in 1 .. Len(t) : i \in P
  BY <1>1, <1>2
<1>5. q # p => \A i \in 1 .. Len(t) : i \notin P
  BY <1>1, <1>2
<1> HIDE DEF P
<1>6. q = p => Config!At(t, P) = t
  BY <1>1, <1>4, AtAll
<1>7. q # p => Config!At(t, P) = <<>>
  BY <1>1, <1>5, AtNone
<1> QED  BY <1>3, <1>6, <1>7 DEF t

\* The names are each there once, the first one first.
LEMMA NamesListed ==
  ASSUME NEW c, NEW X, c.sections \in Seq(X), Len(c.sections) >= 1
  PROVE  LET s == c.sections
             t == Config!Names(c)
         IN  /\ \E Y : t \in Seq(Y)
             /\ Len(t) >= 1 /\ t[1] = s[1].name
             /\ \A i, j \in 1 .. Len(t) : t[i] = t[j] => i = j
             /\ \A i \in 1 .. Len(s) : \E k \in 1 .. Len(t) : t[k] = s[i].name
<1> DEFINE s == c.sections
           n == Len(s)
           names == [i \in DOMAIN s |-> s[i].name]
           P == {i \in DOMAIN names : \A j \in 1 .. i - 1 : names[j] # names[i]}
           Y == {names[i] : i \in 1 .. n}
           g == Places(n, P)
           t == Config!At(names, P)
<1>1. Config!Names(c) = t
  BY DEF Config!Names
<1>2. n \in Nat /\ n >= 1 /\ DOMAIN s = 1 .. n
  BY LenProperties
<1> HIDE DEF n
<1>3. /\ names \in Seq(Y) /\ Len(names) = n /\ DOMAIN names = 1 .. n
      /\ \A i \in 1 .. n : names[i] = s[i].name
  <2>1. names = [i \in 1 .. n |-> s[i].name]
    BY <1>2
  <2> HIDE DEF names, s
  <2> QED  BY <1>2, <2>1
<1> HIDE DEF names, s, Y
<1>4. P = {i \in 1 .. n : \A j \in 1 .. i - 1 : names[j] # names[i]}
  BY <1>3
<1>5. 1 \in P
  BY <1>2, <1>4
<1>6. \A i, j \in P : i < j => names[i] # names[j]
  <2>1. \A i, j \in 1 .. n : i < j => i \in 1 .. j - 1
    BY <1>2
  <2> QED  BY <1>4, <2>1
<1> DEFINE Known(i) == \E j \in P : j \in 1 .. n /\ names[j] = names[i]
           S == {m \in Nat : \A i \in 1 .. n : i <= m => Known(i)}
<1>7. S = Nat
  <2>1. 0 \in S /\ S \in SUBSET Nat
    OBVIOUS
  <2>2. ASSUME NEW m \in S PROVE m + 1 \in S
    <3> SUFFICES ASSUME NEW i \in 1 .. n, i <= m + 1 PROVE Known(i)
      OBVIOUS
    <3>1. CASE i \in P
      BY <3>1
    <3>2. CASE i \notin P
      <4>1. PICK j \in 1 .. i - 1 : names[j] = names[i]
        BY <1>4, <3>2
      <4>2. j \in 1 .. n /\ j <= m
        BY <1>2, <4>1
      <4>3. Known(j)
        BY <4>2
      <4> QED  BY <4>1, <4>3
    <3> QED  BY <3>1, <3>2
  <2> HIDE DEF S
  <2> QED  BY <2>1, <2>2, Induction
<1>8. \A i \in 1 .. n : Known(i)
  <2>1. n \in S
    BY <1>2, <1>7
  <2> HIDE DEF Known
  <2>2. \A i \in 1 .. n : i <= n
    BY <1>2
  <2> QED  BY <2>1, <2>2
<1> HIDE DEF P
<1>9. t \in Seq(Y) /\ Len(t) = Len(g) /\ \A k \in 1 .. Len(t) : t[k] = names[g[k]]
  BY <1>3, AtPlaces
<1>10. Len(t) >= 1 /\ t[1] = names[1]
  BY <1>2, <1>3, <1>5, FirstAt
<1>11. /\ g \in Seq(1 .. n) /\ \A k \in 1 .. Len(g) : g[k] \in P
       /\ \A k, l \in 1 .. Len(g) : k < l => g[k] < g[l]
       /\ \A j \in 1 .. n : j \in P => \E k \in 1 .. Len(g) : g[k] = j
  BY <1>2, PlacesOrdered
<1> HIDE DEF g, t
<1>12. \A i, j \in 1 .. Len(t) : i < j => t[i] # t[j]
  BY <1>6, <1>9, <1>11
<1>13. \A i, j \in 1 .. Len(t) : t[i] = t[j] => i = j
  <2>1. Len(t) \in Nat
    BY <1>9, LenProperties
  <2>2. \A i, j \in 1 .. Len(t) : i < j \/ j < i \/ i = j
    BY <2>1
  <2> QED  BY <1>12, <2>2
<1>14. ASSUME NEW i \in 1 .. n
       PROVE  \E k \in 1 .. Len(t) : t[k] = names[i]
  <2>1. PICK j \in P : j \in 1 .. n /\ names[j] = names[i]
    BY <1>8
  <2>2. PICK k \in 1 .. Len(g) : g[k] = j
    BY <1>11, <2>1
  <2> QED  BY <1>9, <2>1, <2>2
<1>15. 1 \in 1 .. n
  BY <1>2
<1> QED  BY <1>1, <1>3, <1>9, <1>10, <1>13, <1>14, <1>15 DEF s, n

\* Only the first section is called default.
FirstIsDefault(s) == Len(s) >= 1 /\ \A i \in 1 .. Len(s) : s[i].name = "default" <=> i = 1

\* It is all there is of that name.
LEMMA DefaultAlone ==
  ASSUME NEW X, NEW s \in Seq(X), FirstIsDefault(s)
  PROVE  LET t == OfName(s, "default") IN t \in Seq(X) /\ Len(t) = 1 /\ t[1] = s[1]
<1> DEFINE n == Len(s)
           P == {i \in DOMAIN s : s[i].name = "default"}
           g == Places(n, P)
           t == Config!At(s, P)
<1>1. n \in Nat /\ n >= 1 /\ DOMAIN s = 1 .. n
  BY DEF FirstIsDefault
<1>2. \A i \in 1 .. n : i \in P <=> i = 1
  BY <1>1 DEF FirstIsDefault
<1>3. OfName(s, "default") = t
  BY DEF OfName
<1>4. t \in Seq(X) /\ Len(t) = Len(g) /\ \A k \in 1 .. Len(t) : t[k] = s[g[k]]
  BY AtPlaces
<1> HIDE DEF n, P
<1>5. /\ g \in Seq(1 .. n)
      /\ \A k \in 1 .. Len(g) : g[k] \in P
      /\ \A k, l \in 1 .. Len(g) : k < l => g[k] < g[l]
      /\ \A j \in 1 .. n : j \in P => \E k \in 1 .. Len(g) : g[k] = j
  BY <1>1, PlacesOrdered
<1> HIDE DEF g, t
<1>6. Len(g) \in Nat /\ \A k \in 1 .. Len(g) : g[k] = 1
  <2>1. g \in Seq(1 .. n)
    BY <1>5
  <2>2. Len(g) \in Nat /\ \A k \in 1 .. Len(g) : g[k] \in 1 .. n
    BY <2>1, LenProperties, ElementOfSeq
  <2> QED  BY <1>2, <1>5, <2>2
<1>7. Len(g) = 1
  <2>1. ~(1 \in 1 .. Len(g) /\ 2 \in 1 .. Len(g))
    BY <1>5, <1>6
  <2>2. \E k \in 1 .. Len(g) : g[k] = 1
    BY <1>1, <1>2, <1>5
  <2>3. Len(g) >= 1 /\ ~(Len(g) >= 2)
    BY <1>6, <2>1, <2>2
  <2>4. \A k \in Nat : k >= 1 /\ ~(k >= 2) => k = 1
    OBVIOUS
  <2>5. Len(g) \in Nat
    BY <1>6
  <2> QED  BY <2>3, <2>4, <2>5
<1> QED  BY <1>3, <1>4, <1>6, <1>7

\* The sections of each name, one name after the other
ByName(c) == [k \in DOMAIN Config!Names(c) |-> OfName(c.sections, Config!Names(c)[k])]

\* Two rows of sections, the first of which begins with the only one called default
LEMMA DefaultStaysFirst ==
  ASSUME NEW X, NEW a \in Seq(X), NEW b \in Seq(X), FirstIsDefault(a),
         \A k \in 1 .. Len(b) : b[k].name # "default"
  PROVE  FirstIsDefault(a \o b) /\ (a \o b)[1] = a[1]
<1> DEFINE ab == a \o b
           n == Len(a)
           m == Len(b)
<1>1. /\ Len(ab) = n + m /\ n \in Nat /\ m \in Nat
      /\ \A i \in 1 .. n : ab[i] = a[i]
      /\ \A i \in 1 .. m : ab[n + i] = b[i]
  OBVIOUS
<1>2. n >= 1 /\ \A i \in 1 .. n : a[i].name = "default" <=> i = 1
  BY DEF FirstIsDefault
<1>3. \A i \in 1 .. m : b[i].name # "default"
  OBVIOUS
<1> HIDE DEF ab, n, m
<1>4. ASSUME NEW i \in 1 .. n + m
      PROVE  ab[i].name = "default" <=> i = 1
  <2>1. CASE i \in 1 .. n
    BY <1>1, <1>2, <2>1
  <2>2. CASE i \notin 1 .. n
    <3>1. i - n \in 1 .. m /\ n + (i - n) = i /\ i # 1
      BY <1>1, <1>2, <2>2
    <3> QED  BY <1>1, <1>3, <3>1
  <2> QED  BY <2>1, <2>2
<1>5. FirstIsDefault(ab) /\ ab[1] = a[1]
  BY <1>1, <1>2, <1>4 DEF FirstIsDefault
<1> QED  BY <1>5 DEF ab

\* Printing takes the sections by their names: the default section first, all of those
\* there are, and those of one name in their order.
LEMMA Regrouped ==
  ASSUME NEW c, NEW X, c.sections \in Seq(X), FirstIsDefault(c.sections), NEW p
  PROVE  LET s == c.sections
             all == Joined(ByName(c))
         IN  /\ all \in Seq(X) /\ FirstIsDefault(all) /\ all[1] = s[1]
             /\ OfName(all, p) = OfName(s, p)
<1> DEFINE s == c.sections
           names == Config!Names(c)
           m == Len(names)
           t == ByName(c)
           Is(q, k) == names[k] = q
<1>0. s \in Seq(X) /\ Len(s) >= 1 /\ s[1].name = "default"
  <2>1. Len(s) \in Nat /\ Len(s) >= 1
    BY DEF FirstIsDefault
  <2> QED  BY <2>1 DEF FirstIsDefault
<1>1. /\ \E Y : names \in Seq(Y)
      /\ m >= 1 /\ names[1] = s[1].name
      /\ \A i, j \in 1 .. m : names[i] = names[j] => i = j
      /\ \A i \in 1 .. Len(s) : \E k \in 1 .. m : names[k] = s[i].name
  BY <1>0, NamesListed
<1>2. FirstIsDefault(s)
  OBVIOUS
<1> HIDE DEF names, s
<1>3. m \in Nat /\ DOMAIN names = 1 .. m
  BY <1>1, LenProperties
<1>4. t = [k \in 1 .. m |-> OfName(s, names[k])]
  BY <1>3 DEF ByName, names, s
<1> HIDE DEF m, t
<1>5. \A q : OfName(s, q) \in Seq(X)
  BY <1>0, OfNameMembers
<1>6. t \in Seq(Seq(X)) /\ Len(t) = m /\ \A k \in 1 .. m : t[k] = OfName(s, names[k])
  BY <1>3, <1>4, <1>5
<1>7. PICK f : /\ f[0] = <<>>
               /\ \A i \in Nat : i < m => f[i + 1] = f[i] \o t[i + 1]
               /\ \A i \in 0 .. m : f[i] \in Seq(X)
               /\ Joined(t) = f[m]
  <2>1. \E f : /\ f[0] = <<>>
               /\ \A i \in Nat : i < Len(t) => f[i + 1] = f[i] \o t[i + 1]
               /\ \A i \in 0 .. Len(t) : f[i] \in Seq(X)
               /\ Joined(t) = f[Len(t)]
    BY <1>6, JoinedGrows
  <2> QED  BY <1>6, <2>1
<1> DEFINE Known(i) == \E k \in 1 .. i : names[k] = p
           First(i) == FirstIsDefault(f[i + 1]) /\ f[i + 1][1] = s[1]
           Same(i) == OfName(f[i], p) = IF Known(i) THEN OfName(s, p) ELSE <<>>
           S == {i \in Nat : i + 1 <= m => First(i)}
           U == {i \in Nat : i <= m => Same(i)}
<1>8. First(0)
  <2>1. f[1] = f[0] \o t[1] /\ t[1] = OfName(s, "default") /\ f[0] = <<>>
    <3>1. 0 \in Nat /\ 0 < m
      BY <1>1, <1>3
    <3>2. f[0 + 1] = f[0] \o t[0 + 1]
      BY <1>7, <3>1
    <3>3. 1 \in 1 .. m
      BY <1>1, <1>3
    <3>4. t[1] = OfName(s, "default")
      BY <1>0, <1>1, <1>6, <3>3
    <3> QED  BY <1>7, <3>2, <3>4
  <2>2. t[1] \in Seq(X) /\ Len(t[1]) = 1 /\ t[1][1] = s[1]
    BY <1>0, <1>2, <2>1, DefaultAlone
  <2>3. f[1] = t[1]
    BY <2>1, <2>2
  <2> QED  BY <1>0, <2>2, <2>3 DEF FirstIsDefault
<1>9. ASSUME NEW i \in Nat, (i + 1) + 1 <= m, First(i)
      PROVE  First(i + 1)
  <2> DEFINE a == f[i + 1]
             b == t[(i + 1) + 1]
  <2>1. (i + 1) + 1 \in 1 .. m /\ i + 1 \in Nat /\ i + 1 < m /\ i + 1 \in 0 .. m /\ (i + 1) + 1 # 1
    BY <1>3, <1>9
  <2>2. f[(i + 1) + 1] = a \o b
    BY <1>7, <2>1
  <2>3. a \in Seq(X) /\ FirstIsDefault(a) /\ a[1] = s[1]
    BY <1>7, <1>9, <2>1
  <2>4. b \in Seq(X) /\ b = OfName(s, names[(i + 1) + 1])
    BY <1>5, <1>6, <2>1
  <2>5. names[(i + 1) + 1] # "default"
    <3>1. 1 \in 1 .. m
      BY <1>1, <1>3
    <3> QED  BY <1>0, <1>1, <2>1, <3>1
  <2>6. \A k \in 1 .. Len(b) : b[k].name # "default"
    BY <1>0, <2>4, <2>5, OfNameMembers
  <2> HIDE DEF a, b
  <2>7. FirstIsDefault(a \o b) /\ (a \o b)[1] = a[1]
    BY <2>3, <2>4, <2>6, DefaultStaysFirst
  <2> QED  BY <2>2, <2>3, <2>7
<1>10. S = Nat
  <2> HIDE DEF First
  <2>1. 0 \in S /\ S \in SUBSET Nat
    BY <1>8
  <2>2. ASSUME NEW i \in S PROVE i + 1 \in S
    <3>1. (i + 1) + 1 <= m => i + 1 <= m
      BY <1>3
    <3> QED  BY <1>9, <3>1
  <2> HIDE DEF S
  <2> QED  BY <2>1, <2>2, Induction
<1>11. FirstIsDefault(f[m]) /\ f[m][1] = s[1]
  <2>1. m - 1 \in Nat /\ (m - 1) + 1 = m
    BY <1>1, <1>3
  <2>2. m - 1 \in S
    BY <1>10, <2>1
  <2>3. First(m - 1)
    BY <2>1, <2>2
  <2> QED  BY <2>1, <2>3
<1>12. Same(0)
  <2> DEFINE e == <<>>
  <2>1. e \in Seq(X) /\ Len(e) = 0
    OBVIOUS
  <2> HIDE DEF e
  <2>2. OfName(e, p) = <<>>
    <3> DEFINE P == {i \in DOMAIN e : e[i].name = p}
    <3>1. \A i \in 1 .. Len(e) : i \notin P
      BY <2>1
    <3>2. OfName(e, p) = Config!At(e, P)
      BY DEF OfName
    <3> HIDE DEF P
    <3>3. Config!At(e, P) = <<>>
      BY <2>1, <3>1, AtNone
    <3> QED  BY <3>2, <3>3
  <2>3. ~Known(0)
    OBVIOUS
  <2> QED  BY <1>7, <2>2, <2>3 DEF e
<1>13. ASSUME NEW i \in Nat, i < m, Same(i)
       PROVE  Same(i + 1)
  <2> DEFINE a == f[i]
             b == t[i + 1]
  <2>1. i + 1 \in 1 .. m /\ i \in 0 .. m
    BY <1>3, <1>13
  <2>2. f[i + 1] = a \o b
    BY <1>7, <1>13
  <2>3. a \in Seq(X) /\ b \in Seq(X) /\ b = OfName(s, names[i + 1])
    BY <1>5, <1>6, <1>7, <2>1
  <2>4. OfName(b, p) = IF p = names[i + 1] THEN OfName(s, p) ELSE <<>>
    BY <1>0, <2>3, OfNameAgain
  <2>5. Known(i + 1) <=> Known(i) \/ names[i + 1] = p
    <3>1. \A k \in 1 .. i + 1 : k \in 1 .. i \/ k = i + 1
      OBVIOUS
    <3>2. \A k \in 1 .. i : k \in 1 .. i + 1
      OBVIOUS
    <3>3. i + 1 \in 1 .. i + 1
      OBVIOUS
    <3> QED  BY <3>1, <3>2, <3>3
  <2>6. ~(Known(i) /\ names[i + 1] = p)
    <3>1. \A k \in 1 .. i : k \in 1 .. m /\ k # i + 1
      BY <1>3, <1>13
    <3> QED  BY <1>1, <2>1, <3>1
  <2>7. OfName(a, p) = IF Known(i) THEN OfName(s, p) ELSE <<>>
    BY <1>13
  <2> HIDE DEF a, b, Known
  <2>8. OfName(a \o b, p) = OfName(a, p) \o OfName(b, p)
    <3>1. ComesFirst(a, b, p)
      BY <2>3, OfNameConcat
    <3> QED  BY <3>1 DEF ComesFirst
  <2> DEFINE own == OfName(s, p)
  <2>9. own \in Seq(X)
    BY <1>5
  <2> HIDE DEF own
  <2>10. own \o <<>> = own /\ <<>> \o own = own /\ <<>> \o <<>> = <<>>
    BY <2>9
  <2>11. OfName(a \o b, p) = IF Known(i + 1) THEN own ELSE <<>>
    BY <2>4, <2>5, <2>6, <2>7, <2>8, <2>10 DEF own
  <2> QED  BY <2>2, <2>11 DEF own
<1>14. U = Nat
  <2> HIDE DEF Same
  <2>1. 0 \in U /\ U \in SUBSET Nat
    BY <1>12
  <2>2. ASSUME NEW i \in U PROVE i + 1 \in U
    <3>1. i + 1 <= m => i < m /\ i <= m
      BY <1>3
    <3> QED  BY <1>13, <3>1
  <2> HIDE DEF U
  <2> QED  BY <2>1, <2>2, Induction
<1>15. Same(m)
  <2> HIDE DEF Same
  <2>1. m \in U
    BY <1>3, <1>14
  <2> QED  BY <1>3, <2>1
<1>16. ~Known(m) => OfName(s, p) = <<>>
  <2>1. SUFFICES ASSUME ~Known(m) PROVE OfName(s, p) = <<>>
    OBVIOUS
  <2>2. DOMAIN s = 1 .. Len(s)
    BY <1>0, LenProperties
  <2>3. \A i \in 1 .. Len(s) : s[i].name # p
    BY <1>1, <2>1
  <2> DEFINE P == {i \in DOMAIN s : s[i].name = p}
  <2>4. \A i \in 1 .. Len(s) : i \notin P
    BY <2>2, <2>3
  <2>5. OfName(s, p) = Config!At(s, P)
    BY DEF OfName
  <2> HIDE DEF P
  <2> QED  BY <1>0, <2>4, <2>5, AtNone
<1>17. OfName(f[m], p) = OfName(s, p)
  BY <1>15, <1>16
<1>18. f[m] \in Seq(X)
  BY <1>3, <1>7
<1> QED  BY <1>7, <1>11, <1>17, <1>18 DEF s, t

(***************************************************************************)
(* The same contest is made of sections in which the same is found.        *)
(***************************************************************************)

\* Of a name the same sections are found.
LEMMA OfNameShows ==
  ASSUME NEW X, NEW t \in Seq(X), NEW Y, NEW s \in Seq(Y), Shows(t, s), NEW p
  PROVE  Shows(OfName(t, p), OfName(s, p))
<1> DEFINE n == Len(s)
           P == {i \in 1 .. n : s[i].name = p}
           g == Places(n, P)
           a == Config!At(t, P)
           b == Config!At(s, P)
<1>1. /\ n \in Nat /\ Len(t) = n /\ DOMAIN s = 1 .. n /\ DOMAIN t = 1 .. n
      /\ \A i \in 1 .. n : t[i].name = s[i].name /\ Like(t[i].options, s[i].options)
  <2>1. /\ Len(t) = Len(s)
        /\ \A i \in 1 .. Len(s) : t[i].name = s[i].name /\ Like(t[i].options, s[i].options)
    BY DEF Shows
  <2>2. Len(s) \in Nat /\ DOMAIN s = 1 .. Len(s) /\ DOMAIN t = 1 .. Len(t)
    BY LenProperties
  <2> QED  BY <2>1, <2>2
<1> HIDE DEF n
<1>2. OfName(t, p) = a /\ OfName(s, p) = b
  <2>1. {i \in DOMAIN t : t[i].name = p} = P /\ {i \in DOMAIN s : s[i].name = p} = P
    BY <1>1
  <2> HIDE DEF P
  <2> QED  BY <2>1 DEF OfName
<1> HIDE DEF P
<1>3. Len(b) = Len(g) /\ \A k \in 1 .. Len(b) : b[k] = s[g[k]]
  BY AtPlaces DEF n
<1>4. Len(a) = Len(g) /\ \A k \in 1 .. Len(a) : a[k] = t[g[k]]
  <2>1. Places(Len(t), P) = g
    BY <1>1
  <2> HIDE DEF g
  <2>2. Len(a) = Len(Places(Len(t), P)) /\ \A k \in 1 .. Len(a) : a[k] = t[Places(Len(t), P)[k]]
    BY AtPlaces
  <2> QED  BY <2>1, <2>2
<1>5. g \in Seq(1 .. n)
  BY <1>1, PlacesOrdered
<1> HIDE DEF g, a, b
<1>6. \A k \in 1 .. Len(g) : g[k] \in 1 .. n
  BY <1>5, ElementOfSeq
<1> QED  BY <1>1, <1>2, <1>3, <1>4, <1>6 DEF Shows

\* The same is asked of two such sections.
LEMMA LikeFound ==
  ASSUME NEW d, NEW e, Like(d, e)
  PROVE  /\ DOMAIN d = DOMAIN e
         /\ \A o : Config!Has(d, o) <=> Config!Has(e, o)
         /\ \A o : Config!NoValue(d, o) <=> Config!NoValue(e, o)
         /\ \A o : Config!Has(e, o) => Config!First(d, o) = Config!First(e, o)
<1>1. DOMAIN d = DOMAIN e /\ \A o \in DOMAIN d : (d[o] = None <=> e[o] = None) /\ Head(d[o]) = Head(e[o])
  BY DEF Like, Agrees
<1> QED  BY <1>1 DEF Config!Has, Config!NoValue, Config!First, Config!Values

\* Abstract problems under the same names
LikeAll(f, g) == DOMAIN f = DOMAIN g /\ \A x \in DOMAIN f : Like(f[x], g[x])

\* The same problem is made of two such sections, or none.
LEMMA LikeProblem ==
  ASSUME NEW c, NEW k, Like(c.sections[1].options, k.sections[1].options),
         NEW d, NEW e, Like(d, e), NEW f, NEW g, LikeAll(f, g), NEW id
  PROVE  /\ Config!Broken(d, f) <=> Config!Broken(e, g)
         /\ Config!Problem(c, d, f, id) = Config!Problem(k, e, g, id)
<1> DEFINE Alike(x, y) ==
             /\ DOMAIN x = DOMAIN y
             /\ \A o : Config!Has(x, o) <=> Config!Has(y, o)
             /\ \A o : Config!NoValue(x, o) <=> Config!NoValue(y, o)
             /\ \A o : Config!Has(y, o) => Config!First(x, o) = Config!First(y, o)
<1>1. \A x, y : Like(x, y) => Alike(x, y)
  BY LikeFound
<1>2. Alike(d, e) /\ Alike(c.sections[1].options, k.sections[1].options)
  BY <1>1
<1>3. DOMAIN f = DOMAIN g /\ \A x \in DOMAIN f : Alike(f[x], g[x])
  BY <1>1 DEF LikeAll
<1> DEFINE a == Config!Inherited(d, f)
           b == Config!Inherited(e, g)
<1>4. Alike(a, b)
  <2> DEFINE nothing == <<>>
  <2>1. Alike(nothing, nothing)
    OBVIOUS
  <2> HIDE DEF Alike, nothing
  <2>2. (Config!Has(d, "super") <=> Config!Has(e, "super"))
        /\ (Config!Has(e, "super") => Config!First(d, "super") = Config!First(e, "super"))
    BY <1>2 DEF Alike
  <2>3. /\ a = IF Config!Has(d, "super") /\ Config!First(d, "super") \in DOMAIN f
               THEN f[Config!First(d, "super")] ELSE nothing
        /\ b = IF Config!Has(e, "super") /\ Config!First(e, "super") \in DOMAIN g
               THEN g[Config!First(e, "super")] ELSE nothing
    BY DEF Config!Inherited, nothing
  <2> HIDE DEF a, b
  <2> QED  BY <1>3, <2>1, <2>2, <2>3
<1>5. Config!Broken(d, f) <=> Config!Broken(e, g)
  <2>1. Config!Reads(d) = Config!Reads(e)
    BY <1>2 DEF Config!Reads
  <2>2. Config!Asks(d) = Config!Asks(e)
    BY <1>2 DEF Config!Asks
  <2>3. (\E o \in Config!Reads(d) : Config!NoValue(d, o)) <=> (\E o \in Config!Reads(e) : Config!NoValue(e, o))
    BY <1>2, <2>1
  <2>4. /\ Config!Has(d, "super") <=> Config!Has(e, "super")
        /\ Config!Has(e, "super") => Config!First(d, "super") = Config!First(e, "super")
    BY <1>2
  <2>5. \A x \in DOMAIN f : \A o : Config!NoValue(f[x], o) <=> Config!NoValue(g[x], o)
    BY <1>3
  <2> HIDE DEF Alike
  <2> QED  BY <1>3, <2>1, <2>2, <2>3, <2>4, <2>5 DEF Config!Broken
<1> HIDE DEF a, b
<1>6. \A o : Config!Setting(d, a, o) = Config!Setting(e, b, o)
  BY <1>2, <1>4 DEF Config!Setting
<1>7. Config!TimeLimit(d, a) = Config!TimeLimit(e, b)
  BY <1>2, <1>4 DEF Config!TimeLimit
<1>8. Config!MemoryLimit(d, a) = Config!MemoryLimit(e, b)
  BY <1>6 DEF Config!MemoryLimit
<1>9. \A name : Config!TestsDir(c, d, a, name) = Config!TestsDir(k, e, b, name)
  BY <1>2, <1>6 DEF Config!TestsDir
<1>10. /\ Config!Has(d, "short_name") <=> Config!Has(e, "short_name")
       /\ Config!Has(e, "short_name") => Config!First(d, "short_name") = Config!First(e, "short_name")
       /\ Config!Has(d, "internal_name") <=> Config!Has(e, "internal_name")
       /\ Config!Has(e, "internal_name") => Config!First(d, "internal_name") = Config!First(e, "internal_name")
  BY <1>2
<1> HIDE DEF Alike
<1>11. Config!Problem(c, d, f, id) = Config!Problem(k, e, g, id)
  BY <1>6, <1>7, <1>8, <1>9, <1>10 DEF Config!Problem, a, b
<1> QED  BY <1>5, <1>11

\* Two contests as far as they are made, of which the same comes
SameSoFar(x, y) ==
  /\ x = [last |-> x.last, problems |-> x.problems, abstract |-> x.abstract, failed |-> x.failed]
  /\ y = [last |-> y.last, problems |-> y.problems, abstract |-> y.abstract, failed |-> y.failed]
  /\ x.last = y.last /\ x.problems = y.problems /\ x.failed = y.failed
  /\ LikeAll(x.abstract, y.abstract)

\* One section more
LEMMA LikeNext ==
  ASSUME NEW c, NEW k, Like(c.sections[1].options, k.sections[1].options),
         NEW x, NEW y, SameSoFar(x, y), NEW d, NEW e, Like(d, e)
  PROVE  SameSoFar(Config!NextProblem(c, x, d), Config!NextProblem(k, y, e))
<1> DEFINE id == IF Config!Has(d, "id") THEN Number[Config!First(d, "id")] ELSE x.last + 1
           q == Config!Problem(c, d, x.abstract, id)
           u == Config!NextProblem(c, x, d)
           w == Config!NextProblem(k, y, e)
           Skips == Config!Has(d, "abstract")
           Bad == ~Config!Has(d, "short_name") \/ Config!NoValue(d, "short_name")
           Fails == Config!NoValue(d, "id") \/ Config!Broken(d, x.abstract)
           name == Config!First(d, "short_name")
<1>1. /\ \A o : Config!Has(d, o) <=> Config!Has(e, o)
      /\ \A o : Config!NoValue(d, o) <=> Config!NoValue(e, o)
      /\ \A o : Config!Has(e, o) => Config!First(d, o) = Config!First(e, o)
  BY LikeFound
<1>2. /\ x.last = y.last /\ x.problems = y.problems /\ x.failed = y.failed
      /\ LikeAll(x.abstract, y.abstract)
  BY DEF SameSoFar
<1>3. id = IF Config!Has(e, "id") THEN Number[Config!First(e, "id")] ELSE y.last + 1
  BY <1>1, <1>2
<1>4. /\ Config!Broken(d, x.abstract) <=> Config!Broken(e, y.abstract)
      /\ \A i : Config!Problem(c, d, x.abstract, i) = Config!Problem(k, e, y.abstract, i)
  BY <1>2, LikeProblem
<1>5. u = IF x.failed THEN x
          ELSE IF Skips
          THEN IF Bad THEN [x EXCEPT !.failed = TRUE]
               ELSE [x EXCEPT !.abstract = Config!With(@, name, d)]
          ELSE IF Fails THEN [x EXCEPT !.failed = TRUE]
          ELSE [x EXCEPT !.last = id, !.problems = Config!With(@, id, q)]
  BY DEF Config!NextProblem
<1>6. w = IF y.failed THEN y
          ELSE IF Skips
          THEN IF Bad THEN [y EXCEPT !.failed = TRUE]
               ELSE [y EXCEPT !.abstract = Config!With(@, name, e)]
          ELSE IF Fails THEN [y EXCEPT !.failed = TRUE]
          ELSE [y EXCEPT !.last = id, !.problems = Config!With(@, id, q)]
  <2>1. w = IF y.failed THEN y
            ELSE IF Config!Has(e, "abstract")
            THEN IF ~Config!Has(e, "short_name") \/ Config!NoValue(e, "short_name")
                 THEN [y EXCEPT !.failed = TRUE]
                 ELSE [y EXCEPT !.abstract = Config!With(@, Config!First(e, "short_name"), e)]
            ELSE IF Config!NoValue(e, "id") \/ Config!Broken(e, y.abstract) THEN [y EXCEPT !.failed = TRUE]
            ELSE [y EXCEPT !.last = id,
                           !.problems = Config!With(@, id, Config!Problem(k, e, y.abstract, id))]
    <3> HIDE DEF id
    <3> QED  BY <1>3 DEF Config!NextProblem
  <2>2. /\ Skips <=> Config!Has(e, "abstract")
        /\ Bad <=> (~Config!Has(e, "short_name") \/ Config!NoValue(e, "short_name"))
        /\ ~Bad => name = Config!First(e, "short_name")
        /\ Fails <=> (Config!NoValue(e, "id") \/ Config!Broken(e, y.abstract))
    BY <1>1, <1>4
  <2>3. q = Config!Problem(k, e, y.abstract, id)
    BY <1>4
  <2> HIDE DEF w, id, q, Skips, Bad, Fails, name
  <2> QED  BY <2>1, <2>2, <2>3
<1>7. LikeAll(Config!With(x.abstract, name, d), Config!With(y.abstract, name, e))
  <2> HIDE DEF name
  <2> QED  BY <1>2 DEF LikeAll, Config!With
<1> HIDE DEF u, w, id, q, Skips, Bad, Fails, name
<1>8. /\ x = [last |-> x.last, problems |-> x.problems, abstract |-> x.abstract, failed |-> x.failed]
      /\ y = [last |-> y.last, problems |-> y.problems, abstract |-> y.abstract, failed |-> y.failed]
  BY DEF SameSoFar
<1>9. SameSoFar(u, w)
  <2>1. CASE x.failed
    BY <1>2, <1>5, <1>6, <2>1
  <2>2. CASE ~x.failed /\ ((Skips /\ Bad) \/ (~Skips /\ Fails))
    <3>1. u = [x EXCEPT !.failed = TRUE] /\ w = [y EXCEPT !.failed = TRUE]
      BY <1>2, <1>5, <1>6, <2>2
    <3>2. /\ u = [last |-> x.last, problems |-> x.problems, abstract |-> x.abstract, failed |-> TRUE]
          /\ w = [last |-> y.last, problems |-> y.problems, abstract |-> y.abstract, failed |-> TRUE]
      BY <1>8, <3>1
    <3> QED  BY <1>2, <3>2 DEF SameSoFar
  <2>3. CASE ~x.failed /\ Skips /\ ~Bad
    <3> DEFINE l == Config!With(x.abstract, name, d)
               r == Config!With(y.abstract, name, e)
    <3>1. u = [x EXCEPT !.abstract = l] /\ w = [y EXCEPT !.abstract = r]
      BY <1>2, <1>5, <1>6, <2>3
    <3>2. LikeAll(l, r)
      BY <1>7
    <3> HIDE DEF l, r
    <3>3. /\ u = [last |-> x.last, problems |-> x.problems, abstract |-> l, failed |-> x.failed]
          /\ w = [last |-> y.last, problems |-> y.problems, abstract |-> r, failed |-> y.failed]
      BY <1>8, <3>1
    <3> QED  BY <1>2, <3>2, <3>3 DEF SameSoFar
  <2>4. CASE ~x.failed /\ ~Skips /\ ~Fails
    <3> DEFINE l == Config!With(x.problems, id, q)
    <3>1. u = [x EXCEPT !.last = id, !.problems = l] /\ w = [y EXCEPT !.last = id, !.problems = l]
      BY <1>2, <1>5, <1>6, <2>4
    <3> HIDE DEF l
    <3>2. /\ u = [last |-> id, problems |-> l, abstract |-> x.abstract, failed |-> x.failed]
          /\ w = [last |-> id, problems |-> l, abstract |-> y.abstract, failed |-> y.failed]
      BY <1>8, <3>1
    <3> QED  BY <1>2, <3>2 DEF SameSoFar
  <2> QED  BY <2>1, <2>2, <2>3, <2>4
<1> QED  BY <1>9 DEF u, w

\* A contest is made of the sections one after the other.
LEMMA ContestSteps ==
  ASSUME NEW c, NEW X, Config!ProblemSections(c) \in Seq(X)
  PROVE  LET s == Config!ProblemSections(c) IN
         \E f : /\ f[0] = NoProblems(c, s)
                /\ \A i \in Nat : i < Len(s) => f[i + 1] = Config!NextProblem(c, f[i], s[i + 1].options)
                /\ Config!Contest(c) = f[Len(s)]
<1> DEFINE s == Config!ProblemSections(c)
           n == Len(s)
           f == CHOOSE g : TakesSections(g, n, c, s)
<1>1. Config!Contest(c) = f[n]
  BY DEF Config!Contest, TakesSections, NoProblems
<1> HIDE DEF s
<1>2. n \in Nat
  BY LenProperties DEF s
<1> HIDE DEF n
<1>3. TakesSections(f, n, c, s)
  BY <1>2, TakesSectionsExists
<1> HIDE DEF f
<1>4. \A i \in 0 .. n : f[i] = IF i = 0 THEN NoProblems(c, s)
                              ELSE Config!NextProblem(c, f[i - 1], s[i].options)
  BY <1>3 DEF TakesSections
<1>5. f[0] = NoProblems(c, s)
  BY <1>2, <1>4
<1>6. ASSUME NEW i \in Nat, i < n
      PROVE  f[i + 1] = Config!NextProblem(c, f[i], s[i + 1].options)
  <2>1. i + 1 \in 0 .. n /\ i + 1 # 0 /\ (i + 1) - 1 = i
    BY <1>2, <1>6
  <2> QED  BY <1>4, <2>1
<1> QED  BY <1>1, <1>5, <1>6 DEF n, s

\* The same contest is made of sections in which the same is found.
LEMMA LikeContest ==
  ASSUME NEW c, NEW k, c.error = "none", k.error = "none",
         Like(c.sections[1].options, k.sections[1].options),
         NEW X, Config!ProblemSections(c) \in Seq(X),
         NEW Y, Config!ProblemSections(k) \in Seq(Y),
         Shows(Config!ProblemSections(c), Config!ProblemSections(k))
  PROVE  /\ Config!Contest(c).failed = Config!Contest(k).failed
         /\ Config!Contest(c).problems = Config!Contest(k).problems
<1> DEFINE t == Config!ProblemSections(c)
           s == Config!ProblemSections(k)
           n == Len(s)
<1>1. PICK f : /\ f[0] = NoProblems(c, t)
               /\ \A i \in Nat : i < Len(t) => f[i + 1] = Config!NextProblem(c, f[i], t[i + 1].options)
               /\ Config!Contest(c) = f[Len(t)]
  BY ContestSteps
<1>2. PICK g : /\ g[0] = NoProblems(k, s)
               /\ \A i \in Nat : i < n => g[i + 1] = Config!NextProblem(k, g[i], s[i + 1].options)
               /\ Config!Contest(k) = g[n]
  BY ContestSteps
<1>3. t \in Seq(X) /\ s \in Seq(Y) /\ Shows(t, s)
  OBVIOUS
<1> HIDE DEF t, s
<1>4. n \in Nat /\ Len(t) = n /\ \A i \in 1 .. n : Like(t[i].options, s[i].options)
  BY <1>3, LenProperties DEF Shows
<1>5. t = <<>> <=> s = <<>>
  <2>1. (Len(t) = 0 <=> t = <<>>) /\ (n = 0 <=> s = <<>>)
    BY <1>3, EmptySeq
  <2> QED  BY <1>4, <2>1
<1> HIDE DEF n
<1> DEFINE S == {i \in Nat : i <= n => SameSoFar(f[i], g[i])}
<1>6. SameSoFar(f[0], g[0])
  <2>1. Config!NoValue(c.sections[1].options, "test_dir") <=> Config!NoValue(k.sections[1].options, "test_dir")
    BY LikeFound
  <2> DEFINE bad == t = <<>> \/ Config!NoValue(c.sections[1].options, "test_dir")
  <2>2. f[0] = [last |-> 0, problems |-> <<>>, abstract |-> <<>>, failed |-> bad]
        /\ g[0] = [last |-> 0, problems |-> <<>>, abstract |-> <<>>, failed |-> bad]
    <3>1. f[0] = NoProblems(c, t) /\ g[0] = NoProblems(k, s)
      BY <1>1, <1>2
    <3> QED  BY <1>5, <2>1, <3>1 DEF NoProblems
  <2> HIDE DEF bad
  <2>3. LikeAll(<<>>, <<>>)
    BY DEF LikeAll
  <2> QED  BY <2>2, <2>3 DEF SameSoFar
<1>7. ASSUME NEW i \in Nat, i < n, SameSoFar(f[i], g[i])
      PROVE  SameSoFar(f[i + 1], g[i + 1])
  <2>1. i + 1 \in 1 .. n
    BY <1>4, <1>7
  <2>2. Like(t[i + 1].options, s[i + 1].options)
    BY <1>4, <2>1
  <2>3. f[i + 1] = Config!NextProblem(c, f[i], t[i + 1].options)
    BY <1>1, <1>4, <1>7
  <2>4. g[i + 1] = Config!NextProblem(k, g[i], s[i + 1].options)
    BY <1>2, <1>7
  <2> QED  BY <1>7, <2>2, <2>3, <2>4, LikeNext
<1>8. S = Nat
  <2>1. 0 \in S /\ S \in SUBSET Nat
    BY <1>6
  <2>2. ASSUME NEW i \in S PROVE i + 1 \in S
    <3>1. i + 1 <= n => i < n /\ i <= n
      BY <1>4
    <3> QED  BY <1>7, <3>1
  <2> HIDE DEF S
  <2> QED  BY <2>1, <2>2, Induction
<1>9. SameSoFar(f[n], g[n])
  <2>1. n \in S
    BY <1>4, <1>8
  <2> QED  BY <1>4, <2>1
<1> QED  BY <1>1, <1>2, <1>4, <1>9 DEF SameSoFar

\* What is printed of a parser that can be printed is read as the same contest.
LEMMA PrintedIsRead ==
  ASSUME NEW c, Parser(c), c.error = "none", FirstIsDefault(c.sections),
         \A i \in 1 .. Len(c.sections) : IsPrintable(c.sections[i])
  PROVE  LET again == Config!Contest(Config!Read(Config!Printed(c)))
             once  == Config!Contest(c)
         IN  again.failed = once.failed /\ again.problems = once.problems
<1> DEFINE s == c.sections
           all == Joined(ByName(c))
           X == {s[i] : i \in 1 .. Len(s)}
           d == Config!Read(Config!Printed(c))
<1>1. s \in Seq(X)
  <2>1. PICK S : s \in Seq(S)
    BY DEF Parser
  <2>2. s = [i \in 1 .. Len(s) |-> s[i]] /\ Len(s) \in Nat
    BY <2>1
  <2> HIDE DEF s
  <2> QED  BY <2>2
<1>2. \A x \in X : IsPrintable(x)
  OBVIOUS
<1> HIDE DEF X
<1>3. /\ all \in Seq(X) /\ FirstIsDefault(all) /\ all[1] = s[1]
      /\ OfName(all, "problem") = OfName(s, "problem")
  BY <1>1, Regrouped
<1>4. Config!Printed(c) = Config!FlattenSeq([i \in DOMAIN all |-> Config!PrintSection(all[i])])
  <2>1. Config!FlattenSeq([i \in DOMAIN Config!Names(c) |-> Config!Named(c, Config!Names(c)[i])]) = all
    BY FlattenJoins DEF ByName, OfName, Config!Named
  <2> HIDE DEF all
  <2> QED  BY <2>1 DEF Config!Printed
<1> HIDE DEF all
<1>5. Ready(d) /\ Shows(d.sections, all)
  <2>1. Len(all) >= 1 /\ \A i \in 1 .. Len(all) : all[i].name = "default" <=> i = 1
    BY <1>3 DEF FirstIsDefault
  <2>2. \A i \in 1 .. Len(all) : IsPrintable(all[i])
    BY <1>2, <1>3, ElementOfSeq
  <2> HIDE DEF d
  <2>3. d = Config!Read(Config!FlattenSeq([i \in DOMAIN all |-> Config!PrintSection(all[i])]))
    BY <1>4 DEF d
  <2> QED  BY <1>3, <2>1, <2>2, <2>3, SectionsRead
<1> HIDE DEF d
<1>6. PICK Y : d.sections \in Seq(Y)
  BY <1>5 DEF Ready, Parser
<1>7. Config!ProblemSections(d) = OfName(d.sections, "problem")
      /\ Config!ProblemSections(c) = OfName(s, "problem")
  BY DEF Config!ProblemSections, Config!Named, OfName
<1> HIDE DEF s
<1>8. /\ OfName(d.sections, "problem") \in Seq(Y) /\ OfName(s, "problem") \in Seq(X)
      /\ Shows(OfName(d.sections, "problem"), OfName(s, "problem"))
  <2>1. Shows(OfName(d.sections, "problem"), OfName(all, "problem"))
    BY <1>3, <1>5, <1>6, OfNameShows
  <2>2. OfName(d.sections, "problem") \in Seq(Y) /\ OfName(s, "problem") \in Seq(X)
    BY <1>1, <1>6, OfNameMembers
  <2> QED  BY <1>3, <2>1, <2>2
<1>9. Like(d.sections[1].options, s[1].options)
  <2>1. 1 \in 1 .. Len(all)
    <3>1. Len(all) \in Nat /\ Len(all) >= 1
      BY <1>3, LenProperties DEF FirstIsDefault
    <3> QED  BY <3>1
  <2> QED  BY <1>3, <1>5, <2>1 DEF Shows
<1>10. d.error = "none"
  BY <1>5 DEF Ready
<1>11. /\ Config!Contest(d).failed = Config!Contest(c).failed
       /\ Config!Contest(d).problems = Config!Contest(c).problems
  BY <1>7, <1>8, <1>9, <1>10, LikeContest DEF s
<1> QED  BY <1>11 DEF d

\* So it is of every parser.
LEMMA ParserReadsBack == Parser(config) => PrintReadsBack
<1> DEFINE s == config.sections
           Shown == \A x \in Config!Range(s) : \A o \in DOMAIN x.options :
                      x.options[o] = None \/ Head(x.options[o]) # ""
           Once == \A i \in DOMAIN s : s[i].name = "default" => i = 1
           Same == LET again == Config!Contest(Config!Read(Config!Printed(config)))
                       once  == Config!Contest(config)
                   IN  again.failed = once.failed /\ (~once.failed => again.problems = once.problems)
<1>1. PrintReadsBack = (config.error = "none" /\ Shown /\ Once => Same)
  BY DEF PrintReadsBack, Config!PrintReadsBack
<1>2. ASSUME Parser(config), config.error = "none", Shown, Once
      PROVE  Same
  <2>1. PICK S : s \in Seq(S)
    BY <1>2 DEF Parser
  <2>2. DOMAIN s = 1 .. Len(s)
    BY <2>1, LenProperties
  <2>3. \A i \in DOMAIN s : s[i] \in Config!Range(s)
    BY DEF Config!Range
  <2>4. FirstIsDefault(s)
    <3>1. Len(s) >= 1 /\ s[1].name = "default"
      BY <1>2 DEF Parser
    <3> QED  BY <1>2, <2>2, <3>1 DEF FirstIsDefault
  <2>5. ASSUME NEW i \in 1 .. Len(s)
        PROVE  IsPrintable(s[i])
    <3>1. IsSection(s[i])
      BY <1>2 DEF Parser
    <3>2. \A o \in DOMAIN s[i].options : IsSetting(s[i].options[o])
      BY <3>1 DEF IsSection
    <3>3. \A o \in DOMAIN s[i].options : s[i].options[o] = None \/ Head(s[i].options[o]) # ""
      BY <1>2, <2>2, <2>3
    <3> QED  BY <3>1, <3>2, <3>3 DEF IsPrintable, IsShown
  <2> HIDE DEF s
  <2>6. /\ Config!Contest(Config!Read(Config!Printed(config))).failed = Config!Contest(config).failed
        /\ Config!Contest(Config!Read(Config!Printed(config))).problems = Config!Contest(config).problems
    BY <1>2, <2>4, <2>5, PrintedIsRead DEF s
  <2> QED  BY <2>6
<1> HIDE DEF Shown, Once, Same
<1> QED  BY <1>1, <1>2

\* A configuration that is printed is read as the same contest, in a file of any length
\* (EjudgeContestCfg.printconf, then its __init__).
THEOREM PrintingReadsBack == Spec => []PrintReadsBack
BY ParserReadsBack, ParserInit, ParserStep, PTL DEF Spec
=============================================================================
