------------------------------ MODULE ServeConfig ------------------------------
(***************************************************************************)
(* How serve.cfg of a contest is read, line by line (the project's own     *)
(* configparser), what EjudgeContestCfg makes of its problems, and what it *)
(* prints of them.                                                         *)
(*                                                                         *)
(* A line is [kind, indent, name, value]: a comment, a blank line, the     *)
(* header of a section, an option with or without a value, or one that     *)
(* cannot be parsed.  Texts are strings, Number gives those that are       *)
(* numbers.                                                                *)
(***************************************************************************)
EXTENDS Integers, Sequences, FiniteSets, SequencesExt, TLC

CONSTANTS
  Lines,      \* lines a file may have
  Number,     \* Number[v]: the number the text v stands for
  Amount,     \* Amount[v]: the number and the unit of the text v, [number, unit]
  Beginnings, \* files as far as they were read at first
  MaxLines,   \* bound: lines after that
  None

VARIABLES
  config,     \* the parser, [sections, option, indent, error]
  count       \* lines read, for the bound

vars == <<config, count>>

-----------------------------------------------------------------------------
(***************************************************************************)
(* RawConfigParser._read with allow_no_value and without strict: a section *)
(* that comes again is one more instance of its name.                      *)
(***************************************************************************)

Empty == [sections |-> <<[name |-> "default", options |-> <<>>]>>, option |-> None,
          indent |-> 0, error |-> "none"]

\* A dictionary with one item set
With(f, x, e) == [y \in {x} \cup DOMAIN f |-> IF y = x THEN e ELSE f[y]]

Current(c)   == Last(c.sections).options
Put(c, o, v) == [c EXCEPT !.sections[Len(c.sections)].options = With(@, o, v)]

\* One more value of the option, or of the one the line continues.  It fails when
\* that option was given without a value.
AddValue(c, o, v) ==
  IF o \notin DOMAIN Current(c) THEN Put(c, o, <<v>>)
  ELSE IF Current(c)[o] = None THEN [c EXCEPT !.error = "crash"]
  ELSE Put(c, o, Append(Current(c)[o], v))

\* A blank line belongs to the value before it.
BlankLine(c) ==
  IF c.option = None \/ Current(c)[c.option] = None THEN c ELSE AddValue(c, c.option, "")

Header(c, name) ==
  [c EXCEPT !.sections = Append(@, [name |-> name, options |-> <<>>]), !.option = None]

Option(c, l) ==
  IF l.kind = "word" THEN [Put(c, l.name, None) EXCEPT !.option = l.name]
  ELSE [AddValue(c, l.name, l.value) EXCEPT !.option = l.name]

\* _handle_error: the rest of a file is read after a line that cannot be parsed; only
\* then is the error raised.
Bogus(c) == [c EXCEPT !.error = "bogus", !.option = None]

\* A line that is deeper than the one its option began at continues its value,
\* whatever it looks like.
ReadLine(c, l) ==
  IF c.error = "crash" \/ l.kind = "comment" THEN c
  ELSE IF l.kind = "blank" THEN BlankLine(c)
  ELSE IF c.option # None /\ l.indent > c.indent THEN AddValue(c, c.option, l.name)
  ELSE LET d == [c EXCEPT !.indent = l.indent] IN
       IF l.kind = "header" THEN Header(d, l.name)
       ELSE IF l.kind = "bogus" THEN Bogus(d)
       ELSE Option(d, l)

Read(file) ==
  LET after[i \in 0 .. Len(file)] == IF i = 0 THEN Empty ELSE ReadLine(after[i - 1], file[i])
  IN  after[Len(file)]

-----------------------------------------------------------------------------
(***************************************************************************)
(* EjudgeProblemCfg.  It takes an option from the abstract problem it      *)
(* names, if that one came before.                                         *)
(***************************************************************************)

Inheritable == {"type", "time_limit", "time_limit_millis", "max_vm_size", "test_dir",
                "corr_dir", "test_pat", "corr_pat"}

\* The values of an option, in the order of their lines
Values(d, o) == d[o]

Has(d, o)   == o \in DOMAIN d
First(d, o) == Head(Values(d, o))

NoValue(d, o) == Has(d, o) /\ Values(d, o) = None

\* The options that it reads of itself; seconds only when there are no milliseconds
Reads(d) ==
  (DOMAIN d \cap (Inheritable \cup {"super", "short_name", "internal_name", "long_name"}))
    \ (IF Has(d, "time_limit_millis") THEN {"time_limit"} ELSE {})

\* The options that it reads of the abstract problem
Asks(d) ==
  IF {"time_limit", "time_limit_millis"} \cap DOMAIN d # {}
  THEN Inheritable \ (DOMAIN d \cup {"time_limit", "time_limit_millis"})
  ELSE Inheritable \ DOMAIN d

\* An abstract problem that is not known yet is only missed when it is asked.
Broken(d, abstract) ==
  \/ \E o \in Reads(d) : NoValue(d, o)
  \/ /\ Has(d, "super") /\ Asks(d) # {}
     /\ \/ First(d, "super") \notin DOMAIN abstract
        \/ \E o \in Asks(d) : NoValue(abstract[First(d, "super")], o)

Inherited(d, abstract) ==
  IF Has(d, "super") /\ First(d, "super") \in DOMAIN abstract
  THEN abstract[First(d, "super")] ELSE <<>>

\* In bytes
normalizeMemoryLimit(v) ==
  Amount[v].number * (CASE Amount[v].unit = "G" -> 1024 * 1024 * 1024
                        [] Amount[v].unit = "M" -> 1024 * 1024
                        [] Amount[v].unit = "K" -> 1024
                        [] OTHER -> 1)

\* None: the attribute is not there, or is empty.
Setting(d, a, o) ==
  IF Has(d, o) THEN First(d, o) ELSE IF Has(a, o) THEN First(a, o) ELSE None

\* Bug: an inherited limit in seconds is not looked for.
TimeLimitInMillis(d, a) ==
  IF Has(d, "time_limit_millis") THEN Number[First(d, "time_limit_millis")]
  ELSE IF Has(d, "time_limit") THEN 1000 * Number[First(d, "time_limit")]
  ELSE IF Has(a, "time_limit_millis") THEN Number[First(a, "time_limit_millis")]
  ELSE -1

\* In milliseconds, -1 when there is none.  Of two limits the problem's own is the
\* one in milliseconds, an inherited one that in seconds.
TimeLimit(d, a) ==
  IF Has(d, "time_limit_millis") THEN Number[First(d, "time_limit_millis")]
  ELSE IF Has(d, "time_limit") THEN 1000 * Number[First(d, "time_limit")]
  ELSE IF Has(a, "time_limit") THEN 1000 * Number[First(a, "time_limit")]
  ELSE IF Has(a, "time_limit_millis") THEN Number[First(a, "time_limit_millis")]
  ELSE -1

MemoryLimit(d, a) ==
  LET v == Setting(d, a, "max_vm_size") IN IF v = None THEN None ELSE normalizeMemoryLimit(v)

\* Where its tests are: the layout of the contest, the directory and what stands for
\* the problem in it
TestsDir(c, d, a, name) ==
  LET whole == c.sections[1].options IN
  IF Has(whole, "advanced_layout") THEN <<"problems", name>>
  ELSE <<"tests", IF Has(whole, "test_dir") THEN First(whole, "test_dir") ELSE "",
         Setting(d, a, "test_dir"), name>>

Problem(c, d, abstract, id) ==
  LET a     == Inherited(d, abstract)
      short == IF Has(d, "short_name") THEN First(d, "short_name") ELSE ToString(id)
      name  == IF Has(d, "internal_name") THEN First(d, "internal_name") ELSE short
  IN  [short_name |-> short, internal_name |-> name,
       output_only |-> Setting(d, a, "type") = "output-only",
       time_limit |-> TimeLimit(d, a), memory_limit |-> MemoryLimit(d, a),
       tests_dir |-> TestsDir(c, d, a, name), corr_dir |-> Setting(d, a, "corr_dir"),
       test_pat |-> Setting(d, a, "test_pat"), corr_pat |-> Setting(d, a, "corr_pat")]

(***************************************************************************)
(* EjudgeContestCfg, initProblem                                           *)
(***************************************************************************)

\* The members of s at the places in P, in their order
At(s, P) ==
  LET upto[i \in 0 .. Len(s)] ==
        IF i = 0 THEN <<>> ELSE IF i \in P THEN Append(upto[i - 1], s[i]) ELSE upto[i - 1]
  IN  upto[Len(s)]

\* config[name]: the sections of a name, in their order
Named(c, name) == At(c.sections, {i \in DOMAIN c.sections : c.sections[i].name = name})

ProblemSections(c) == Named(c, "problem")

\* Bug: an id that is given is not counted on from.
NextProblemUncounted(c, acc, d) ==
  LET id == IF Has(d, "id") THEN Number[First(d, "id")] ELSE acc.last + 1 IN
  IF acc.failed \/ Has(d, "abstract") THEN acc
  ELSE IF NoValue(d, "id") \/ Broken(d, acc.abstract) THEN [acc EXCEPT !.failed = TRUE]
  ELSE [acc EXCEPT !.last = @ + 1, !.problems = With(@, id, Problem(c, d, acc.abstract, id))]

\* The next section: a problem gets the id it names or the next one, an abstract
\* problem is kept under its short name.
NextProblem(c, acc, d) ==
  LET id == IF Has(d, "id") THEN Number[First(d, "id")] ELSE acc.last + 1 IN
  IF acc.failed THEN acc
  ELSE IF Has(d, "abstract")
  THEN IF ~Has(d, "short_name") \/ NoValue(d, "short_name")
       THEN [acc EXCEPT !.failed = TRUE]
       ELSE [acc EXCEPT !.abstract = With(@, First(d, "short_name"), d)]
  ELSE IF NoValue(d, "id") \/ Broken(d, acc.abstract) THEN [acc EXCEPT !.failed = TRUE]
  ELSE [acc EXCEPT !.last = id,
                   !.problems = With(@, id, Problem(c, d, acc.abstract, id))]

Contest(c) ==
  LET sections == ProblemSections(c)
      none == [last |-> 0, problems |-> <<>>, abstract |-> <<>>,
               failed |-> \/ c.error # "none" \/ sections = <<>>
                         \/ NoValue(c.sections[1].options, "test_dir")]
      after[i \in 0 .. Len(sections)] ==
        IF i = 0 THEN none ELSE NextProblem(c, after[i - 1], sections[i].options)
  IN  after[Len(sections)]

(***************************************************************************)
(* EjudgeContestCfg.printconf: all sections of a name come together, and   *)
(* every value of an option is a line of its own.                          *)
(***************************************************************************)

Line(kind, name, value) == [kind |-> kind, indent |-> 0, name |-> name, value |-> value]

PrintOption(o, values) ==
  IF values = None THEN <<Line("word", o, "")>>
  ELSE LET shown == At(values, {i \in DOMAIN values : values[i] # ""})
       IN  [i \in DOMAIN shown |-> Line("option", o, shown[i])]

\* sections(): the names, each where it came first
Names(c) ==
  LET names == [i \in DOMAIN c.sections |-> c.sections[i].name]
  IN  At(names, {i \in DOMAIN names : \A j \in 1 .. i - 1 : names[j] # names[i]})

\* options(): in the order they came in, on which nothing depends
Options(s) == SetToSeq(DOMAIN s.options)

PrintSection(s) ==
  (IF s.name = "default" THEN <<>> ELSE <<Line("blank", "", ""), Line("header", s.name, "")>>)
  \o FlattenSeq([i \in DOMAIN Options(s) |->
       LET o == Options(s)[i] IN PrintOption(o, Values(s.options, o))])

\* Bug: sections of one name come under one header.
PrintedMerged(c) ==
  FlattenSeq([i \in DOMAIN c.sections |->
    IF i > 1 /\ c.sections[i].name = c.sections[i-1].name THEN Tail(Tail(PrintSection(c.sections[i])))
    ELSE PrintSection(c.sections[i])])

Printed(c) ==
  LET all == FlattenSeq([i \in DOMAIN Names(c) |-> Named(c, Names(c)[i])])
  IN  FlattenSeq([i \in DOMAIN all |-> PrintSection(all[i])])

-----------------------------------------------------------------------------
Init ==
  /\ config \in {Read(file) : file \in Beginnings}
  /\ count = 0

NextLine(l) ==
  /\ count < MaxLines
  /\ config' = ReadLine(config, l)
  /\ count' = count + 1

Next == \E l \in Lines : NextLine(l)

Spec == Init /\ [][Next]_vars

-----------------------------------------------------------------------------
\* The contest is the same after its configuration was printed and read again,
\* although the sections of a name come together then, comments are gone, and values
\* over several lines have become options that come again.  Not so when a value is
\* empty at its start: nothing is printed of that.  Nor when a section is called as the
\* one before the first header is: its header is not printed.
PrintReadsBack ==
  config.error = "none"
    /\ (\A s \in Range(config.sections) : \A o \in DOMAIN s.options :
          s.options[o] = None \/ Head(s.options[o]) # "")
    /\ (\A i \in DOMAIN config.sections : config.sections[i].name = "default" => i = 1) =>
    LET again == Contest(Read(Printed(config)))
        once  == Contest(config)
    IN  again.failed = once.failed /\ (~once.failed => again.problems = once.problems)

\* Every problem of a contest that can be read is found, under the id it names or
\* else the one after that of the problem before it, unless a later one has its id.
ProblemsAreFound ==
  LET sections == ProblemSections(config)
      own == At(sections, {i \in DOMAIN sections : ~Has(sections[i].options, "abstract")})
      id[i \in 0 .. Len(own)] ==
        IF i = 0 THEN 0
        ELSE IF Has(own[i].options, "id") THEN Number[First(own[i].options, "id")] ELSE id[i - 1] + 1
      problems == Contest(config).problems
  IN
  ~Contest(config).failed =>
    /\ DOMAIN problems = {id[i] : i \in DOMAIN own}
    /\ \A i \in DOMAIN own :
         Has(own[i].options, "short_name") /\ (\A j \in DOMAIN own : j > i => id[j] # id[i])
           => problems[id[i]].short_name = First(own[i].options, "short_name")

\* A problem is what it would be if the options it inherits were its own, unless it
\* inherits two time limits.
InheritedIsOwn ==
  LET sections == ProblemSections(config)
      abstract == Contest(config).abstract
  IN
  ~Contest(config).failed =>
    \A s \in Range(sections) :
      LET d == s.options
          a == Inherited(d, abstract)
          copied == DOMAIN a \cap Asks(d)
          whole  == [o \in copied \cup DOMAIN d |-> IF o \in copied THEN a[o] ELSE d[o]]
      IN
      ~Has(d, "abstract") /\ ~({"time_limit", "time_limit_millis"} \subseteq copied)
        => Problem(config, d, abstract, 1) = Problem(config, whole, <<>>, 1)
=============================================================================
