# Verification of informatics-alive

TLA+ modules of the back end in `src/rmatics`: what users submit, what judges
say about it, and what is shown. Each module is checked with TLC on small
instances, and the safety properties that matter most are proved with TLAPS for
every value of the constants.

## The system

| part | state | operations | talks to |
|---|---|---|---|
| web handlers (`view/problem`) | rows of `runs` and `rejudge` (MySQL), sources, protocols and archived protocols (Mongo) | submit, rejudge, put, notifications v1 and v2, reading | Celery by `delay`, MySQL, Mongo |
| `submit_task` (Celery) | the row it loaded, its retry count | resolve a judge, submit, record the answer or the failure | the judge by HTTP, MySQL, Mongo |
| notification chain (Celery) | the notification, a retry count per task | `check_run`, `load_protocol`, `upd_run`, `invalidate_cache` | the judge by HTTP, MySQL, Mongo, Redis |
| judges (external, ejudge) | submissions and their verdicts | accept, notify, judge again | HTTP both ways |
| monitor cache (`utils/cacher`) | tables and locks in Redis, `monitor_cache_meta` in MySQL, locks known to each process | lock, look up, compute, store, subscribe, invalidate | Redis, MySQL |
| judges configuration | `judges.json`, read at start | load, validate, resolve | all of the above |
| readers (status, source, protocol, lists, monitors, page of a problem) | none; the page reads `serve.cfg` and the files of tests | filter by access, parse, decode, cut, page | MySQL, Mongo, Redis, the judge's disk |

The hard part is that one step of the code seldom writes one store. MySQL, Mongo,
Redis, the broker and the judge are written by separate calls, tasks are retried,
started tasks of a killed worker are not delivered again, notifications arrive
late, twice or before the row they name is complete, and a rejudge may start
while all of that is going on. `PROJECT.json` lists each hazard at its line.

What makes each part correct:

* intake: overlapping requests get ids and become visible in any order, and still
  only overlap or another submission in between lets a duplicate in; a run has the
  source its user sent;
* submission: a task finds what it needs; at most one submission at the judges
  for each request, plus one for each answer lost on the way;
* life cycle: a verdict shown was given by a judge on this very run, has its
  protocol, and is withdrawn only by a rejudge; an enqueued run gets a verdict;
* cache: a table in Redis can be found by invalidations; an invalidation reaches
  every table it should; nobody computes a table twice at once; what races leave
  stale does not stay;
* routing: the entry taken is the one the priorities say; processes that loaded
  the same configuration lose no submission a judge took;
* lists: a reader of all pages misses and repeats no more runs than left and
  entered the list meanwhile;
* row: status, score and test number come from one verdict, of a submission of this
  run, and whoever sees it sees its protocol, whatever four kinds of writers do to
  the row at once;
* readers: what is shown is what the judge reported, the user wrote or the files of
  the problem say, in whatever format, packing or encoding it came, and a cut is
  marked; a cached table is what its key stands for.

## Modules

| module | what it is |
|---|---|
| `RunLifecycle` | submission, `submit_task`, rejudge, judges and the notification chain, one action per external write or call |
| `VerdictService` | the promise to users, as a specification of four actions |
| `RunLifecycle_proofs` | theorems about `RunLifecycle`, and that it implements `VerdictService` |
| `MonitorCache` | the Redis lock, the cached tables, their metas and what invalidates them |
| `MonitorCache_proofs` | theorems about `MonitorCache` |
| `SubmissionIntake` | concurrent requests in `TrustedSubmitApi.post`: checks, duplicate, insert, source, commit, enqueue |
| `SubmissionIntake_proofs` | theorems about `SubmissionIntake` |
| `JudgeRouting` | `judges.json` in two processes, `_get_judge_entry`, `require_judge_token` |
| `JudgeRouting_proofs` | theorems about `JudgeRouting` |
| `SubmissionLists` | the filters and pages of `ProblemSubmissionsFilterApi` |
| `SubmissionLists_proofs` | theorems about `SubmissionLists` |
| `RunRow` | the columns of a row under `RunAPI.put`, rejudge, `submit_task` and notifications of both versions, and who may see them |
| `RunRow_proofs` | theorems about `RunRow` |
| `JudgeAnswers` | the answers of a judge to a submission, the parsers of its reports, `unmarshal_protocol` |
| `MonitorQueries` | the two monitor views, the keys and arguments of their cached calls |
| `ShownTexts` | the page of a problem, whose samples are read file by file, and the source of a run |
| `ServeConfig` | `serve.cfg` line by line, the problems found in it, and its printed form |
| `RunArchive` | the archive of the outputs of a run and the protocol of one test |
| `Readers` | `JudgeAnswers`, `MonitorQueries`, `ShownTexts`, `ServeConfig` and `RunArchive` side by side, with the assumptions on their constants |
| `Readers_proofs`, `Files_proofs` | theorems about `Readers` |
| `MCRunLifecycle`, `MCMonitorCache`, `MCSubmissionIntake`, `MCJudgeRouting`, `MCSubmissionLists`, `MCRunRow` | instances for TLC |
| `MCReaders` | instances of `Readers` |

The modules meet where the code does. `SubmissionIntake` ends with a row, a source
and a task, which is where `RunLifecycle` lets a run begin (`PostSource`,
`PostCommit`, `Enqueue`); `JudgeRouting` refines the choice among `Routes[r]` that
`SubmitStart` makes, and the delivery of a notification that `Notify` takes for
granted; `SubmissionLists` reads the rows that `Commit` of `SubmissionIntake` and
`UpdRun` of `RunLifecycle` write; `MonitorCache` follows the changes of rows into
the tables. `RunRow` looks inside the row that `RunLifecycle` treats as a status, a
number and a uuid, and adds the two writers that are not part of its life cycle.
`JudgeAnswers` says what the answers and protocols of `RunLifecycle` contain,
`MonitorQueries` which keys and tables `MonitorCache` is given. `ServeConfig` reads
the file that is `conf` in `ShownTexts`.

### RunLifecycle

`row` and `rejudges` are the committed MySQL state; `source`, `protocol` and
`archive` the Mongo collections; `proc` the handlers and submit tasks, indexed by
run and request number (0 submits, g > 0 is the g-th rejudge, and the task a
handler enqueues takes over its record); `chains` the notification chains in the
broker; `ejudge` what the judges hold. A handler or task that loads a row keeps
it in `seen`, and its commit writes only the columns that differ from it
(`Assign`), as the SQLAlchemy session does. This matters: a verdict committed
between the load and the commit of a rejudge survives the reset.

Retries are part of the actions: `SubmitRaises` and `RetryOrAbort` count them
against `max_retries`, and what the code does when they run out (status 520 and
an error protocol, or the end of the chain) is their other branch. `Drop` and
`DropChain` are a killed process or an unhandled exception: the open transaction
is lost and, since Celery acknowledges before it runs a task, so is the task.

Abstractions: score and test number travel with the status; RUNNING stands for
COMPILING too; a protocol is the submission and the status it reports on; the
judge of a run is a choice among `Routes[r]`; `ExtUser` says whether the judge
echoes `rmatics_run_id` (a notification is then found by id, otherwise by uuid
and judge).

### MonitorCache

One problem, some users, some keys. `Covers[k]` are the users whose runs the
table of key k shows, `Named` and `Timed` say which arguments the key has, which
is all that the LIKE patterns of `invalidate` can see (`Watches`). What a table
shows of a user is how many changes of that user's runs it has seen. The session
of a request is private until `Commit`; `metas` holds committed rows only. A
change is of one of three kinds: `task` (`upd_run`, then `invalidate_cache`, whose
deletions of metas are rolled back when the task ends), `put` (invalidates, then
commits together with the deletions) and `silent` (a submission or a rejudge).

### SubmissionIntake

A request is a transaction: `seen` is the snapshot its first query takes, `id`
what the flush gave it, and nobody sees the row before `Commit`. A row keeps the
snapshot of its request in `after` (history), so that a property can say what the
request could know. Two things are external: the snapshot (REPEATABLE READ, the
default of InnoDB) and the counter of the ids, which a restart of the server may
take back to the largest committed id. The restart closes open connections
(`alive`), but a handler between its flush and its commit still inserts its
document into Mongo before it notices. That is how an id gets two documents,
and why `SourceIsOwn` excepts the ids in `reused`: `Run.source` returns either.
Statement, context and visibility of a run are copied and left out.

### JudgeRouting

`file` is what `judges.json` and `DEFAULT_JUDGE_ID` hold now, `loaded` what the web
process and the worker made of it when they started. The run passes through the
worker (`Submit`), the judge, the web process (`Notify`) and the worker again
(`LoadProtocol`); `run.conf` remembers the configuration that served it last.
Retries, and whatever else happens to a run, are in `RunLifecycle`; the
translation of language ids and the address of a judge are left out.

### SubmissionLists

The table is arbitrary at first. Runs arrive with any free id, as
`SubmissionIntake` shows they do. The client is external and does the plain thing:
page 1, page 2, ... until the page count of the last answer. `due`, `came` and
`left` are history. `Matches` keeps the code's different notions of an absent
argument: 0 is absent for a user, a group and a statement, -1 for a status and a
timestamp, not positive for a language, and only a missing value for a context.

### RunRow

A session holds a row as it was loaded (`seen`) and as it was assigned (`new`), and
`Flush` writes the columns in which they differ. `PutLoad` .. `PutCommit`,
`RejudgeLoad` .. `RejudgeCommit`, `SubmitLoad` .. `SubmitCommit` and `V1Find` ..
`V1Commit` are the sessions (a refused submission stores its error protocol after the
commit, in `StoreError`); `StoreProtocol` and `UpdRun` the two writes of the chain
of v2. `doc` has a document for each submission, which the caller of v1 stored and
`V1Link` links, and one for each run, which is what the setter of `Run.protocol` inserts
when the run has none (`Store`). A run is found by v1 through the number and the contest in its row, so numbers
are part of the state: a judge gives one only once in a contest, but two judges may
give the same, and the contest in the row is that of the problem until v2 replaces
it. `Filled` leaves out what a notification does not mention, so a compile error
keeps the score of an older verdict. What the properties except is history:
`loose` holds the runs in which writers were mixed (a put, a notification that leaves
something out, a failed submission of a judged run, a commit over a verdict that was
not loaded), `withdrawn` those whose protocol was moved away. `Astray` says of a run and
a submission that v1 may take the one for the run of the other: their numbers are the
same, at two judges or because the run was also sent to another contest. Each history is as narrow as the code allows: the
next whole write takes a run out of `loose`, the next protocol out of `withdrawn`.

### JudgeAnswers

One run, one submission. `Submit` is `submit_task` with what `ejudge_proxy.submit`
makes of an answer, up to the commit of the row; `StoreError` stores the protocol of a
failure afterwards, and a task that `Die`s in between leaves status 520 without an
explanation, which is why `RefusalIsShown` excepts that window. `Fetch` is the parser
that the type of a report chooses. Reports
are records, and a document has its values as XML and BSON give them (`Document`);
an XML parser, a zlib or a base64 decoder is not taken apart: a text carries the
encodings it is in, and is legible when all are undone in their order. `LegacyTests`
is the older parser of `EjudgeRun`, compared with the present one. Colours and
layout are left out.

### MonitorQueries

Each request is one step, because `MonitorCache` has the interleavings. What is kept is
which calls a request makes, the key of each call, and what its meta is found by,
with its arguments cut at the width of the column: a user whose item does not fit is
found no more. `RankShown` is the attribute that one object of a problem shares among
the contests that list it.

### ShownTexts

A text is what was written, an encoding and letters; the program sees its bytes.
`Code` gives the bytes of four letters in three encodings, chosen so that a letter
of one looks like part of a letter in another. `Begin`, `ReadInput` and `ReadCorrect`
are one request; authors may change files, settings and the row between any two
of them. `Read` is the loop of `read_file_unknown_encoding`.

### ServeConfig

`ReadLine` is one line of `RawConfigParser._read` with the options the repository
changed in its copy; the behaviours are files, one line at a time, after one of some
`Beginnings`. `Problem` and `Contest` are `EjudgeProblemCfg` and `EjudgeContestCfg`,
`Printed` is `printconf`. Lines are structured: the regular expressions that take
them apart are left out, and so are numbers of more than a few digits.

### RunArchive

`Write` is the judge, which puts a header and a file at a multiple of 16 bytes;
`Headers` and `GetFile` are the reader, `TestProtocol` is what is shown of a test. A
text is its lengths in characters and bytes, which is all that limits look at.

## Runs

Bounds are CONSTANTS of the modules (`Max...`) and are given in the `.cfg` files.

| run | instance | shows |
|---|---|---|
| `Lifecycle_rejudge` | 1 run, 2 uuids, 1 rejudge, 1 lost answer, 1 kill, a verdict without report, no retries | TypeOK, TaskFindsRunAndSource, VerdictHasProtocol, SubmissionsBounded, WithdrawnOnlyByRejudge, ImplementsService |
| `Lifecycle_judged` | 2 runs, one of which may find no judge, 2 uuids, 1 retry of each task, 1 fault, 1 lost answer, 1 re-evaluation | EventuallyJudged |
| `Lifecycle_settled` | 2 runs, 4 uuids, no `rmatics_run_id`, patient rejudges, no faults | VerdictIsGenuine, EventuallySettled |
| `Cache_races` | 3 requests, 2 overlapping keys, 2 processes, a put and a task | TypeOK, CachedTableHasMeta, InvalidationReachesTables |
| `Cache_fresh` | 3 requests, a key limited in time only, a put (as v1 does) and a change that invalidates nothing, 1 crash | OneFillPerKey, EventuallyFresh |
| `Intake_requests` | 3 requests, 9 asks (every refusal, two texts, two languages, an output-only problem), 1 fault, 1 restart of MySQL | TypeOK, DuplicateRefused, SourceIsOwn |
| `Routing_drift` | 2 judges, 6 files (wrong, empty, missing tokens, unreadable, default unset or no number), settings of up to 3 of 6 entries, 1 edit | TypeOK, EntryIsBest, LossNeedsDrift |
| `Lists_paging` | 4 rows of 3 kinds, 7 lists, pages of 1 and (capped) 2, 2 changes of status | TypeOK, MissesBounded, RepeatsBounded |
| `Row_writers` | 2 runs, 2 sessions, 2 judges (one notifies by v1, one by v2), 2 contests, 2 submissions, 2 numbers, a verdict, a compile error and a progress, 2 events | TypeOK, RowIsOneVerdict, VerdictIsOwn, ShownVerdictHasProtocol |
| `Readers` | the five parts of `MCReaders`: reports of 2 tests of 4 kinds; 3 lines out of 17 after 5 beginnings; 4 files of 6 kinds; 2 runs, 2 users and 8 requests to the monitors; 8 texts, 4 problems, 3 settings and 2 edits | ShownIsReported, RefusalIsShown, LegacyReadsTheSame, PrintReadsBack, ProblemsAreFound, InheritedIsOwn, FilesAreFound, CutsAreMarked, StoredIsFresh, ContestsAreWhole, FilesAreRead, SourceIsText, PageIsOfItsTime |
| `Doc_verdict_changes` | 1 run, 2 uuids, 1 lost answer, no rejudge | a claim of a test that the code does not keep: both submissions are judged, and the second verdict replaces the first without a reset (only verdicts of judges count, never a 520) |
| `Doc_lock` | 2 requests, 1 slow holder | a claim of a comment that the code does not keep |

`Readers` is one run because its parts share no state: `which` picks the part of a
behaviour, the others rest, and a property speaks of the behaviours of its own part.

Where the code has a race that nothing guards, the property about it excepts exactly
that race and says that nothing else goes wrong: overlapping requests
(`DuplicateRefused`), ids that MySQL gives twice (`SourceIsOwn`), requests under way
when a task looks for metas (`InvalidationReachesTables`), rows that a session wrote
without having seen their verdict (`RowIsOneVerdict`). Such a property bounds the damage;
it does not say that the race is harmless. The notes of the hazards in `PROJECT.json`
say so one by one. `VerdictHasProtocol` and `ShownVerdictHasProtocol` ask for a protocol
(the former also takes an archived one), not for the one of the status beside it, which
`EventuallySettled` asks for.

Some properties of readers state exceptions, which are what the code really
does and a user may meet: a text in KOI8-R or CP1251 is recognised only if none of
its letters is coded by a byte that continues a letter in UTF-8; a file in KOI8-R
loses its only Cyrillic letter when it is the last; a missing compiler output is
empty after XML and null after BSON; a cached table that names a time and no users is
found by no change, and neither is one by the users whose names were cut from its
meta; a problem that two contests of one monitor share has the rank of the last; a run whose
submission failed shows nothing until the error protocol follows its status, or for good
when the task dies in between; an option of `serve.cfg` that begins with an empty value is not printed, and neither is
the header of a section that is called `default`; the input and the answer of a sample
may be of different versions.

Why the bounds are enough: the properties relate one run (or two that could be
confused) to its submissions; two uuids let an old and a new submission of a run
coexist, which is what a lost answer or a rejudge creates, and a third adds
another run's. Three requests are what "the same, something else, the same again"
takes, and what a dead handler, its id given twice and a bystander take. Four rows
make three page boundaries, one more than a departure and an arrival can disturb.
Three entries hold a winner, a tie and a loser. Two sessions are a writer and the one it
overtakes; two judges and two contests are what it takes to give one number twice.
Of the readers, two tests are a first and a last; 3 lines after a beginning reach
each pair of a section, an option and its continuation; 4 files are a first, a last,
one again and one between them; `MaxKeyLen` 22 cuts the item of the second of two
users; `Size` 3 ends in the middle of a letter of two bytes; two edits fall before and
between the reads of a sample. One kill, one fault and one lost answer each reach every point of
every process, because nothing in the model limits when they happen. The theorems
below hold for all bounds.

CHECK_DEADLOCK is FALSE everywhere: all processes end, and a system nobody
uses stops.

## Fairness

`RunLifecycle`: handlers and workers that started keep running, a queued task is
taken up, a judge judges what it accepted. Nothing forces a user, a fault, a
second judgement or the delivery of an answer that is lost. Celery workers run
until stopped and the broker delivers, which is what weak fairness of each
process says. `EventuallySettled` also assumes `Patient`: a rejudge is asked for
when nothing of the run is in flight, and the 202 seconds of `check_run`'s retries
outlast the commit of the judge's answer. Without the first, two submit tasks of
one run may finish in either order; without the second, a notification of the new
submission is refused because the row still has the old uuid.

`MonitorCache`: threads and tasks that started keep running, Redis honours the
expiration times of tables, and of locks whose holder died. A request waiting for
a lock has no fairness: the lock is not queued.

## Proofs

* `RunLifecycle_proofs`: `TypeCorrect`, then `Invariance` of `IInv`. The invariant
  the properties need is that everything in flight agrees about whose it is: a
  process that sends or has sent belongs to an existing run with a source, what
  a judge holds names an existing run, a chain carries a status its submission
  was given, and the uuid remembered by a handler or task is a submission of its
  run. `TasksFindTheirRun`, `VerdictsAreGenuine` and `OnlyRejudgeWithdraws` follow.
  `VerdictsHaveProtocols` needs `ReportInv` besides: a chain that has passed
  `load_protocol` leaves a report behind, and a rejudge that has archived one but
  not yet deleted it keeps that true when it deletes.
  `LifecycleImplementsService`: every step of `RunLifecycle` is a step of
  `VerdictService` or leaves its variables alone, one lemma per group of actions.
* `MonitorCache_proofs`: `TypeCorrect`, `Invariance`, and from it
  `TablesHaveMetas` and `InvalidationReaches`. The invariant says that a table was
  stored by a request of its key, that a committed meta has a finished request,
  and that once a change has looked for metas, every table that is old for it is
  among those left to remove, or was being computed at that moment.

* `SubmissionIntake_proofs`: `TypeCorrect`, `DuplicatesRefused` and `SourcesAreOwn`.
  `OrderInv` says that the counter is ahead of every committed row and of every id
  of a live transaction, so a snapshot holds only smaller ids, and since rows do
  not change, the verdict on duplicates reached at the flush still stands at the
  commit. `SourceInv` gives every id that was handed out once a single owner, and
  says how many documents the id has from how far the owner is.
* `JudgeRouting_proofs`: `TypeCorrect` and `LossesNeedDrift`; the invariant `Served`
  says that the configuration that served the run last passes its judge's token.
* `RunRow_proofs`: `TypeCorrect`, `RowsAreOneVerdict`, `VerdictsAreOwn` and
  `ShownVerdictsHaveProtocols`. `Assigned` says what each kind of session has made of
  the row it loaded, so that `MergeRow` gives every column after a commit as the old
  or the new one. `VerdictsAreOwn` rests on where a number in a row, in a session and
  at a judge can come from; `DocInv` on the order of the link and the commit of v1, of the
  store and the update of v2, and on the document the setter inserts for a run, which is
  the protocol of no other.
* `SubmissionLists_proofs`: `TypeCorrect`, `MissesAreBounded` and `RepeatsAreBounded`.
  A run has a place in the list, the number of runs before it. `Skipped` are the due
  runs whose place is before the next page although they were not read, `Seen` those
  whose place is not although they were. A departure moves every later run one place
  up, so that at most one gets into `Skipped`, an arrival one place down, so that at
  most one gets into `Seen`; `IInv` bounds the two sets, and what was read twice, by the
  departures and arrivals so far.
* `Readers_proofs`: `ReportsAreShown` and `RefusalsAreShown` rest on `AnswersInv`, which
  says of what is stored that it is what the judge reported, up to the packing that the
  parser undoes, or why no judge took the run, and of a task between its two writes which
  explanation it will store; `LegacyAgrees` compares the two parsers
  test by test, and their largest times by induction over the tests.
  `StoredTablesAreFresh` rests on `MonitorsInv`: every cached table was computed for a
  call whose meta is there, lists only runs that this call selects, and lists all those
  with a verdict that a change finds. Calls with one key agree in all that was given
  (`KeysDiffer`), so that the table of one is the table of the other.
  `InheritanceIsCopying` holds of any sections, whether or not a file can have them.
  `ProblemsAreAtTheirIds`: after every line the sections are in an order (`Parser`), and
  after every section the contest has the problems of those before it, each at its id
  (`HasProblems`, by induction).
  `PrintingReadsBack`: what is printed of one option, then of a section, then of all, is
  read again by a parser whose last section becomes like the printed one (`Became`,
  `OptionsRead`, `SectionsRead`): it has the same options, each with the same value at its
  head or none, which is all that is ever asked of it (`LikeFound`). Printing takes the
  sections by their names; that leaves those of one name in their order and the default
  section first (`Regrouped`), and from such sections the same contest is made
  (`LikeContest`). Each of these is an induction, over the lines, the options, the names
  or the sections; that a file of any length leaves a parser of which all this can be said
  is the invariant `Parser`.
* `Files_proofs`: `ArchivesAreRead` and `PartsAreMarked` rest on `ArchiveInv`, which lays the
  files out from byte 16 on, each rounded up to 16; `HeadersRead` goes backwards from the
  end and shows that the reader sees at the place of each file its header and those after
  it. `PagesAreOfTheirTime`: what is left to read is the end of the list of samples, and
  what was read is of a time the request has seen. `FilesAreShownAsWritten` and
  `SourcesAreShownAsWritten`: the bytes of a text have its letters at their places
  (`Spells`, `Singles`), so that decoding finds in any beginning of them the letters that
  are whole there (`PrefixIsRead`), by induction from the end of the bytes; bytes of which
  none continues a letter are no UTF-8 unless they are ASCII up to a last one
  (`SinglesInUtf8`); and a file is read until there are enough letters (`ReadsEnough`).
  `MonitorsAreWhole`: what is shown last are the tables of its request (`Shown`); the
  problems of a contest have one order by their ranks (`SortedExists`), the contests of
  the modules are listed once (`DistinctIsOnce`), and the tables are their blocks, one
  after the other (`TablesAreBlocks`), so that every table is at its place in one block.
  The inductions over data in both modules are done on a set of numbers, with the lemma
  `Induction`, since the library's theorems cannot be instantiated.
* In `RunLifecycle_proofs` also `SubmissionsAreBounded`: `CountInv` says
  that a run has at most as many submissions as requests that are past their answer,
  and lost answers.
* In `MonitorCache_proofs` also `FillsAreExclusive`, which assumes `MaxSlow = 0`: nobody
  computes for longer than the lock lives. `LockInv` says that whoever is between
  taking the lock of its key and releasing it is the one who holds it. Without the
  assumption `Doc_lock` shows a second request at work.

The theorems about `RunLifecycle` hold for the writers of the life cycle; `RunAPI.put` and
v1 write the same row, and what remains true with them is what `RunRow_proofs` says.

The proofs use the assumptions on constants stated in the modules and no other but the
one named above. `Readers` assumes that what stands for nothing is no text and no
number, that a test, a file and a text have their fields, that a character takes a
byte or more, that a configuration is a sequence of lines, a line is made of texts and
no header is `[DEFAULT]` (whose options `configparser` would give to all sections;
`ConfigAssumption`), that the list of samples is one of texts, that the problems of a
contest are finitely many, no two with one rank and none there twice
(`MonitorsAssumption`: `Statement` keeps them in a collection by their ranks; no
constraint of the table says so), and of the encodings what they are
(`CodeAssumption`): the first byte of a letter in UTF-8 says how many there are and
the others are those that may follow it (`Later`: 128 .. 191, the second within the
limits that 224, 237, 240 and 244 set), a letter in CP1251 and KOI8-R is a byte, ASCII is the
same in all, and 152 is no letter of CP1251. Its `Spec` lets the five parts move at
will; `MCSpec` lets one.

Only checked, not proved: the liveness properties, which are out of the prover's reach.
Every safety property and action property of the runs that pass is stated by a theorem.

## Not modelled

* Code without a caller that cannot run or that nothing reaches: `Statement.start`,
  `finish` and the participants (they name classes that are gone), the standings,
  `PynformaticsRun`, the queue in Redis that Celery replaced, ideal solutions, the
  search for a checker, the other files of a run, and of the copy of `configparser`
  interpolation, proxies and writing. The rest of the reader of a local ejudge is
  modelled: the page of a problem reaches `serve.cfg` and the files of tests from
  `ProblemApi.get`, and the archive, the older parser and the printing have no state to
  get wrong but an algorithm.
* The call to centrifugo, which `do_not_execute` disables.
* Deployment files, scripts, the bot and the pseudo ejudge: tools around the service.
* Inside the modelled parts: a Redis that refuses connections, the row lock that an
  autoflush may take, the translation of language ids and the address of a judge,
  regular expressions, XML, zlib and base64 as such.
