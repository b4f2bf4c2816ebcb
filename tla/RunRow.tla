-------------------------------- MODULE RunRow --------------------------------
(***************************************************************************)
(* Who writes which columns of a row of "runs", and what its readers see.  *)
(* The writers are RunAPI.put and RunAPI.post, submit_task, the older       *)
(* notification (v1), which finds a run by the number the judge gave it,   *)
(* and the newer one (v2), which names the run.  All but the last load a   *)
(* row, assign attributes, and write at the commit the columns that differ *)
(* from what they loaded, whatever others committed meanwhile.             *)
(*                                                                         *)
(* A number of a submission is unique at one judge and in one contest.     *)
(***************************************************************************)
EXTENDS Integers

CONSTANTS
  Runs, Judges, Contests, Numbers,
  Sessions,       \* handlers and tasks, each with a session of its own
  Subs,           \* submissions the judges may hold
  ContestOf,      \* ContestOf[r]: the contest of the problem of r
  Routes,         \* Routes[r]: <<judge, contest>> that judges_settings may choose
  Verdicts,       \* what a notification may say, [status, score, test]
  Reportless,     \* statuses whose notification names no protocol
  Newer,          \* judges that send v2
  Puts,           \* bodies of RunAPI.put
  Askers,         \* arguments of readers, [admin, user, context]
  UserOf, ContextOf,   \* columns user_id and context_source of a run
  None,
  MaxEvents       \* bound: puts, rejudges, notifications of v1, refusals, deaths

Gone        == "gone"
InQueue     == 377
SubmitError == 520
NonTerminal == {96, 98, InQueue}

OnTheWay(v)  == v.status \in NonTerminal
HasReport(v) == ~OnTheWay(v) /\ v.status \notin Reportless

Verdict == [status : Int, score : Int \cup {None}, test : Int \cup {None}]

ASSUME ConstantsAssumption ==
  /\ Verdicts \subseteq Verdict
  /\ Reportless \subseteq Int
  /\ ContestOf \in [Runs -> Contests]
  /\ Routes \in [Runs -> SUBSET (Judges \X Contests)]
  /\ MaxEvents \in Nat
  /\ \A v \in Verdicts : OnTheWay(v) => v.score = None /\ v.test = None
  /\ \A a \in Puts : DOMAIN a \subseteq {"status", "score", "test"} /\ \A c \in DOMAIN a : a[c] \in Int
  /\ None \notin Int \cup Runs \cup Subs \cup Judges \cup Contests \cup Numbers
  /\ Gone \notin Runs /\ None # "protocol"
  /\ Subs \cap Runs = {}

VARIABLES
  row,       \* the table of runs
  tasks,     \* tasks[r]: submit_tasks of r in the broker
  session,   \* what each session has loaded and assigned
  sub,       \* the submissions the judges hold
  mail,      \* what the judges notify, [sub, verdict, stored]
  doc,       \* the collection "protocol": run_id of the documents in Docs
  used,      \* requests, refusals and deaths so far, for the bound
  by,        \* history: the submission whose verdict wrote the status of a run
  withdrawn, \* history: runs whose protocol was moved or given to another run, with no
             \* other since
  loose      \* history: runs whose columns may come from different writers

vars == <<row, tasks, session, sub, mail, doc, used, by, withdrawn, loose>>

\* Documents of "protocol": one of each submission, stored by the caller of v1 and without
\* run_id until it is linked (None), and one of each run, which the setter of Run.protocol
\* inserts.  Gone: it was moved.
Docs == Subs \cup Runs

Blank == [status |-> InQueue, score |-> None, test |-> None]

\* Attributes assigned to a loaded row
Assign(x, a) == [c \in DOMAIN x |-> IF c \in DOMAIN a THEN a[c] ELSE x[c]]

\* The columns of a verdict
Triple(x) == [status |-> x.status, score |-> x.score, test |-> x.test]

\* update() without the values that are None, and attributes set one by one
Filled(x, v) == [x EXCEPT !.status = v.status,
                          !.score = IF v.score = None THEN @ ELSE v.score,
                          !.test = IF v.test = None THEN @ ELSE v.test]

-----------------------------------------------------------------------------
(***************************************************************************)
(* Sessions                                                                *)
(***************************************************************************)

Free == [pc |-> "free", op |-> "none", run |-> None, seen |-> None, new |-> None, message |-> None]

Idle(h)        == session[h].pc = "free"
Goto(h, pc)    == session' = [session EXCEPT ![h].pc = pc]
Close(h)       == session' = [session EXCEPT ![h] = Free]
At(h, op, pc)  == session[h].op = op /\ session[h].pc = pc
Loaded(op, r, pc) == [pc |-> pc, op |-> op, run |-> r, seen |-> row[r], new |-> row[r],
                      message |-> None]

\* Requests from outside, refusals and deaths share one bound.
Spend == used < MaxEvents /\ used' = used + 1

\* Bug: every column is written back.
FlushAll(h) == row' = [row EXCEPT ![session[h].run] = session[h].new]

\* The UPDATE of a session at its commit
Flush(h) ==
  LET s == session[h] IN
  row' = [row EXCEPT ![s.run] =
    [c \in DOMAIN @ |-> IF s.new[c] # s.seen[c] THEN s.new[c] ELSE @[c]]]

\* History: did the verdict columns change since the session loaded them?
Stale(h) == Triple(session[h].seen) # Triple(row[session[h].run])

Mark(r, isLoose) == loose' = IF isLoose THEN loose \cup {r} ELSE loose \ {r}

HasProtocol(r) == \E d \in Docs : doc[d] = r

\* The setter of Run.protocol: an upsert replaces what the document of r says, if there is
\* one, or inserts a document.
Store(r) ==
  /\ doc' = IF HasProtocol(r) THEN doc ELSE [doc EXCEPT ![r] = r]
  /\ withdrawn' = withdrawn \ {r}

\* A process is killed, or an exception ends it: its transaction is rolled back.
Die(h) ==
  /\ ~Idle(h)
  /\ Spend
  /\ Close(h)
  /\ UNCHANGED <<row, tasks, sub, mail, doc, by, withdrawn, loose>>

-----------------------------------------------------------------------------
(***************************************************************************)
(* RunAPI.put                                                              *)
(***************************************************************************)

PutLoad(h, r, a) ==
  /\ Idle(h)
  /\ Spend
  /\ session' = [session EXCEPT ![h] = [Loaded("put", r, "assigned") EXCEPT !.new = Assign(@, a)]]
  /\ UNCHANGED <<row, tasks, sub, mail, doc, by, withdrawn, loose>>

PutCommit(h) ==
  LET r == session[h].run IN
  /\ At(h, "put", "assigned")
  /\ Flush(h)
  /\ by' = [by EXCEPT ![r] = IF row'[r].status # row[r].status THEN None ELSE @]
  /\ Mark(r, TRUE)
  /\ Close(h)
  /\ UNCHANGED <<tasks, sub, mail, doc, used, withdrawn>>

(***************************************************************************)
(* RunAPI.post: the rejudge.  RunLifecycle has the three calls of the move *)
(* one by one.                                                             *)
(***************************************************************************)

RejudgeLoad(h, r) ==
  /\ Idle(h)
  /\ Spend
  /\ session' = [session EXCEPT ![h] = Loaded("rejudge", r, "loaded")]
  /\ UNCHANGED <<row, tasks, sub, mail, doc, by, withdrawn, loose>>

RejudgeMove(h) ==
  LET r == session[h].run IN
  /\ At(h, "rejudge", "loaded")
  /\ session' = [session EXCEPT ![h].pc = "moved", ![h].new = Assign(@, Blank)]
  /\ doc' = [d \in Docs |-> IF doc[d] = r THEN Gone ELSE doc[d]]
  /\ withdrawn' = withdrawn \cup {r}
  /\ UNCHANGED <<row, tasks, sub, mail, used, by, loose>>

RejudgeCommit(h) ==
  LET r == session[h].run IN
  /\ At(h, "rejudge", "moved")
  /\ Flush(h)
  /\ tasks' = [tasks EXCEPT ![r] = @ + 1]
  /\ by' = [by EXCEPT ![r] = IF row'[r].status # row[r].status THEN None ELSE @]
  /\ Mark(r, Stale(h))
  /\ Close(h)
  /\ UNCHANGED <<sub, mail, doc, used, withdrawn>>

(***************************************************************************)
(* submit_task, and the judges                                             *)
(***************************************************************************)

NoSub == [run |-> None, judge |-> None, contest |-> None, number |-> None, final |-> FALSE]

\* Bug: a task is delivered twice.
SubmitLoadAgain(h, r) ==
  /\ Idle(h)
  /\ tasks' = [tasks EXCEPT ![r] = @ - 1]
  /\ session' = [session EXCEPT ![h] = Loaded("submit", r, "loaded")]
  /\ UNCHANGED <<row, sub, mail, doc, used, by, withdrawn, loose>>

SubmitLoad(h, r) ==
  /\ Idle(h)
  /\ tasks[r] > 0
  /\ tasks' = [tasks EXCEPT ![r] = @ - 1]
  /\ session' = [session EXCEPT ![h] = Loaded("submit", r, "loaded")]
  /\ UNCHANGED <<row, sub, mail, doc, used, by, withdrawn, loose>>

\* External: a judge gives each submission of a contest a number of its own.
JudgeAccepts(h, s, where, n) ==
  LET r == session[h].run IN
  /\ At(h, "submit", "loaded")
  /\ \A t \in Subs : <<sub[t].judge, sub[t].contest, sub[t].number>> # <<where[1], where[2], n>>
  /\ where \in Routes[r]
  /\ sub[s] = NoSub
  /\ sub' = [sub EXCEPT ![s] = [NoSub EXCEPT !.run = r, !.judge = where[1], !.contest = where[2],
                                             !.number = n]]
  /\ session' = [session EXCEPT ![h].pc = "answered", ![h].new = [@ EXCEPT !.number = n]]
  /\ UNCHANGED <<row, tasks, mail, doc, used, by, withdrawn, loose>>

JudgeRefuses(h) ==
  /\ At(h, "submit", "loaded")
  /\ Spend
  /\ session' = [session EXCEPT ![h].pc = "answered",
       ![h].new = [@ EXCEPT !.number = None, !.status = SubmitError]]
  /\ UNCHANGED <<row, tasks, sub, mail, doc, by, withdrawn, loose>>

\* The judge did not take the run.
Refused(h) == session[h].new.number = None

\* _add_info_from_ejudge: run.ejudge_contest_id stays that of the problem.
SubmitCommit(h) ==
  LET r == session[h].run IN
  /\ At(h, "submit", "answered")
  /\ Flush(h)
  /\ by' = [by EXCEPT ![r] = IF row'[r].status # row[r].status THEN None ELSE @]
  /\ IF Refused(h) /\ (Stale(h) \/ row[r].status \notin NonTerminal)
       THEN Mark(r, TRUE) ELSE UNCHANGED loose
  /\ IF Refused(h) THEN Goto(h, "erred") ELSE Close(h)
  /\ UNCHANGED <<tasks, sub, mail, doc, used, withdrawn>>

\* run.protocol = _build_submit_error_protocol
StoreError(h) ==
  /\ At(h, "submit", "erred")
  /\ Store(session[h].run)
  /\ Close(h)
  /\ UNCHANGED <<row, tasks, sub, mail, used, by, loose>>

\* External: statuses on the way, and a final one.
JudgeNotifies(s, v) ==
  /\ sub[s] # NoSub /\ ~sub[s].final
  /\ sub' = [sub EXCEPT ![s].final = v.status \notin NonTerminal]
  /\ mail' = mail \cup {[sub |-> s, verdict |-> v, stored |-> FALSE]}
  /\ UNCHANGED <<row, tasks, session, doc, used, by, withdrawn, loose>>

-----------------------------------------------------------------------------
(***************************************************************************)
(* UpdateRunFromEjudgeAPIv1.  Its caller has stored the protocol and sends *)
(* the _id of the document; it may repeat itself.                          *)
(***************************************************************************)

\* Bug: the contest is not asked for.
FoundByNumber(s) == {r \in Runs : row[r].number = sub[s].number}

Found(s) == {r \in Runs : row[r].number = sub[s].number /\ row[r].contest = sub[s].contest}

\* Bug: the row is written before the protocol is linked.
V1FindCommitsFirst(h, m) ==
  /\ Idle(h)
  /\ sub[m.sub].judge \notin Newer
  /\ Spend
  /\ \E r \in Runs :
       /\ Found(m.sub) = {r}
       /\ session' = [session EXCEPT ![h] = [Loaded("v1", r, "linked")
            EXCEPT !.message = m, !.new = Filled(@, m.verdict)]]
  /\ UNCHANGED <<row, tasks, sub, mail, doc, by, withdrawn, loose>>

\* one_or_none: none is a 400, two are an exception.
V1Find(h, m) ==
  /\ Idle(h)
  /\ sub[m.sub].judge \notin Newer
  /\ Spend
  /\ \E r \in Runs :
       /\ Found(m.sub) = {r}
       /\ session' = [session EXCEPT ![h] =
            [Loaded("v1", r, IF HasReport(m.verdict) THEN "found" ELSE "linked")
               EXCEPT !.message = m, !.new = Filled(@, m.verdict)]]
  /\ UNCHANGED <<row, tasks, sub, mail, doc, by, withdrawn, loose>>

\* update_one by _id; run_id is unique among protocols.  A document that has the
\* run_id already is not modified, one that a rejudge moved is not there: both end
\* in a 400.  A protocol of another submission in the way is only logged.
V1Link(h) ==
  LET r == session[h].run
      s == session[h].message.sub
  IN
  /\ At(h, "v1", "found")
  /\ IF doc[s] \in {r, Gone}
       THEN Close(h) /\ UNCHANGED <<doc, withdrawn>>
       ELSE /\ Goto(h, "linked")
            /\ IF HasProtocol(r)
                 THEN UNCHANGED <<doc, withdrawn>>
                 ELSE /\ doc' = [doc EXCEPT ![s] = r]
                      /\ withdrawn' = (withdrawn \cup ({doc[s]} \cap Runs)) \ {r}
  /\ UNCHANGED <<row, tasks, sub, mail, used, by, loose>>

V1Commit(h) ==
  LET r == session[h].run
      m == session[h].message
      v == m.verdict
  IN
  /\ At(h, "v1", "linked")
  /\ Flush(h)
  /\ by' = [by EXCEPT ![r] = IF row'[r].status = v.status THEN m.sub ELSE @]
  /\ Mark(r, Stale(h) \/ None \in {v.score, v.test})
  /\ Close(h)
  /\ UNCHANGED <<tasks, sub, mail, doc, used, withdrawn>>

(***************************************************************************)
(* The chain of v2.  RunLifecycle has its checks and retries.              *)
(***************************************************************************)

\* load_protocol
StoreProtocol(m) ==
  LET r == sub[m.sub].run IN
  /\ m \in mail /\ ~m.stored /\ sub[m.sub].judge \in Newer
  /\ ~OnTheWay(m.verdict)
  /\ mail' = (mail \ {m}) \cup {[m EXCEPT !.stored = TRUE]}
  /\ IF HasReport(m.verdict) THEN Store(r) ELSE UNCHANGED <<doc, withdrawn>>
  /\ UNCHANGED <<row, tasks, session, sub, used, by, loose>>

\* upd_run: one UPDATE
UpdRun(m) ==
  LET s == sub[m.sub]
      v == m.verdict
  IN
  /\ m \in mail /\ s.judge \in Newer
  /\ m.stored \/ OnTheWay(v)
  /\ mail' = mail \ {m}
  /\ IF OnTheWay(v) => row[s.run].status \in NonTerminal
       THEN /\ row' = [row EXCEPT ![s.run] = [Filled(@, v) EXCEPT !.number = s.number,
                                                                  !.contest = s.contest]]
            /\ by' = [by EXCEPT ![s.run] = m.sub]
            /\ Mark(s.run, None \in {v.score, v.test})
       ELSE UNCHANGED <<row, by, loose>>
  /\ UNCHANGED <<tasks, session, sub, doc, used, withdrawn>>

-----------------------------------------------------------------------------
(***************************************************************************)
(* RunStatusApi, SourceApi and ProtocolApi                                 *)
(***************************************************************************)

\* The filter of all three: an administrator sees every run; others see their
\* own, and those of the context they ask from.
MaySee(a, r) ==
  \/ a.admin
  \/ UserOf[r] = a.user
  \/ a.context > 0 /\ ContextOf[r] = a.context

\* None is a 404.
GetStatus(a, r)   == IF MaySee(a, r) THEN Triple(row[r]) ELSE None
GetProtocol(a, r) == IF MaySee(a, r) /\ HasProtocol(r) THEN "protocol" ELSE None

-----------------------------------------------------------------------------
Init ==
  /\ row = [r \in Runs |-> [status |-> InQueue, score |-> None, test |-> None, number |-> None,
                            contest |-> ContestOf[r]]]
  /\ tasks = [r \in Runs |-> 1]
  /\ session = [h \in Sessions |-> Free]
  /\ sub = [s \in Subs |-> NoSub]
  /\ mail = {}
  /\ doc = [d \in Docs |-> None]
  /\ used = 0
  /\ by = [r \in Runs |-> None]
  /\ withdrawn = {}
  /\ loose = {}

HandlerStep(h) ==
  \/ \E r \in Runs : RejudgeLoad(h, r) \/ \E a \in Puts : PutLoad(h, r, a)
  \/ PutCommit(h)
  \/ RejudgeMove(h)
  \/ RejudgeCommit(h)
  \/ \E m \in mail : V1Find(h, m)
  \/ V1Link(h)
  \/ V1Commit(h)

TaskStep(h) ==
  \/ \E r \in Runs : SubmitLoad(h, r)
  \/ \E s \in Subs, where \in Judges \X Contests, n \in Numbers :
       JudgeAccepts(h, s, where, n)
  \/ JudgeRefuses(h)
  \/ SubmitCommit(h)
  \/ StoreError(h)

JudgeStep ==
  \/ \E s \in Subs, v \in Verdicts : JudgeNotifies(s, v)
  \/ \E m \in mail : StoreProtocol(m) \/ UpdRun(m)

Next ==
  \/ \E h \in Sessions : HandlerStep(h) \/ TaskStep(h) \/ Die(h)
  \/ JudgeStep

Spec == Init /\ [][Next]_vars

-----------------------------------------------------------------------------
Column   == Int \cup {None}
Row      == [status : Int, score : Column, test : Column, number : Numbers \cup {None}, contest : Contests]
Message  == [sub : Subs, verdict : Verdicts, stored : BOOLEAN]
SubRec   == {NoSub} \cup
            [run : Runs, judge : Judges, contest : Contests, number : Numbers, final : BOOLEAN]
Loading  == [pc : {"loaded", "assigned", "moved", "answered", "erred", "found", "linked"},
             op : {"put", "rejudge", "submit", "v1"}, run : Runs, seen : Row, new : Row,
             message : Message \cup {None}]

\* Every variable has its type.
TypeOK ==
  /\ row \in [Runs -> Row]
  /\ tasks \in [Runs -> Nat]
  /\ session \in [Sessions -> {Free} \cup Loading]
  /\ sub \in [Subs -> SubRec]
  /\ mail \subseteq Message
  /\ doc \in [Docs -> Runs \cup {None, Gone}]
  /\ by \in [Runs -> Subs \cup {None}]
  /\ withdrawn \subseteq Runs
  /\ loose \subseteq Runs
  /\ used \in 0 .. MaxEvents

Blanks == {[status |-> s, score |-> None, test |-> None] : s \in NonTerminal \cup {SubmitError}}

\* Status, score and test number of a row belong together: a run has neither score
\* nor test while it is not judged, and else what one verdict said.  It takes a
\* put, a notification that leaves something out, a submission that fails although
\* the run has a verdict, or a session that commits over a verdict it had not loaded
\* to mix them, and the next whole write repairs it.
RowIsOneVerdict ==
  \A r \in Runs : r \in loose \/ Triple(row[r]) \in Blanks \cup Verdicts

\* r has the number of s from another judge, or r was also sent to another contest
\* than that of its problem, which is the one in its row until v2 replaces it.
Astray(r, s) ==
  \E t, u \in Subs :
    /\ sub[t].run = r /\ sub[t].number = sub[s].number
    /\ sub[u].run = r
    /\ sub[t].judge # sub[s].judge \/ sub[u].contest # ContestOf[r]

\* A verdict reaches the run it was given for, although v1 finds runs by a number
\* that another judge may give too, beside a contest that may not be the one the run
\* was sent to: only a run with such a number gets the verdict of another.
VerdictIsOwn ==
  \A r \in Runs : by[r] # None => sub[by[r]].run = r \/ Astray(r, by[r])

\* Whoever is shown the status of a verdict with a report is also given a protocol,
\* unless a rejudge took it away or its notification reached another run as well.
ShownVerdictHasProtocol ==
  \A a \in Askers, r \in Runs :
    /\ by[r] # None
    /\ GetStatus(a, r) # None /\ HasReport(GetStatus(a, r))
    /\ r \notin withdrawn
    => GetProtocol(a, r) # None
=============================================================================
