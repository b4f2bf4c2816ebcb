----------------------------- MODULE RunLifecycle -----------------------------
(***************************************************************************)
(* The life of a run: the web handlers that accept it and rejudge it, the  *)
(* Celery task that sends it to a judge, the judge itself, and the chains  *)
(* of Celery tasks that carry the judge's notifications back into MySQL    *)
(* and Mongo.                                                              *)
(*                                                                         *)
(* MySQL holds the row of a run, Mongo its source, its protocol and the    *)
(* protocols that rejudges moved aside.  The two are written by separate   *)
(* calls, so every handler is cut into one action per external write.      *)
(* Score and test number travel with the status and are left out.          *)
(***************************************************************************)
EXTENDS Naturals, FiniteSets

CONSTANTS
  Runs,              \* ids of the runs users submit
  Judges,            \* judges of the configuration
  Uuids,             \* ids ejudge gives to the submissions it accepts
  Verdicts,          \* final statuses a judge can give
  Reportless,        \* verdicts whose report is neither XML nor BSON
  Routes,            \* Routes[r]: judges the problem of r may resolve to
  ExtUser,           \* TRUE if notifications carry rmatics_run_id
  Progress,          \* TRUE if the judge also reports COMPILING / RUNNING
  Patient,           \* TRUE to assume what Quiet and Outlasts say of time
  MaxSubmitRetries,  \* submit_task.max_retries
  MaxCheckRetries,   \* check_run.max_retries
  MaxLoadRetries,    \* load_protocol.max_retries
  MaxUpdRetries,     \* upd_run.max_retries
  MaxRejudges,       \* bound: rejudge requests per run
  MaxFaults,         \* bound: transient failures of HTTP calls and of MySQL
  MaxLostReplies,    \* bound: submissions accepted whose answer is lost
  MaxDrops,          \* bound: killed handlers and tasks, refused reports
  MaxReevals         \* bound: verdicts a judge gives a second time

None        == "none"
InQueue     == "IN_QUEUE"                \* 377
Running     == "RUNNING"                 \* 96, stands for COMPILING (98) too
SubmitError == "RMATICS_SUBMIT_ERROR"    \* 520
NonTerminal == {InQueue, Running}
Final       == Verdicts \cup {SubmitError}

ASSUME ConstantsAssumption ==
  /\ Reportless \subseteq Verdicts
  /\ Routes \in [Runs -> SUBSET Judges]
  /\ {ExtUser, Progress, Patient} \subseteq BOOLEAN
  /\ {MaxSubmitRetries, MaxCheckRetries, MaxLoadRetries, MaxUpdRetries,
      MaxRejudges, MaxFaults, MaxLostReplies, MaxDrops, MaxReevals} \subseteq Nat

ASSUME DistinctAssumption ==
  /\ None \notin Uuids \cup Judges \cup Runs
  /\ Verdicts \cap {None, InQueue, Running, SubmitError} = {}

VARIABLES
  row,       \* MySQL: the committed row of each run
  rejudges,  \* MySQL: committed rows of the rejudge table
  source,    \* Mongo: runs that have a source document
  protocol,  \* Mongo: the protocol document of each run
  archive,   \* Mongo: the rejudge collection
  proc,      \* requests, and the submit tasks they enqueue
  chains,    \* notification chains in the broker or being executed
  ejudge,    \* external: the submissions the judges hold
  used       \* how much of each failure bound is spent

db     == <<row, rejudges>>
mongo  == <<source, protocol, archive>>
vars   == <<row, rejudges, source, protocol, archive, proc, chains, ejudge, used>>

\* Request 0 of a run submits it, request g > 0 is its g-th rejudge.
Procs == Runs \X (0 .. MaxRejudges)

NoRow    == [status |-> None, uuid |-> None, judge |-> None]
NoDoc    == [src |-> None, status |-> None]
ErrorDoc == [src |-> None, status |-> SubmitError]
NoEjudge == [run |-> None, judge |-> None, status |-> None, given |-> {}]

\* A handler knows the row it loaded and the document it found; a task its
\* retries, the row it loaded, its judge and the submission the judge accepted.
Request(pc, seen, doc) ==
  [pc |-> pc, tries |-> 0, seen |-> seen, doc |-> doc, judge |-> None, sent |-> None]
Task(pc, tries, seen, judge, sent) ==
  [pc |-> pc, tries |-> tries, seen |-> seen, doc |-> NoDoc, judge |-> judge, sent |-> sent]
Fresh(pc) == Request(pc, NoRow, NoDoc)

Exists(r)   == row[r].status # None
Terminal(s) == s \in Final
Unused      == {u \in Uuids : ejudge[u] = NoEjudge}

-----------------------------------------------------------------------------
Init ==
  /\ row = [r \in Runs |-> NoRow]
  /\ rejudges = {}
  /\ source = {}
  /\ protocol = [r \in Runs |-> NoDoc]
  /\ archive = {}
  /\ proc = [p \in Procs |-> Fresh("idle")]
  /\ chains = {}
  /\ ejudge = [u \in Uuids |-> NoEjudge]
  /\ used = [faults |-> 0, lost |-> 0, drops |-> 0, reevals |-> 0]

Goto(p, pc) == proc' = [proc EXCEPT ![p].pc = pc]
Finish(p)   == proc' = [proc EXCEPT ![p] = Fresh("done")]

Spend(kind, bound) ==
  /\ used[kind] < bound
  /\ used' = [used EXCEPT ![kind] = @ + 1]

-----------------------------------------------------------------------------
(***************************************************************************)
(* TrustedSubmitApi.post, for a request that passed validation.            *)
(***************************************************************************)

\* Bug: the handler forgets update_source.
PostSourceForgotten(r) ==
  /\ proc[<<r, 0>>].pc = "idle"
  /\ Goto(<<r, 0>>, "stored")
  /\ UNCHANGED <<db, mongo, chains, ejudge, used>>

\* The row is flushed but not committed when the source reaches Mongo.
PostSource(r) ==
  /\ proc[<<r, 0>>].pc = "idle"
  /\ source' = source \cup {r}
  /\ Goto(<<r, 0>>, "stored")
  /\ UNCHANGED <<row, rejudges, protocol, archive, chains, ejudge, used>>

PostCommit(r) ==
  /\ proc[<<r, 0>>].pc = "stored"
  /\ row' = [row EXCEPT ![r] = [NoRow EXCEPT !.status = InQueue]]
  /\ Goto(<<r, 0>>, "committed")
  /\ UNCHANGED <<rejudges, mongo, chains, ejudge, used>>

\* submit_task.delay(run.id), at the end of both handlers
Enqueue(p) ==
  /\ proc[p].pc = "committed"
  /\ proc' = [proc EXCEPT ![p] = Fresh("queued")]
  /\ UNCHANGED <<db, mongo, chains, ejudge, used>>

(***************************************************************************)
(* RunAPI.post: the rejudge of an existing run.                            *)
(***************************************************************************)

\* Nothing of the run is in flight: no request, no task, no notification due.
\* Patient users rejudge only then.
Quiet(r) ==
  /\ \A p \in Procs : p[1] = r => proc[p].pc \in {"idle", "done"}
  /\ \A c \in chains : ejudge[c.uuid].run # r
  /\ \A u \in Uuids : ejudge[u].run = r => ejudge[u].status \in Verdicts

RejudgeOpen(r, g) ==
  /\ proc[<<r, g>>].pc = "idle"
  /\ Exists(r)
  /\ Patient => Quiet(r)
  /\ proc' = [proc EXCEPT ![<<r, g>>] = Request("opened", row[r], NoDoc)]
  /\ UNCHANGED <<db, mongo, chains, ejudge, used>>

RejudgeFind(r, g) ==
  /\ proc[<<r, g>>].pc = "opened"
  /\ proc' = [proc EXCEPT ![<<r, g>>] =
       Request(IF protocol[r] = NoDoc THEN "moved" ELSE "found", @.seen, protocol[r])]
  /\ UNCHANGED <<db, mongo, chains, ejudge, used>>

RejudgeArchive(r, g) ==
  /\ proc[<<r, g>>].pc = "found"
  /\ archive' = archive \cup {[run |-> r, rejudge |-> g, doc |-> proc[<<r, g>>].doc]}
  /\ Goto(<<r, g>>, "archived")
  /\ UNCHANGED <<db, source, protocol, chains, ejudge, used>>

\* find_one_and_delete by run_id: whatever document is there by now
RejudgeDelete(r, g) ==
  /\ proc[<<r, g>>].pc = "archived"
  /\ protocol' = [protocol EXCEPT ![r] = NoDoc]
  /\ Goto(<<r, g>>, "moved")
  /\ UNCHANGED <<db, source, archive, chains, ejudge, used>>

\* The session writes only the columns whose value differs from the one loaded.
Assign(current, loaded, new) == IF new = loaded THEN current ELSE new

\* Bug: the status is reset without a row in the rejudge table.
RejudgeCommitUnregistered(r, g) ==
  /\ proc[<<r, g>>].pc = "moved"
  /\ row' = [row EXCEPT ![r].status = InQueue]
  /\ Goto(<<r, g>>, "committed")
  /\ UNCHANGED <<rejudges, mongo, chains, ejudge, used>>

RejudgeCommit(r, g) ==
  /\ proc[<<r, g>>].pc = "moved"
  /\ row' = [row EXCEPT ![r].status = Assign(@, proc[<<r, g>>].seen.status, InQueue)]
  /\ rejudges' = rejudges \cup {<<r, g>>}
  /\ Goto(<<r, g>>, "committed")
  /\ UNCHANGED <<mongo, chains, ejudge, used>>

-----------------------------------------------------------------------------
(***************************************************************************)
(* submit_task                                                             *)
(***************************************************************************)

\* Load the run and resolve its judge; without one the task just returns.
SubmitStart(p) ==
  LET r == p[1] IN
  /\ proc[p].pc = "queued"
  /\ IF ~Exists(r) \/ Routes[r] = {}
       THEN Finish(p)
       ELSE \E j \in Routes[r] :
              proc' = [proc EXCEPT ![p] = Task("sending", @.tries, row[r], j, None)]
  /\ UNCHANGED <<db, mongo, chains, ejudge, used>>

\* External: the judge stores the submission; its answer is on the way.
JudgeAccepts(p, u) ==
  /\ proc[p].pc = "sending"
  /\ u \in Unused
  /\ ejudge' = [ejudge EXCEPT ![u] = [run |-> p[1], judge |-> proc[p].judge,
                                      status |-> InQueue, given |-> {}]]
  /\ proc' = [proc EXCEPT ![p] = Task("answered", @.tries, @.seen, @.judge, u)]
  /\ UNCHANGED <<db, mongo, chains, used>>

\* _add_info_from_ejudge: a status of None leaves the column alone
AddInfo(p, status, uuid) ==
  LET seen == proc[p].seen IN
  row' = [row EXCEPT ![p[1]] =
    [status |-> IF status = None THEN @.status ELSE Assign(@.status, seen.status, status),
     uuid   |-> Assign(@.uuid, seen.uuid, uuid),
     judge  |-> Assign(@.judge, seen.judge, proc[p].judge)]]

\* Bug: the judge is passed where the uuid belongs.
SubmitAnsweredSwapped(p) ==
  /\ proc[p].pc = "answered"
  /\ AddInfo(p, None, proc[p].judge)
  /\ Finish(p)
  /\ UNCHANGED <<rejudges, mongo, chains, ejudge, used>>

\* Bug: the uuid of the new submission is not recorded.
SubmitAnsweredUnrecorded(p) ==
  /\ proc[p].pc = "answered"
  /\ Finish(p)
  /\ UNCHANGED <<db, mongo, chains, ejudge, used>>

SubmitAnswered(p) ==
  /\ proc[p].pc = "answered"
  /\ AddInfo(p, None, proc[p].sent)
  /\ Finish(p)
  /\ UNCHANGED <<rejudges, mongo, chains, ejudge, used>>

\* The status is committed first, the error protocol is stored after it.
FailSubmit(p) ==
  /\ AddInfo(p, SubmitError, None)
  /\ Goto(p, "erred")

\* The judge answers with an error, or the judge has no token.
SubmitRefused(p) ==
  /\ proc[p].pc = "sending"
  /\ FailSubmit(p)
  /\ UNCHANGED <<rejudges, mongo, chains, ejudge, used>>

\* submit() raises: the request or its answer is lost, or is not JSON.
SubmitRaises(p) ==
  /\ \/ proc[p].pc = "sending"  /\ Spend("faults", MaxFaults)
     \/ proc[p].pc = "answered" /\ Spend("lost", MaxLostReplies)
  /\ IF proc[p].tries < MaxSubmitRetries
       THEN /\ proc' = [proc EXCEPT ![p] = Task("queued", @.tries + 1, NoRow, None, None)]
            /\ row' = row
       ELSE FailSubmit(p)
  /\ UNCHANGED <<rejudges, mongo, chains, ejudge>>

SubmitErrorProtocol(p) ==
  /\ proc[p].pc = "erred"
  /\ protocol' = [protocol EXCEPT ![p[1]] = ErrorDoc]
  /\ Finish(p)
  /\ UNCHANGED <<db, source, archive, chains, ejudge, used>>

\* Bug: acks_late, so that the task of a killed worker is delivered again.
DropRedelivered(p) ==
  /\ proc[p].pc \in {"sending", "answered", "erred"}
  /\ Spend("drops", MaxDrops)
  /\ proc' = [proc EXCEPT ![p] = Fresh("queued")]
  /\ UNCHANGED <<db, mongo, chains, ejudge>>

\* A killed process or an unhandled exception: the open transaction is rolled
\* back, and the broker has already forgotten the message of a started task.
Drop(p) ==
  /\ proc[p].pc \notin {"idle", "queued", "done"}
  /\ Spend("drops", MaxDrops)
  /\ Finish(p)
  /\ UNCHANGED <<db, mongo, chains, ejudge>>

-----------------------------------------------------------------------------
(***************************************************************************)
(* The judge's notifications, and UpdateRunFromEjudgeAPIv2.post, which     *)
(* turns each into a chain of tasks.                                       *)
(***************************************************************************)

Message(u, status, stage, tries) ==
  [uuid |-> u, status |-> status, stage |-> stage, tries |-> tries]

Notify(u, status) == chains' = chains \cup {Message(u, status, "check", 0)}

\* External: the judge starts working on a submission and says so.
JudgeReportsProgress(u) ==
  /\ Progress
  /\ ejudge[u].status = InQueue
  /\ ejudge' = [ejudge EXCEPT ![u].status = Running]
  /\ Notify(u, Running)
  /\ UNCHANGED <<db, mongo, proc, used>>

GiveVerdict(u, v) ==
  /\ ejudge' = [ejudge EXCEPT ![u] = [run |-> @.run, judge |-> @.judge, status |-> v,
                                      given |-> @.given \cup {v}]]
  /\ Notify(u, v)
  /\ UNCHANGED <<db, mongo, proc>>

JudgeGivesVerdict(u, v) ==
  /\ ejudge[u].status \in NonTerminal
  /\ GiveVerdict(u, v)
  /\ UNCHANGED used

\* External: an operator of the judge has the submission judged again.
JudgeReevaluates(u, v) ==
  /\ ejudge[u].status \in Verdicts
  /\ Spend("reevals", MaxReevals)
  /\ GiveVerdict(u, v)

(***************************************************************************)
(* check_run | load_protocol | upd_run                                     *)
(***************************************************************************)

Pass(c, stage, tries) ==
  chains' = (chains \ {c}) \cup {Message(c.uuid, c.status, stage, tries)}
Advance(c, stage) == Pass(c, stage, 0)
Abort(c) == chains' = chains \ {c}

RetryOrAbort(c, stage, max) ==
  IF c.tries < max THEN Pass(c, stage, c.tries + 1) ELSE Abort(c)

\* Bug: the UPDATE forgets the uuid when there is no rmatics_run_id.
TargetsOfJudge(c) == {r \in Runs : row[r].judge = ejudge[c.uuid].judge}

\* The rows a notification names: by rmatics_run_id, or by (run_uuid, judge_id)
Targets(c) ==
  IF ExtUser
    THEN {r \in Runs : r = ejudge[c.uuid].run /\ Exists(r)}
    ELSE {r \in Runs : row[r].uuid = c.uuid /\ row[r].judge = ejudge[c.uuid].judge}

\* Bug: a column not written yet counts as a mismatch.
CompatibleStrict(x, y) == x = y

Compatible(x, y) == x = None \/ y = None \/ x = y

\* notify._get_run returns r; otherwise it raises NoRunError
GetRun(c, r) ==
  /\ Targets(c) = {r}
  /\ Compatible(ejudge[c.uuid].judge, row[r].judge)
  /\ Compatible(c.uuid, row[r].uuid)

\* The retries of check_run span more than three minutes: with Patient they
\* outlast the submit_task that has yet to record the answer of the judge.
Outlasts(c) == \A p \in Procs : proc[p].sent # c.uuid

\* Bug: upd_run does not wait for load_protocol.
CheckRunUpdatesFirst(c) ==
  /\ c.stage = "check"
  /\ IF \E r \in Runs : GetRun(c, r) THEN Advance(c, "update")
                                    ELSE RetryOrAbort(c, "check", MaxCheckRetries)
  /\ UNCHANGED <<db, mongo, proc, ejudge, used>>

CheckRun(c) ==
  /\ c.stage = "check"
  /\ IF \E r \in Runs : GetRun(c, r)
       THEN Advance(c, IF Terminal(c.status) THEN "load" ELSE "update")
       ELSE /\ Patient => Outlasts(c)
            /\ RetryOrAbort(c, "check", MaxCheckRetries)
  /\ UNCHANGED <<db, mongo, proc, ejudge, used>>

\* load_protocol looks the run up outside its try block: NoRunError ends the chain
LoadGetRun(c) ==
  /\ c.stage = "load"
  /\ IF \E r \in Runs : GetRun(c, r)
       THEN Pass(c, "fetch", c.tries)
       ELSE Abort(c)
  /\ UNCHANGED <<db, mongo, proc, ejudge, used>>

\* The report is the one the judge has now, not the one of the notification.
LoadProtocol(c) ==
  LET held == ejudge[c.uuid] IN
  /\ c.stage = "fetch"
  /\ protocol' = IF held.status \in Reportless THEN protocol
                 ELSE [protocol EXCEPT ![held.run] = [src |-> c.uuid, status |-> held.status]]
  /\ Advance(c, "update")
  /\ UNCHANGED <<db, source, archive, proc, ejudge, used>>

LoadRaises(c) ==
  /\ c.stage = "fetch"
  /\ Spend("faults", MaxFaults)
  /\ RetryOrAbort(c, "load", MaxLoadRetries)
  /\ UNCHANGED <<db, mongo, proc, ejudge>>

\* Bug: the UPDATE has no condition on the status.
UpdatedAlways(c) == Targets(c)

\* One UPDATE; a non-terminal status only replaces a non-terminal one.
Updated(c) ==
  {r \in Targets(c) : Terminal(c.status) \/ row[r].status \in NonTerminal}

UpdRun(c) ==
  /\ c.stage = "update"
  /\ row' = [r \in Runs |->
       IF r \in Updated(c)
         THEN [status |-> c.status, uuid |-> c.uuid, judge |-> row[r].judge]
         ELSE row[r]]
  /\ Abort(c)
  /\ UNCHANGED <<rejudges, mongo, proc, ejudge, used>>

UpdRaises(c) ==
  /\ c.stage = "update"
  /\ Spend("faults", MaxFaults)
  /\ RetryOrAbort(c, "update", MaxUpdRetries)
  /\ UNCHANGED <<db, mongo, proc, ejudge>>

\* The worker is killed in a task of the chain, or the report is answered 4xx.
DropChain(c) ==
  /\ Spend("drops", MaxDrops)
  /\ Abort(c)
  /\ UNCHANGED <<db, mongo, proc, ejudge>>

-----------------------------------------------------------------------------
SubmitStep(p) ==
  \/ Enqueue(p)
  \/ SubmitStart(p)
  \/ \E u \in Uuids : JudgeAccepts(p, u)
  \/ SubmitAnswered(p)
  \/ SubmitRefused(p)
  \/ SubmitRaises(p)
  \/ SubmitErrorProtocol(p)
  \/ Drop(p)

RejudgeStep(r, g) ==
  \/ RejudgeOpen(r, g)
  \/ RejudgeFind(r, g)
  \/ RejudgeArchive(r, g)
  \/ RejudgeDelete(r, g)
  \/ RejudgeCommit(r, g)

JudgeStep(u) ==
  \/ JudgeReportsProgress(u)
  \/ \E v \in Verdicts : JudgeGivesVerdict(u, v) \/ JudgeReevaluates(u, v)

ChainStep(c) ==
  \/ CheckRun(c)
  \/ LoadGetRun(c)
  \/ LoadProtocol(c)
  \/ LoadRaises(c)
  \/ UpdRun(c)
  \/ UpdRaises(c)
  \/ DropChain(c)

Next ==
  \/ \E r \in Runs : PostSource(r) \/ PostCommit(r)
  \/ \E r \in Runs, g \in 1 .. MaxRejudges : RejudgeStep(r, g)
  \/ \E p \in Procs : SubmitStep(p)
  \/ \E u \in Uuids : JudgeStep(u)
  \/ \E c \in chains : ChainStep(c)

Spec == Init /\ [][Next]_vars

\* Handlers and workers keep running, and a judge finishes what it accepted;
\* nothing forces a request, a fault or a second judgement to happen.
Fairness ==
  /\ \A r \in Runs : WF_vars(PostCommit(r))
  /\ \A r \in Runs, g \in 1 .. MaxRejudges :
       WF_vars(RejudgeFind(r, g) \/ RejudgeArchive(r, g)
                 \/ RejudgeDelete(r, g) \/ RejudgeCommit(r, g))
  /\ \A p \in Procs :
       WF_vars(\/ Enqueue(p) \/ SubmitStart(p)
               \/ \E u \in Uuids : JudgeAccepts(p, u)
               \/ SubmitAnswered(p) \/ SubmitErrorProtocol(p))
  /\ \A u \in Uuids : WF_vars(\E v \in Verdicts : JudgeGivesVerdict(u, v))
  /\ WF_vars(\E c \in chains :
       CheckRun(c) \/ LoadGetRun(c) \/ LoadProtocol(c) \/ UpdRun(c))

LiveSpec == Spec /\ Fairness

-----------------------------------------------------------------------------
(***************************************************************************)
(* Types                                                                   *)
(***************************************************************************)

Statuses == NonTerminal \cup Final
Row      == [status : Statuses \cup {None}, uuid : Uuids \cup {None},
             judge : Judges \cup {None}]
Doc      == [src : Uuids \cup {None}, status : Statuses \cup {None}]
Pcs      == {"idle", "stored", "opened", "found", "archived", "moved", "committed",
             "queued", "sending", "answered", "erred", "done"}
Proc     == [pc : Pcs, tries : 0 .. MaxSubmitRetries, seen : Row, doc : Doc,
             judge : Judges \cup {None}, sent : Uuids \cup {None}]
Chain    == [uuid : Uuids, status : Verdicts \cup {Running},
             stage : {"check", "load", "fetch", "update"}, tries : Nat]
Ejudge   == [run : Runs \cup {None}, judge : Judges \cup {None},
             status : Statuses \cup {None}, given : SUBSET Verdicts]

\* Every variable has its type.
TypeOK ==
  /\ row \in [Runs -> Row]
  /\ rejudges \subseteq Procs
  /\ source \subseteq Runs
  /\ protocol \in [Runs -> Doc]
  /\ archive \subseteq [run : Runs, rejudge : 1 .. MaxRejudges, doc : Doc]
  /\ proc \in [Procs -> Proc]
  /\ chains \subseteq Chain
  /\ ejudge \in [Uuids -> Ejudge]
  /\ used \in [{"faults", "lost", "drops", "reevals"} -> Nat]

(***************************************************************************)
(* Safety                                                                  *)
(***************************************************************************)

SubmissionsOf(r) == {u \in Uuids : ejudge[u].run = r}
Pronounced(r)    == UNION {ejudge[u].given : u \in SubmissionsOf(r)}

InTask == {"queued", "sending", "answered", "erred"}

\* Commit and source come before the enqueue in TrustedSubmitApi.post: no
\* submit_task, however late or often retried, misses the row or the source.
TaskFindsRunAndSource ==
  \A p \in Procs : proc[p].pc \in InTask => Exists(p[1]) /\ p[1] \in source

\* Whatever retries, rejudges and late notifications do, the uuid of a row is a
\* submission made for that run, and a verdict in a row was pronounced on one.
VerdictIsGenuine ==
  \A r \in Runs :
    /\ row[r].uuid # None => row[r].uuid \in SubmissionsOf(r)
    /\ row[r].status \in Verdicts => row[r].status \in Pronounced(r)

\* load_protocol runs before upd_run and a rejudge copies before it deletes: a
\* run that shows a verdict has a protocol, or a rejudge archived one, or some
\* judge pronounced a verdict on it that comes without a report.
VerdictHasProtocol ==
  \A r \in Runs : row[r].status \in Verdicts =>
    \/ protocol[r] # NoDoc
    \/ \E a \in archive : a.run = r
    \/ Pronounced(r) \cap Reportless # {}

\* submit_task retries only when it saw no answer: the judges hold at most one
\* submission of a run per request, plus one per answer lost on the way back.
SubmissionsBounded ==
  \A r \in Runs :
    Cardinality(SubmissionsOf(r))
      <= Cardinality({p \in Procs : p[1] = r /\ proc[p].pc \notin {"idle", "stored"}})
         + used.lost

\* A final status gives way to a non-final one only when RunAPI.post commits a
\* rejudge: no late COMPILING / RUNNING notification reopens a judged run.
WithdrawnOnlyByRejudge ==
  [][\A r \in Runs :
       Terminal(row[r].status) /\ ~Terminal(row'[r].status)
         => \E p \in rejudges' \ rejudges : p[1] = r]_vars

\* The whole life cycle implements VerdictService.
Service == INSTANCE VerdictService WITH
  accepted   <- {r \in Runs : Exists(r)},
  pronounced <- [r \in Runs |-> Pronounced(r)],
  shown      <- [r \in Runs |-> IF Terminal(row[r].status) THEN row[r].status ELSE None]
ImplementsService == Service!Spec

(***************************************************************************)
(* Liveness                                                                *)
(***************************************************************************)

\* Lost answers and all, a run whose task is in the broker and whose problem
\* resolves to a judge gets a final status, through the retries of every task.
EventuallyJudged ==
  \A p \in Procs : Routes[p[1]] # {} =>
    (proc[p].pc = "queued" ~> Terminal(row[p[1]].status))

Settled(r) ==
  /\ Terminal(row[r].status)
  /\ row[r].status \notin Reportless => protocol[r].status = row[r].status

\* For good, until the next rejudge: the row shows a final status and the
\* protocol next to it is the one of that very status.
EventuallySettled ==
  \A p \in Procs : Routes[p[1]] # {} =>
    (proc[p].pc = "queued" ~>
       [](\/ Settled(p[1])
          \/ \E q \in Procs : q[1] = p[1] /\ q[2] > p[2] /\ proc[q].pc # "idle"))

(***************************************************************************)
(* Claims of the repository that the code does not keep                    *)
(***************************************************************************)

\* test_notify says of upd_run: "a terminal status may become another terminal one
\* only after the reset to IN_QUEUE (done by RunAPI.post)".  Here of the statuses that
\* judges give, so that only upd_run over upd_run breaks it, never the 520 of a
\* submit_task.
VerdictChangesOnlyAfterReset ==
  [][\A r \in Runs :
       row[r].status \in Verdicts /\ row'[r].status \in Verdicts
         => row'[r].status = row[r].status]_vars
=============================================================================
