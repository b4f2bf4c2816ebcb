------------------------- MODULE RunLifecycle_proofs -------------------------
(***************************************************************************)
(* What TLAPS proves of RunLifecycle, for every set of runs, judges,       *)
(* submissions and verdicts, and every bound.                              *)
(***************************************************************************)
EXTENDS RunLifecycle, FiniteSetTheorems, TLAPS

(***************************************************************************)
(* Type correctness.                                                       *)
(***************************************************************************)

\* Procs are the pairs of a run and a request number.
LEMMA ProcsOf ==
  ASSUME NEW r \in Runs, NEW g \in 0 .. MaxRejudges
  PROVE  <<r, g>> \in Procs
BY DEF Procs

\* A fresh process record is a process record.
LEMMA RequestType ==
  ASSUME NEW pc \in Pcs, NEW seen \in Row, NEW doc \in Doc
  PROVE  Request(pc, seen, doc) \in Proc
BY ConstantsAssumption DEF Request, Proc

\* The record of a submit task is a Proc.
LEMMA TaskType ==
  ASSUME NEW pc \in Pcs, NEW tries \in 0 .. MaxSubmitRetries, NEW seen \in Row,
         NEW judge \in Judges \cup {None}, NEW sent \in Uuids \cup {None}
  PROVE  Task(pc, tries, seen, judge, sent) \in Proc
BY DEF Task, Proc, NoDoc, Doc

\* A fresh request or task is a Proc.
LEMMA FreshType ==
  ASSUME NEW pc \in Pcs
  PROVE  Fresh(pc) \in Proc
<1>1. NoRow \in Row /\ NoDoc \in Doc
  BY DEF NoRow, NoDoc, Row, Doc
<1> QED
  BY <1>1, RequestType DEF Fresh

\* The initial state has the right types.
LEMMA TypeInit == Init => TypeOK
<1> SUFFICES ASSUME Init PROVE TypeOK
  OBVIOUS
<1> USE DEF Init
<1>1. row \in [Runs -> Row]
  BY DEF NoRow, Row
<1>2. protocol \in [Runs -> Doc]
  BY DEF NoDoc, Doc
<1>3. proc \in [Procs -> Proc]
  BY FreshType DEF Pcs
<1>4. ejudge \in [Uuids -> Ejudge]
  BY DEF NoEjudge, Ejudge
<1>5. used \in [{"faults", "lost", "drops", "reevals"} -> Nat]
  OBVIOUS
<1> QED
  BY <1>1, <1>2, <1>3, <1>4, <1>5 DEF TypeOK

\* Spending from a bound keeps the type of the counters.
LEMMA SpendType ==
  ASSUME used \in [{"faults", "lost", "drops", "reevals"} -> Nat],
         NEW kind \in {"faults", "lost", "drops", "reevals"}, NEW bound, Spend(kind, bound)
  PROVE  used' \in [{"faults", "lost", "drops", "reevals"} -> Nat]
BY DEF Spend

\* _add_info_from_ejudge writes a row of the right type.
LEMMA AddInfoType ==
  ASSUME TypeOK, NEW p \in Procs, NEW status \in {None, SubmitError},
         NEW uuid \in Uuids \cup {None}, AddInfo(p, status, uuid)
  PROVE  row' \in [Runs -> Row]
<1>1. p[1] \in Runs /\ proc[p].judge \in Judges \cup {None}
  BY DEF TypeOK, Procs, Proc
<1> QED
  BY <1>1 DEF TypeOK, AddInfo, Assign, Row, Statuses, Final

\* Replacing one record of proc keeps its type.
LEMMA ProcUpdateType ==
  ASSUME TypeOK, NEW p \in Procs, NEW rec \in Proc, proc' = [proc EXCEPT ![p] = rec]
  PROVE  proc' \in [Procs -> Proc]
BY DEF TypeOK

\* Moving a handler or task to another point keeps its type.
LEMMA GotoType ==
  ASSUME TypeOK, NEW p \in Procs, NEW pc \in Pcs, Goto(p, pc)
  PROVE  proc' \in [Procs -> Proc]
BY DEF TypeOK, Goto, Proc

\* Ending a handler or task keeps its type.
LEMMA FinishType ==
  ASSUME TypeOK, NEW p \in Procs, Finish(p)
  PROVE  proc' \in [Procs -> Proc]
BY ProcUpdateType, FreshType DEF Finish, Pcs

\* The two web handlers keep the types.
LEMMA TypeHandlers ==
  ASSUME TypeOK, NEW r \in Runs,
         \/ PostSource(r) \/ PostCommit(r)
         \/ \E g \in 1 .. MaxRejudges : RejudgeStep(r, g)
  PROVE  TypeOK'
<1> USE DEF db, mongo
<1>1. CASE PostSource(r)
  <2>1. proc' \in [Procs -> Proc]
    BY <1>1, ProcsOf, GotoType, ConstantsAssumption DEF PostSource, Pcs
  <2> QED  BY <1>1, <2>1 DEF PostSource, TypeOK
<1>2. CASE PostCommit(r)
  <2>1. proc' \in [Procs -> Proc]
    BY <1>2, ProcsOf, GotoType, ConstantsAssumption DEF PostCommit, Pcs
  <2>2. row' \in [Runs -> Row]
    BY <1>2 DEF PostCommit, TypeOK, Row, NoRow, Statuses, NonTerminal
  <2> QED  BY <1>2, <2>1, <2>2 DEF PostCommit, TypeOK
<1>3. CASE \E g \in 1 .. MaxRejudges : RejudgeStep(r, g)
  <2>0. PICK g \in 1 .. MaxRejudges : RejudgeStep(r, g)
    BY <1>3
  <2>p. <<r, g>> \in Procs
    BY ProcsOf, ConstantsAssumption
  <2>1. CASE RejudgeOpen(r, g)
    <3>1. Request("opened", row[r], NoDoc) \in Proc
      BY RequestType DEF TypeOK, Pcs, NoDoc, Doc
    <3>2. proc' \in [Procs -> Proc]
      BY <2>1, <2>p, <3>1, ProcUpdateType DEF RejudgeOpen
    <3> QED  BY <2>1, <3>2 DEF RejudgeOpen, TypeOK
  <2>2. CASE RejudgeFind(r, g)
    <3>1. \A pc \in Pcs : Request(pc, proc[<<r, g>>].seen, protocol[r]) \in Proc
      BY <2>p, RequestType DEF TypeOK, Proc
    <3>2. proc' \in [Procs -> Proc]
      BY <2>2, <2>p, <3>1, ProcUpdateType DEF RejudgeFind, Pcs
    <3> QED  BY <2>2, <3>2 DEF RejudgeFind, TypeOK
  <2>3. CASE RejudgeArchive(r, g)
    <3>1. proc' \in [Procs -> Proc]
      BY <2>3, <2>p, GotoType DEF RejudgeArchive, Pcs
    <3>2. proc[<<r, g>>].doc \in Doc
      BY <2>p DEF TypeOK, Proc
    <3> QED  BY <2>3, <3>1, <3>2 DEF RejudgeArchive, TypeOK
  <2>4. CASE RejudgeDelete(r, g)
    <3>1. proc' \in [Procs -> Proc]
      BY <2>4, <2>p, GotoType DEF RejudgeDelete, Pcs
    <3> QED  BY <2>4, <3>1 DEF RejudgeDelete, TypeOK, NoDoc, Doc
  <2>5. CASE RejudgeCommit(r, g)
    <3>1. proc' \in [Procs -> Proc]
      BY <2>5, <2>p, GotoType DEF RejudgeCommit, Pcs
    <3>2. row' \in [Runs -> Row]
      BY <2>5 DEF RejudgeCommit, Assign, TypeOK, Row, Statuses, NonTerminal
    <3> QED  BY <2>5, <2>p, <3>1, <3>2 DEF RejudgeCommit, TypeOK
  <2> QED  BY <2>0, <2>1, <2>2, <2>3, <2>4, <2>5 DEF RejudgeStep
<1> QED  BY <1>1, <1>2, <1>3

\* submit_task keeps the types, whatever it meets.
LEMMA TypeSubmit ==
  ASSUME TypeOK, NEW p \in Procs, SubmitStep(p)
  PROVE  TypeOK'
<1> USE DEF db, mongo
<1>r. p[1] \in Runs
  BY DEF Procs
<1>1. CASE Enqueue(p)
  <2>1. proc' \in [Procs -> Proc]
    BY <1>1, ProcUpdateType, FreshType DEF Enqueue, Pcs
  <2> QED  BY <1>1, <2>1 DEF Enqueue, TypeOK
<1>2. CASE SubmitStart(p)
  <2>1. proc' \in [Procs -> Proc]
    <3>1. CASE Finish(p)
      BY <3>1, FinishType
    <3>2. ASSUME NEW j \in Routes[p[1]],
                 proc' = [proc EXCEPT ![p] = Task("sending", @.tries, row[p[1]], j, None)]
          PROVE  proc' \in [Procs -> Proc]
      <4>1. Task("sending", proc[p].tries, row[p[1]], j, None) \in Proc
        BY <1>r, TaskType, ConstantsAssumption DEF TypeOK, Proc, Pcs
      <4> QED  BY <3>2, <4>1, ProcUpdateType
    <3> QED  BY <1>2, <3>1, <3>2 DEF SubmitStart
  <2> QED  BY <1>2, <2>1 DEF SubmitStart, TypeOK
<1>3. CASE \E u \in Uuids : JudgeAccepts(p, u)
  <2>0. PICK u \in Uuids : JudgeAccepts(p, u)
    BY <1>3
  <2>1. proc' \in [Procs -> Proc]
    <3>1. Task("answered", proc[p].tries, proc[p].seen, proc[p].judge, u) \in Proc
      BY TaskType DEF TypeOK, Proc, Pcs
    <3> QED  BY <2>0, <3>1, ProcUpdateType DEF JudgeAccepts
  <2>2. ejudge' \in [Uuids -> Ejudge]
    BY <2>0, <1>r DEF JudgeAccepts, TypeOK, Proc, Ejudge, Statuses, NonTerminal
  <2> QED  BY <2>0, <2>1, <2>2 DEF JudgeAccepts, TypeOK
<1>4. CASE SubmitAnswered(p)
  <2>1. proc[p].sent \in Uuids \cup {None}
    BY DEF TypeOK, Proc
  <2>2. row' \in [Runs -> Row] /\ proc' \in [Procs -> Proc]
    BY <1>4, <2>1, AddInfoType, FinishType DEF SubmitAnswered
  <2> QED  BY <1>4, <2>2 DEF SubmitAnswered, TypeOK
<1>f. ASSUME FailSubmit(p)
      PROVE  row' \in [Runs -> Row] /\ proc' \in [Procs -> Proc]
  BY <1>f, AddInfoType, GotoType DEF FailSubmit, Pcs
<1>5. CASE SubmitRefused(p)
  BY <1>5, <1>f DEF SubmitRefused, TypeOK
<1>6. CASE SubmitRaises(p)
  <2>1. used' \in [{"faults", "lost", "drops", "reevals"} -> Nat]
    BY <1>6, SpendType DEF SubmitRaises, TypeOK
  <2>2. row' \in [Runs -> Row] /\ proc' \in [Procs -> Proc]
    <3>1. CASE proc[p].tries < MaxSubmitRetries
      <4>1. proc[p].tries + 1 \in 0 .. MaxSubmitRetries /\ NoRow \in Row
        BY <3>1, ConstantsAssumption DEF TypeOK, Proc, NoRow, Row
      <4>2. Task("queued", proc[p].tries + 1, NoRow, None, None) \in Proc
        BY <4>1, TaskType DEF Pcs
      <4> QED  BY <1>6, <3>1, <4>2, ProcUpdateType DEF SubmitRaises, TypeOK
    <3>2. CASE ~(proc[p].tries < MaxSubmitRetries)
      BY <1>6, <1>f, <3>2 DEF SubmitRaises
    <3> QED  BY <3>1, <3>2
  <2> QED  BY <1>6, <2>1, <2>2 DEF SubmitRaises, TypeOK
<1>7. CASE SubmitErrorProtocol(p)
  <2>1. proc' \in [Procs -> Proc]
    BY <1>7, FinishType DEF SubmitErrorProtocol
  <2> QED  BY <1>7, <2>1, <1>r
           DEF SubmitErrorProtocol, TypeOK, ErrorDoc, Doc, Statuses, Final
<1>8. CASE Drop(p)
  BY <1>8, FinishType, SpendType DEF Drop, TypeOK
<1> QED
  BY <1>1, <1>2, <1>3, <1>4, <1>5, <1>6, <1>7, <1>8 DEF SubmitStep

\* The judges keep the types.
LEMMA TypeJudge ==
  ASSUME TypeOK, NEW u \in Uuids, JudgeStep(u)
  PROVE  TypeOK'
<1> USE DEF db, mongo
<1>1. CASE JudgeReportsProgress(u)
  <2>1. ejudge' \in [Uuids -> Ejudge]
    BY <1>1 DEF JudgeReportsProgress, TypeOK, Ejudge, Statuses, NonTerminal
  <2> QED  BY <1>1, <2>1 DEF JudgeReportsProgress, Notify, Message, TypeOK, Chain
<1>2. ASSUME NEW v \in Verdicts, GiveVerdict(u, v)
      PROVE  ejudge' \in [Uuids -> Ejudge] /\ chains' \subseteq Chain
  <2>1. ejudge' \in [Uuids -> Ejudge]
    BY <1>2 DEF GiveVerdict, TypeOK, Ejudge, Statuses, Final
  <2>2. chains' \subseteq Chain
    BY <1>2 DEF GiveVerdict, Notify, Message, TypeOK, Chain
  <2> QED  BY <2>1, <2>2
<1>3. ASSUME NEW v \in Verdicts, JudgeGivesVerdict(u, v)
      PROVE  TypeOK'
  BY <1>2, <1>3 DEF JudgeGivesVerdict, GiveVerdict, TypeOK
<1>4. ASSUME NEW v \in Verdicts, JudgeReevaluates(u, v)
      PROVE  TypeOK'
  BY <1>2, <1>4, SpendType DEF JudgeReevaluates, GiveVerdict, TypeOK
<1> QED
  BY <1>1, <1>3, <1>4 DEF JudgeStep

\* The notification tasks keep the types.
LEMMA TypeChain ==
  ASSUME TypeOK, NEW c \in chains, ChainStep(c)
  PROVE  TypeOK'
<1> USE DEF db, mongo
<1>c. c \in Chain
  BY DEF TypeOK
<1>a. ASSUME NEW s \in {"check", "load", "fetch", "update"}, NEW t \in Nat, Pass(c, s, t)
      PROVE  chains' \subseteq Chain
  BY <1>a, <1>c DEF Pass, Message, Chain, TypeOK
<1>b. ASSUME NEW s \in {"check", "load", "fetch", "update"}, NEW max \in Nat,
             RetryOrAbort(c, s, max)
      PROVE  chains' \subseteq Chain
  <2>1. c.tries + 1 \in Nat
    BY <1>c DEF Chain
  <2> QED  BY <1>a, <1>b, <2>1 DEF RetryOrAbort, Abort, TypeOK
<1>d. ASSUME Abort(c)
      PROVE  chains' \subseteq Chain
  BY <1>d DEF Abort, TypeOK
<1>1. CASE CheckRun(c)
  <2>1. chains' \subseteq Chain
    BY <1>1, <1>a, <1>b, ConstantsAssumption DEF CheckRun, Advance
  <2> QED  BY <1>1, <2>1 DEF CheckRun, TypeOK
<1>2. CASE LoadGetRun(c)
  <2>1. c.tries \in Nat
    BY <1>c DEF Chain
  <2> QED  BY <1>2, <2>1, <1>a, <1>d DEF LoadGetRun, TypeOK
<1>3. CASE LoadProtocol(c)
  <2>1. chains' \subseteq Chain
    BY <1>3, <1>a DEF LoadProtocol, Advance
  <2>2. [src |-> c.uuid, status |-> ejudge[c.uuid].status] \in Doc
    BY <1>c DEF TypeOK, Chain, Ejudge, Doc
  <2>3. protocol' \in [Runs -> Doc]
    BY <1>3, <2>2 DEF LoadProtocol, TypeOK
  <2> QED  BY <1>3, <2>1, <2>3 DEF LoadProtocol, TypeOK
<1>4. CASE LoadRaises(c)
  BY <1>4, <1>b, SpendType, ConstantsAssumption DEF LoadRaises, TypeOK
<1>5. CASE UpdRun(c)
  <2>1. row' \in [Runs -> Row]
    <3>1. c.status \in Statuses /\ c.uuid \in Uuids
      BY <1>c DEF Chain, Statuses, NonTerminal, Final
    <3>2. \A r \in Runs : [status |-> c.status, uuid |-> c.uuid, judge |-> row[r].judge] \in Row
      BY <3>1 DEF TypeOK, Row
    <3> QED  BY <1>5, <3>2 DEF UpdRun, TypeOK
  <2> QED  BY <1>5, <1>d, <2>1 DEF UpdRun, TypeOK
<1>6. CASE UpdRaises(c)
  BY <1>6, <1>b, SpendType, ConstantsAssumption DEF UpdRaises, TypeOK
<1>7. CASE DropChain(c)
  BY <1>7, <1>d, SpendType DEF DropChain, TypeOK
<1> QED
  BY <1>1, <1>2, <1>3, <1>4, <1>5, <1>6, <1>7 DEF ChainStep

\* TypeOK holds of every state of every behaviour: no handler or task ever puts
\* a value of the wrong kind into a row, a document, a message or a judge.
THEOREM TypeCorrect == Spec => []TypeOK
<1>1. TypeOK /\ [Next]_vars => TypeOK'
  <2> SUFFICES ASSUME TypeOK, [Next]_vars PROVE TypeOK'
    OBVIOUS
  <2>1. CASE Next
    BY <2>1, TypeHandlers, TypeSubmit, TypeJudge, TypeChain DEF Next
  <2>2. CASE UNCHANGED vars
    BY <2>2 DEF vars, TypeOK
  <2> QED  BY <2>1, <2>2
<1> QED
  BY TypeInit, <1>1, PTL DEF Spec

(***************************************************************************)
(* The inductive invariant.  It says how the places a run leaves traces in *)
(* agree: its row with its requests and tasks, the judge's records with    *)
(* the rows, tasks and messages that name them.                            *)
(***************************************************************************)

\* A row appears with the commit of the request that submitted the run, after
\* the source, and from then on stays.
RowInv ==
  \A r \in Runs :
    /\ ~Exists(r) => row[r] = NoRow
    /\ Exists(r) => r \in source /\ proc[<<r, 0>>].pc \notin {"idle", "stored"}

Unregistered == {"idle", "opened", "found", "archived", "moved"}

ProcInv ==
  \A p \in Procs :
    /\ proc[p].pc = "stored" => p[2] = 0 /\ p[1] \in source
    /\ proc[p].pc \notin {"idle", "stored", "done"} => Exists(p[1])
    /\ proc[p].pc \in Unregistered => p \notin rejudges
    /\ proc[p].sent # None => ejudge[proc[p].sent].run = p[1]

EjudgeInv ==
  \A u \in Uuids :
    \/ ejudge[u] = NoEjudge
    \/ ejudge[u].run \in Runs /\ Exists(ejudge[u].run)

\* A message carries a verdict its judge did pronounce.
ChainInv ==
  \A c \in chains :
    /\ ejudge[c.uuid].run # None
    /\ c.status \in Verdicts => c.status \in ejudge[c.uuid].given

IInv == TypeOK /\ RowInv /\ ProcInv /\ EjudgeInv /\ ChainInv /\ VerdictIsGenuine

\* The inductive invariant holds initially.
LEMMA IInvInit == Init => IInv
<1> SUFFICES ASSUME Init PROVE IInv
  OBVIOUS
<1>1. TypeOK
  BY TypeInit
<1>2. RowInv /\ ProcInv /\ EjudgeInv /\ ChainInv
  BY DEF Init, RowInv, ProcInv, EjudgeInv, ChainInv, Exists, NoRow, NoEjudge, Fresh,
         Request, Procs, Unregistered
<1>3. VerdictIsGenuine
  BY DistinctAssumption DEF Init, VerdictIsGenuine, NoRow
<1> QED
  BY <1>1, <1>2, <1>3 DEF IInv

\* What a step does to one request or task leaves the others alone.
LEMMA OneProc ==
  ASSUME TypeOK, NEW p \in Procs, NEW rec, proc' = [proc EXCEPT ![p] = rec]
  PROVE  /\ proc'[p] = rec
         /\ \A q \in Procs : q # p => proc'[q] = proc[q]
BY DEF TypeOK

\* Goto moves one handler or task and leaves the others alone.
LEMMA GotoProc ==
  ASSUME TypeOK, NEW p \in Procs, NEW pc, Goto(p, pc)
  PROVE  /\ proc'[p].pc = pc /\ proc'[p].sent = proc[p].sent
         /\ \A q \in Procs : q # p => proc'[q] = proc[q]
BY DEF TypeOK, Goto, Proc

\* Submitting a run keeps the inductive invariant.
LEMMA IInvHandlers ==
  ASSUME IInv, NEW r \in Runs, PostSource(r) \/ PostCommit(r)
  PROVE  IInv'
<1>t. TypeOK /\ TypeOK'
  BY TypeHandlers DEF IInv
<1>p. /\ <<r, 0>> \in Procs
      /\ \A q \in Runs : <<q, 0>> \in Procs /\ (q # r => <<q, 0>> # <<r, 0>>)
  BY ProcsOf, ConstantsAssumption
<1>1. CASE PostSource(r)
  <2>1. /\ proc'[<<r, 0>>].pc = "stored" /\ proc'[<<r, 0>>].sent = proc[<<r, 0>>].sent
        /\ \A q \in Procs : q # <<r, 0>> => proc'[q] = proc[q]
    BY <1>1, <1>t, <1>p, GotoProc DEF PostSource
  <2>2. /\ proc[<<r, 0>>].pc = "idle" /\ source' = source \cup {r}
        /\ UNCHANGED <<row, rejudges, chains, ejudge>>
    BY <1>1 DEF PostSource
  <2>3. RowInv'
    BY <2>1, <2>2, <1>p DEF IInv, RowInv, Exists
  <2>4. ProcInv'
    BY <2>1, <2>2, <1>t DEF IInv, ProcInv, Exists, Procs, Unregistered
  <2>5. EjudgeInv' /\ ChainInv' /\ VerdictIsGenuine'
    BY <2>2 DEF IInv, EjudgeInv, ChainInv, VerdictIsGenuine, Exists, SubmissionsOf, Pronounced
  <2> QED  BY <1>t, <2>3, <2>4, <2>5 DEF IInv
<1>2. CASE PostCommit(r)
  <2>1. /\ proc'[<<r, 0>>].pc = "committed" /\ proc'[<<r, 0>>].sent = proc[<<r, 0>>].sent
        /\ \A q \in Procs : q # <<r, 0>> => proc'[q] = proc[q]
    BY <1>2, <1>t, <1>p, GotoProc DEF PostCommit
  <2>2. /\ proc[<<r, 0>>].pc = "stored"
        /\ row' = [row EXCEPT ![r] = [NoRow EXCEPT !.status = InQueue]]
        /\ UNCHANGED <<source, rejudges, chains, ejudge>>
    BY <1>2 DEF PostCommit, mongo
  <2>3. /\ row'[r] = [NoRow EXCEPT !.status = InQueue]
        /\ \A q \in Runs : q # r => row'[q] = row[q]
    BY <2>2, <1>t DEF TypeOK
  <2>4. row'[r].status = InQueue /\ row'[r].uuid = None /\ Exists(r)'
    BY <2>3 DEF NoRow, Exists, InQueue, None
  <2>5. r \in source
    BY <2>2, <1>p DEF IInv, ProcInv
  <2>6. RowInv'
    BY <2>1, <2>2, <2>3, <2>4, <2>5, <1>p DEF IInv, RowInv, Exists
  <2>7. ProcInv'
    BY <2>1, <2>2, <2>3, <2>4, <2>5, <1>t, <1>p DEF IInv, ProcInv, Exists, Procs, Unregistered
  <2>8. EjudgeInv' /\ ChainInv'
    BY <2>2, <2>3, <2>4 DEF IInv, EjudgeInv, ChainInv, Exists
  <2>9. VerdictIsGenuine'
    BY <2>2, <2>3, <2>4, DistinctAssumption
       DEF IInv, VerdictIsGenuine, SubmissionsOf, Pronounced
  <2> QED  BY <1>t, <2>6, <2>7, <2>8, <2>9 DEF IInv
<1> QED  BY <1>1, <1>2

\* Once submitted, an ejudge record keeps its run, and its verdicts only add up.
EjudgeKept ==
  \A u \in Uuids :
    /\ ejudge[u].run # None => ejudge'[u].run = ejudge[u].run
    /\ ejudge[u].given \subseteq ejudge'[u].given

\* Rows that exist go on existing, and no other row appears.
RowsKept ==
  \A r \in Runs : (Exists(r)' <=> Exists(r)) /\ (~Exists(r) => row'[r] = row[r])

\* A request or task that moves on, past its first two states.
LEMMA ProcStep ==
  ASSUME IInv, TypeOK', RowsKept, EjudgeKept, NEW p \in Procs, UNCHANGED source,
         \A q \in Procs : q # p => proc'[q] = proc[q],
         proc'[p].pc \notin {"idle", "stored"},
         proc'[p].pc # "done" => Exists(p[1]),
         proc'[p].pc \in Unregistered => rejudges' = rejudges /\ p \notin rejudges,
         rejudges' \subseteq rejudges \cup {p},
         proc'[p].sent # None => ejudge'[proc'[p].sent].run = p[1]
  PROVE  RowInv' /\ ProcInv'
<1>1. RowInv'
  <2>1. \A r \in Runs : <<r, 0>> \in Procs
    BY ProcsOf, ConstantsAssumption
  <2> QED  BY <2>1 DEF IInv, RowInv, RowsKept
<1>2. \A q \in Procs : q[1] \in Runs
  BY DEF Procs
<1>3. \A q \in Procs : proc[q].sent \in Uuids \cup {None}
  BY DEF IInv, TypeOK, Proc
<1>4. \A q \in Procs : proc[q].sent # None => ejudge'[proc[q].sent].run = q[1]
  BY <1>2, <1>3, DistinctAssumption DEF IInv, ProcInv, EjudgeKept
<1>5. ProcInv'
  BY <1>2, <1>4 DEF IInv, ProcInv, RowsKept
<1> QED  BY <1>1, <1>5

\* A row gets new contents that its run's submissions account for.
LEMMA RowStep ==
  ASSUME IInv, NEW r \in Runs, Exists(r), UNCHANGED ejudge,
         NEW d, row' = [row EXCEPT ![r] = d], d.status # None,
         d.uuid # None => d.uuid \in SubmissionsOf(r),
         d.status \in Verdicts => d.status \in Pronounced(r)
  PROVE  RowsKept /\ EjudgeInv' /\ VerdictIsGenuine'
<1>1. row'[r] = d /\ \A q \in Runs : q # r => row'[q] = row[q]
  BY DEF IInv, TypeOK
<1>2. RowsKept
  BY <1>1 DEF RowsKept, Exists
<1>3. EjudgeInv'
  BY <1>2 DEF IInv, EjudgeInv, RowsKept
<1>4. VerdictIsGenuine'
  BY <1>1 DEF IInv, VerdictIsGenuine, SubmissionsOf, Pronounced
<1> QED  BY <1>2, <1>3, <1>4

\* A row that keeps its values keeps what the invariant says of it.
LEMMA UnchangedKept ==
  /\ UNCHANGED row => RowsKept
  /\ UNCHANGED ejudge => EjudgeKept
BY DEF RowsKept, EjudgeKept, Exists

\* The steps of a rejudge keep the inductive invariant.
LEMMA IInvRejudge ==
  ASSUME IInv, NEW r \in Runs, NEW g \in 1 .. MaxRejudges, RejudgeStep(r, g)
  PROVE  IInv'
<1>t. TypeOK /\ TypeOK'
  BY TypeHandlers DEF IInv
<1> DEFINE p == <<r, g>>
<1>p. p \in Procs /\ p[1] = r /\ p[2] # 0
  BY ProcsOf, ConstantsAssumption
<1>i. proc[p].pc \in Unregistered => p \notin rejudges
  BY <1>p DEF IInv, ProcInv
<1>e. proc[p].pc \in {"opened", "found", "archived", "moved"} => Exists(r)
  BY <1>p DEF IInv, ProcInv
<1>s. proc[p].sent # None => ejudge[proc[p].sent].run = r
  BY <1>p DEF IInv, ProcInv
<1> HIDE DEF p
<1>1. ASSUME UNCHANGED <<row, rejudges, chains, ejudge, source>>, Exists(r),
             \A q \in Procs : q # p => proc'[q] = proc[q],
             proc'[p].pc \in {"opened", "found", "archived", "moved"},
             proc'[p].sent \in {None, proc[p].sent}, proc[p].pc \in Unregistered
      PROVE  IInv'
  <2>1. RowsKept /\ EjudgeKept
    BY <1>1, UnchangedKept
  <2>2. RowInv' /\ ProcInv'
    BY <1>1, <1>t, <1>p, <1>i, <1>s, <2>1, ProcStep DEF Unregistered
  <2>3. EjudgeInv' /\ ChainInv' /\ VerdictIsGenuine'
    BY <1>1 DEF IInv, EjudgeInv, ChainInv, VerdictIsGenuine, Exists, SubmissionsOf, Pronounced
  <2> QED  BY <1>t, <2>2, <2>3 DEF IInv
<1>2. CASE RejudgeOpen(r, g)
  <2>1. proc'[p] = Request("opened", row[r], NoDoc) /\ \A q \in Procs : q # p => proc'[q] = proc[q]
    BY <1>2, <1>t, <1>p, OneProc DEF RejudgeOpen, p
  <2> QED  BY <1>1, <1>2, <2>1 DEF RejudgeOpen, Request, Unregistered, db, mongo, p
<1>3. CASE RejudgeFind(r, g)
  <2>1. PICK pc \in {"moved", "found"} : proc' = [proc EXCEPT ![p] = Request(pc, @.seen, protocol[r])]
    BY <1>3 DEF RejudgeFind, p
  <2>2. proc'[p] = Request(pc, proc[p].seen, protocol[r]) /\ \A q \in Procs : q # p => proc'[q] = proc[q]
    BY <2>1, <1>t, <1>p, OneProc
  <2> QED  BY <1>1, <1>3, <1>e, <2>2 DEF RejudgeFind, Request, Unregistered, db, mongo, p
<1>4. CASE RejudgeArchive(r, g)
  <2>1. /\ proc'[p].pc = "archived" /\ proc'[p].sent = proc[p].sent
        /\ \A q \in Procs : q # p => proc'[q] = proc[q]
    BY <1>4, <1>t, <1>p, GotoProc DEF RejudgeArchive, p
  <2> QED  BY <1>1, <1>4, <1>e, <2>1 DEF RejudgeArchive, Unregistered, db, p
<1>5. CASE RejudgeDelete(r, g)
  <2>1. /\ proc'[p].pc = "moved" /\ proc'[p].sent = proc[p].sent
        /\ \A q \in Procs : q # p => proc'[q] = proc[q]
    BY <1>5, <1>t, <1>p, GotoProc DEF RejudgeDelete, p
  <2> QED  BY <1>1, <1>5, <1>e, <2>1 DEF RejudgeDelete, Unregistered, db, p
<1>6. CASE RejudgeCommit(r, g)
  <2>1. /\ proc'[p].pc = "committed" /\ proc'[p].sent = proc[p].sent
        /\ \A q \in Procs : q # p => proc'[q] = proc[q]
    BY <1>6, <1>t, <1>p, GotoProc DEF RejudgeCommit, p
  <2>2. /\ proc[p].pc = "moved" /\ rejudges' = rejudges \cup {p}
        /\ row' = [row EXCEPT ![r].status = Assign(@, proc[p].seen.status, InQueue)]
        /\ UNCHANGED <<source, chains, ejudge>>
    BY <1>6 DEF RejudgeCommit, mongo, p
  <2> DEFINE d == [row[r] EXCEPT !.status = Assign(@, proc[p].seen.status, InQueue)]
  <2>3. row' = [row EXCEPT ![r] = d]
    BY <2>2
  <2>4. d.uuid = row[r].uuid /\ (d.status = row[r].status \/ d.status = InQueue)
    BY <1>t DEF TypeOK, Row, Assign
  <2> HIDE DEF d
  <2>5. Exists(r)
    BY <1>e, <2>2
  <2>6. d.status # None /\ (d.uuid # None => d.uuid \in SubmissionsOf(r))
        /\ (d.status \in Verdicts => d.status \in Pronounced(r))
    BY <2>4, <2>5, DistinctAssumption DEF IInv, VerdictIsGenuine, Exists, InQueue, None
  <2>7. RowsKept /\ EjudgeInv' /\ VerdictIsGenuine'
    BY <2>2, <2>3, <2>5, <2>6, RowStep
  <2>8. EjudgeKept
    BY <2>2, UnchangedKept
  <2>9. RowInv' /\ ProcInv'
    BY <1>t, <1>p, <1>s, <2>1, <2>2, <2>5, <2>7, <2>8, ProcStep DEF Unregistered
  <2>10. ChainInv'
    BY <2>2 DEF IInv, ChainInv
  <2> QED  BY <1>t, <2>7, <2>9, <2>10 DEF IInv
<1> QED  BY <1>2, <1>3, <1>4, <1>5, <1>6 DEF RejudgeStep

\* The steps of submit_task keep the inductive invariant.
LEMMA IInvSubmit ==
  ASSUME IInv, NEW p \in Procs, SubmitStep(p)
  PROVE  IInv'
<1>t. TypeOK /\ TypeOK'
  BY TypeSubmit DEF IInv
<1>p. p[1] \in Runs
  BY DEF Procs
<1>e. proc[p].pc \notin {"idle", "stored", "done"} => Exists(p[1])
  BY DEF IInv, ProcInv
<1>s. /\ proc[p].sent \in Uuids \cup {None}
      /\ proc[p].sent # None => ejudge[proc[p].sent].run = p[1]
  BY DEF IInv, ProcInv, TypeOK, Proc
\* The steps that leave rows and judges alone.
<1>1. ASSUME UNCHANGED <<row, rejudges, chains, ejudge, source>>,
             \A q \in Procs : q # p => proc'[q] = proc[q],
             proc'[p].pc \in {"queued", "sending", "done"}, proc'[p].sent = None,
             proc'[p].pc # "done" => Exists(p[1])
      PROVE  IInv'
  <2>1. RowsKept /\ EjudgeKept
    BY <1>1, UnchangedKept
  <2>2. RowInv' /\ ProcInv'
    BY <1>1, <1>t, <2>1, ProcStep DEF Unregistered
  <2>3. EjudgeInv' /\ ChainInv' /\ VerdictIsGenuine'
    BY <1>1 DEF IInv, EjudgeInv, ChainInv, VerdictIsGenuine, Exists, SubmissionsOf, Pronounced
  <2> QED  BY <1>t, <2>2, <2>3 DEF IInv
\* The steps that write the row: AddInfo, and a new state of the task.
<1>2. ASSUME NEW status \in {None, SubmitError}, NEW uuid \in {None, proc[p].sent},
             AddInfo(p, status, uuid), Exists(p[1]),
             UNCHANGED <<rejudges, chains, ejudge, source>>,
             \A q \in Procs : q # p => proc'[q] = proc[q],
             proc'[p].pc \in {"erred", "done"}, proc'[p].sent \in {None, proc[p].sent}
      PROVE  IInv'
  <2> DEFINE seen == proc[p].seen
             old  == row[p[1]]
             d == [status |-> IF status = None THEN old.status
                              ELSE Assign(old.status, seen.status, status),
                   uuid   |-> Assign(old.uuid, seen.uuid, uuid),
                   judge  |-> Assign(old.judge, seen.judge, proc[p].judge)]
  <2>1. row' = [row EXCEPT ![p[1]] = d]
    BY <1>2 DEF AddInfo
  <2>2. /\ d.status = old.status \/ d.status = SubmitError
        /\ d.uuid \in {old.uuid, None, proc[p].sent}
    BY DEF Assign
  <2> HIDE DEF d
  <2>3. /\ d.status # None
        /\ d.uuid # None => d.uuid \in SubmissionsOf(p[1])
        /\ d.status \in Verdicts => d.status \in Pronounced(p[1])
    BY <1>2, <1>p, <1>s, <2>2, DistinctAssumption
       DEF IInv, VerdictIsGenuine, Exists, SubmitError, None, SubmissionsOf
  <2>4. RowsKept /\ EjudgeInv' /\ VerdictIsGenuine'
    BY <1>2, <1>p, <2>1, <2>3, RowStep
  <2>5. RowInv' /\ ProcInv'
    BY <1>2, <1>t, <1>s, <2>4, UnchangedKept, ProcStep DEF Unregistered
  <2>6. ChainInv'
    BY <1>2 DEF IInv, ChainInv
  <2> QED  BY <1>t, <2>4, <2>5, <2>6 DEF IInv
<1>f. ASSUME Finish(p)
      PROVE  /\ proc'[p].pc = "done" /\ proc'[p].sent = None
             /\ \A q \in Procs : q # p => proc'[q] = proc[q]
  <2>1. proc'[p] = Fresh("done") /\ \A q \in Procs : q # p => proc'[q] = proc[q]
    BY <1>f, <1>t, OneProc DEF Finish
  <2> QED  BY <2>1 DEF Fresh, Request
<1>g. ASSUME FailSubmit(p)
      PROVE  /\ AddInfo(p, SubmitError, None)
             /\ proc'[p].pc = "erred" /\ proc'[p].sent = proc[p].sent
             /\ \A q \in Procs : q # p => proc'[q] = proc[q]
  BY <1>g, <1>t, GotoProc DEF FailSubmit
<1>3. CASE Enqueue(p)
  <2>1. proc'[p] = Fresh("queued") /\ \A q \in Procs : q # p => proc'[q] = proc[q]
    BY <1>3, <1>t, OneProc DEF Enqueue
  <2> QED  BY <1>1, <1>3, <1>e, <2>1 DEF Enqueue, Fresh, Request, db, mongo
<1>4. CASE SubmitStart(p)
  <2>1. CASE Finish(p)
    BY <1>1, <1>4, <1>f, <2>1 DEF SubmitStart, db, mongo
  <2>2. ASSUME NEW j, proc' = [proc EXCEPT ![p] = Task("sending", @.tries, row[p[1]], j, None)]
        PROVE  IInv'
    <3>1. /\ proc'[p] = Task("sending", proc[p].tries, row[p[1]], j, None)
          /\ \A q \in Procs : q # p => proc'[q] = proc[q]
      BY <2>2, <1>t, OneProc
    <3> QED  BY <1>1, <1>4, <1>e, <3>1 DEF SubmitStart, Task, db, mongo
  <2> QED  BY <1>4, <2>1, <2>2 DEF SubmitStart
<1>5. CASE \E u \in Uuids : JudgeAccepts(p, u)
  <2>0. PICK u \in Uuids : JudgeAccepts(p, u)
    BY <1>5
  <2>1. /\ proc'[p] = Task("answered", proc[p].tries, proc[p].seen, proc[p].judge, u)
        /\ \A q \in Procs : q # p => proc'[q] = proc[q]
    BY <2>0, <1>t, OneProc DEF JudgeAccepts
  <2>2. /\ proc[p].pc = "sending" /\ ejudge[u] = NoEjudge
        /\ UNCHANGED <<row, rejudges, source, chains>>
    BY <2>0 DEF JudgeAccepts, Unused, db, mongo
  <2>3. /\ ejudge'[u] = [run |-> p[1], judge |-> proc[p].judge, status |-> InQueue, given |-> {}]
        /\ \A w \in Uuids : w # u => ejudge'[w] = ejudge[w]
    BY <2>0, <1>t DEF JudgeAccepts, TypeOK
  <2>4. EjudgeKept /\ RowsKept
    BY <2>2, <2>3, UnchangedKept DEF EjudgeKept, NoEjudge
  <2>5. RowInv' /\ ProcInv'
    BY <1>t, <1>e, <2>1, <2>2, <2>3, <2>4, ProcStep DEF Unregistered, Task
  <2>6. EjudgeInv'
    BY <1>p, <1>e, <2>2, <2>3 DEF IInv, EjudgeInv, Exists
  <2>7. ChainInv'
    BY <1>t, <2>2, <2>3 DEF IInv, ChainInv, TypeOK, Chain, NoEjudge
  <2>8. \A r \in Runs : SubmissionsOf(r) \subseteq SubmissionsOf(r)'
                        /\ Pronounced(r) \subseteq Pronounced(r)'
    BY <2>2, <2>3, DistinctAssumption DEF SubmissionsOf, Pronounced, NoEjudge
  <2>9. VerdictIsGenuine'
    BY <2>2, <2>8 DEF IInv, VerdictIsGenuine
  <2> QED  BY <1>t, <2>5, <2>6, <2>7, <2>9 DEF IInv
<1>6. CASE SubmitAnswered(p)
  BY <1>2, <1>6, <1>e, <1>f DEF SubmitAnswered, mongo
<1>7. CASE SubmitRefused(p)
  BY <1>2, <1>7, <1>e, <1>g DEF SubmitRefused, mongo
<1>8. CASE SubmitRaises(p)
  <2>1. proc[p].pc \in {"sending", "answered"} /\ UNCHANGED <<rejudges, source, chains, ejudge>>
    BY <1>8 DEF SubmitRaises, mongo
  <2>2. CASE proc[p].tries < MaxSubmitRetries
    <3>1. proc' = [proc EXCEPT ![p] = Task("queued", @.tries + 1, NoRow, None, None)] /\ row' = row
      BY <1>8, <2>2 DEF SubmitRaises
    <3>2. /\ proc'[p] = Task("queued", proc[p].tries + 1, NoRow, None, None)
          /\ \A q \in Procs : q # p => proc'[q] = proc[q]
      BY <3>1, <1>t, OneProc
    <3> QED  BY <1>1, <1>e, <2>1, <3>1, <3>2 DEF Task
  <2>3. CASE ~(proc[p].tries < MaxSubmitRetries)
    <3>1. FailSubmit(p)
      BY <1>8, <2>3 DEF SubmitRaises
    <3> QED  BY <1>2, <1>e, <1>g, <2>1, <3>1
  <2> QED  BY <2>2, <2>3
<1>9. CASE SubmitErrorProtocol(p)
  BY <1>1, <1>9, <1>f DEF SubmitErrorProtocol, db
<1>10. CASE Drop(p)
  BY <1>1, <1>10, <1>f DEF Drop, db, mongo
<1> QED
  BY <1>3, <1>4, <1>5, <1>6, <1>7, <1>8, <1>9, <1>10 DEF SubmitStep

\* The steps of the judges keep the inductive invariant.
LEMMA IInvJudge ==
  ASSUME IInv, NEW u \in Uuids, JudgeStep(u)
  PROVE  IInv'
<1>t. TypeOK /\ TypeOK'
  BY TypeJudge DEF IInv
<1> DEFINE About(c) == c.uuid = u /\ (c.status \in Verdicts => c.status \in ejudge'[u].given)
<1>1. /\ UNCHANGED <<row, rejudges, source, proc>>
      /\ \A w \in Uuids : w # u => ejudge'[w] = ejudge[w]
      /\ ejudge[u].status # None
  BY <1>t, DistinctAssumption
     DEF JudgeStep, JudgeReportsProgress, JudgeGivesVerdict, JudgeReevaluates, GiveVerdict,
         db, mongo, TypeOK, NonTerminal, InQueue, Running, None
<1>2. /\ ejudge'[u].run = ejudge[u].run /\ ejudge[u].given \subseteq ejudge'[u].given
      /\ \A c \in chains' : c \in chains \/ About(c)
  <2>1. ASSUME NEW status, Notify(u, status),
               status \in Verdicts => status \in ejudge'[u].given
        PROVE  \A c \in chains' : c \in chains \/ About(c)
    BY <2>1 DEF Notify, Message, About
  <2>2. CASE JudgeReportsProgress(u)
    <3>1. ejudge' = [ejudge EXCEPT ![u].status = Running] /\ Notify(u, Running)
      BY <2>2 DEF JudgeReportsProgress
    <3>2. ejudge'[u].run = ejudge[u].run /\ ejudge'[u].given = ejudge[u].given
      BY <3>1, <1>t DEF TypeOK, Ejudge
    <3>3. Running \notin Verdicts
      BY DistinctAssumption
    <3> QED  BY <2>1, <3>1, <3>2, <3>3
  <2>3. ASSUME NEW v \in Verdicts, GiveVerdict(u, v)
        PROVE  /\ ejudge'[u].run = ejudge[u].run /\ ejudge[u].given \subseteq ejudge'[u].given
               /\ \A c \in chains' : c \in chains \/ About(c)
    <3>1. ejudge'[u] = [run |-> ejudge[u].run, judge |-> ejudge[u].judge, status |-> v,
                        given |-> ejudge[u].given \cup {v}]
      BY <2>3, <1>t DEF GiveVerdict, TypeOK
    <3>2. ejudge'[u].run = ejudge[u].run /\ ejudge'[u].given = ejudge[u].given \cup {v}
      BY <3>1
    <3>3. Notify(u, v)
      BY <2>3 DEF GiveVerdict
    <3> QED  BY <2>1, <3>2, <3>3
  <2> QED  BY <2>2, <2>3 DEF JudgeStep, JudgeGivesVerdict, JudgeReevaluates
<1>3. ejudge[u].run \in Runs /\ Exists(ejudge[u].run)
  BY <1>1 DEF IInv, EjudgeInv, NoEjudge
<1>4. RowInv' /\ ProcInv'
  <2>1. \A q \in Procs : proc[q].sent \in Uuids \cup {None}
    BY <1>t DEF TypeOK, Proc
  <2> QED  BY <1>1, <1>2, <2>1 DEF IInv, RowInv, ProcInv, Exists
<1>5. EjudgeInv'
  BY <1>1, <1>2, <1>3 DEF IInv, EjudgeInv, Exists
<1>6. ChainInv'
  <2>1. \A c \in chains : c.uuid \in Uuids
    BY <1>t DEF TypeOK, Chain
  <2>2. ejudge'[u].run # None
    BY <1>2, <1>3, DistinctAssumption
  <2> QED  BY <1>1, <1>2, <2>1, <2>2 DEF IInv, ChainInv
<1>7. \A r \in Runs : SubmissionsOf(r) = SubmissionsOf(r)' /\ Pronounced(r) \subseteq Pronounced(r)'
  BY <1>1, <1>2 DEF SubmissionsOf, Pronounced
<1>8. VerdictIsGenuine'
  BY <1>1, <1>7 DEF IInv, VerdictIsGenuine
<1> QED  BY <1>t, <1>4, <1>5, <1>6, <1>8 DEF IInv

\* A notification is about the run its submission was made for, whether it is
\* looked up by run id or by uuid and judge.
LEMMA TargetsAreOwn ==
  ASSUME IInv, NEW c \in chains, NEW r \in Targets(c)
  PROVE  r \in Runs /\ r = ejudge[c.uuid].run /\ Exists(r)
<1>1. c.uuid \in Uuids /\ c.uuid # None
  BY DistinctAssumption DEF IInv, TypeOK, Chain
<1>2. CASE ExtUser
  BY <1>2 DEF Targets
<1>3. CASE ~ExtUser
  <2>1. r \in Runs /\ row[r].uuid = c.uuid
    BY <1>3 DEF Targets
  <2>2. c.uuid \in SubmissionsOf(r)
    BY <1>1, <2>1 DEF IInv, VerdictIsGenuine
  <2>3. r = ejudge[c.uuid].run
    BY <2>2 DEF SubmissionsOf
  <2>4. NoRow.uuid = None
    BY DEF NoRow
  <2>5. Exists(r)
    BY <1>1, <2>1, <2>4 DEF IInv, RowInv
  <2> QED  BY <2>1, <2>3, <2>5
<1> QED  BY <1>2, <1>3

\* The steps of the notification tasks keep the inductive invariant.
LEMMA IInvChain ==
  ASSUME IInv, NEW c \in chains, ChainStep(c)
  PROVE  IInv'
<1>t. TypeOK /\ TypeOK'
  BY TypeChain DEF IInv
<1>c. c \in Chain /\ c.uuid \in Uuids
  BY <1>t DEF TypeOK, Chain
<1>1. UNCHANGED <<rejudges, source, proc, ejudge>>
  BY DEF ChainStep, CheckRun, LoadGetRun, LoadProtocol, LoadRaises, UpdRun, UpdRaises,
         DropChain, db, mongo
<1>2. \A d \in chains' : d \in chains \/ (d.uuid = c.uuid /\ d.status = c.status)
  BY DEF ChainStep, CheckRun, LoadGetRun, LoadProtocol, LoadRaises, UpdRun, UpdRaises,
         DropChain, RetryOrAbort, Advance, Pass, Abort, Message
<1>3. ChainInv'
  BY <1>1, <1>2 DEF IInv, ChainInv
<1>4. CASE UNCHANGED row
  BY <1>t, <1>1, <1>3, <1>4
     DEF IInv, RowInv, ProcInv, EjudgeInv, VerdictIsGenuine, Exists, SubmissionsOf, Pronounced
<1>5. CASE UpdRun(c)
  <2>1. \A r \in Runs : row'[r] = IF r \in Updated(c)
          THEN [status |-> c.status, uuid |-> c.uuid, judge |-> row[r].judge] ELSE row[r]
    BY <1>5 DEF UpdRun
  <2>u. \A r \in Runs : r \in Updated(c) => row'[r].status = c.status /\ row'[r].uuid = c.uuid
    <3> SUFFICES ASSUME NEW r \in Runs, r \in Updated(c)
                 PROVE  row'[r].status = c.status /\ row'[r].uuid = c.uuid
      OBVIOUS
    <3>1. row'[r] = [status |-> c.status, uuid |-> c.uuid, judge |-> row[r].judge]
      BY <2>1
    <3> QED  BY <3>1
  <2>2. \A r \in Updated(c) : r \in Runs /\ r = ejudge[c.uuid].run /\ Exists(r)
    BY TargetsAreOwn DEF Updated
  <2>3. c.status # None /\ c.uuid # None
    BY <1>c, DistinctAssumption DEF Chain, Running, None
  <2>4. RowsKept
    <3> SUFFICES ASSUME NEW r \in Runs
                 PROVE  (Exists(r)' <=> Exists(r)) /\ (~Exists(r) => row'[r] = row[r])
      BY DEF RowsKept
    <3>1. CASE r \in Updated(c)
      <4>1. row'[r].status = c.status
        BY <2>u, <3>1
      <4> QED  BY <2>2, <2>3, <3>1, <4>1 DEF Exists
    <3>2. CASE r \notin Updated(c)
      BY <2>1, <3>2 DEF Exists
    <3> QED  BY <3>1, <3>2
  <2>5. RowInv' /\ ProcInv' /\ EjudgeInv'
    <3>1. RowInv'
      BY <1>1, <2>4 DEF IInv, RowInv, RowsKept
    <3>2. ProcInv'
      <4>1. \A q \in Procs : q[1] \in Runs
        BY DEF Procs
      <4> QED  BY <1>1, <2>4, <4>1 DEF IInv, ProcInv, RowsKept
    <3>3. EjudgeInv'
      BY <1>1, <2>4 DEF IInv, EjudgeInv, RowsKept
    <3> QED  BY <3>1, <3>2, <3>3
  <2>6. c.status \in Verdicts => c.status \in ejudge[c.uuid].given
    BY DEF IInv, ChainInv
  <2>7. VerdictIsGenuine'
    <3>1. \A r \in Runs : SubmissionsOf(r)' = SubmissionsOf(r) /\ Pronounced(r)' = Pronounced(r)
      BY <1>1 DEF SubmissionsOf, Pronounced
    <3> SUFFICES ASSUME NEW r \in Runs
                 PROVE  /\ row'[r].uuid # None => row'[r].uuid \in SubmissionsOf(r)
                        /\ row'[r].status \in Verdicts => row'[r].status \in Pronounced(r)
      BY <3>1 DEF VerdictIsGenuine
    <3>2. CASE r \in Updated(c)
      <4>1. row'[r].status = c.status /\ row'[r].uuid = c.uuid
        BY <2>u, <3>2
      <4>2. c.uuid \in SubmissionsOf(r)
        BY <1>c, <2>2, <3>2 DEF SubmissionsOf
      <4> QED  BY <2>6, <4>1, <4>2 DEF Pronounced
    <3>3. CASE r \notin Updated(c)
      BY <2>1, <3>3 DEF IInv, VerdictIsGenuine
    <3> QED  BY <3>2, <3>3
  <2> QED  BY <1>t, <1>3, <2>5, <2>7 DEF IInv
<1> QED
  BY <1>4, <1>5 DEF ChainStep, CheckRun, LoadGetRun, LoadProtocol, LoadRaises, UpdRaises,
                    DropChain, db

\* IInv, the inductive invariant, holds in every state: tasks, chains and the
\* judges' submissions agree with the rows about which run they belong to.
THEOREM Invariance == Spec => []IInv
<1>1. IInv /\ [Next]_vars => IInv'
  <2> SUFFICES ASSUME IInv, [Next]_vars PROVE IInv'
    OBVIOUS
  <2>1. CASE Next
    BY <2>1, IInvHandlers, IInvRejudge, IInvSubmit, IInvJudge, IInvChain DEF Next
  <2>2. CASE UNCHANGED vars
    BY <2>2 DEF vars, IInv, TypeOK, RowInv, ProcInv, EjudgeInv, ChainInv, VerdictIsGenuine,
                Exists, SubmissionsOf, Pronounced
  <2> QED  BY <2>1, <2>2
<1> QED
  BY IInvInit, <1>1, PTL DEF Spec

(***************************************************************************)
(* What follows from it.                                                   *)
(***************************************************************************)

\* No submit_task of TrustedSubmitApi.post or RunAPI.post ever starts, waits for
\* an answer or stores an error for a run whose row or source is not there.
THEOREM TasksFindTheirRun == Spec => []TaskFindsRunAndSource
<1>1. IInv => TaskFindsRunAndSource
  <2> SUFFICES ASSUME IInv, NEW p \in Procs, proc[p].pc \in InTask
               PROVE  Exists(p[1]) /\ p[1] \in source
    BY DEF TaskFindsRunAndSource
  <2>1. p[1] \in Runs
    BY DEF Procs
  <2>2. Exists(p[1])
    BY DEF IInv, ProcInv, InTask
  <2> QED  BY <2>1, <2>2 DEF IInv, RowInv
<1> QED
  BY Invariance, <1>1, PTL

\* Whatever submit_task, check_run, load_protocol and upd_run retry or reorder,
\* a run never shows a verdict, or the uuid of a submission, of another run.
THEOREM VerdictsAreGenuine == Spec => []VerdictIsGenuine
<1>1. IInv => VerdictIsGenuine
  BY DEF IInv
<1> QED
  BY Invariance, <1>1, PTL

\* Each step of the life cycle either leaves the status of a run alone, or
\* creates it, or is one of the three kinds of writes named here.
LEMMA StatusStep ==
  ASSUME IInv, Next, NEW r \in Runs
  PROVE  \/ row'[r].status = row[r].status
         \/ ~Exists(r) /\ PostCommit(r)
         \/ row'[r].status = SubmitError
         \/ \E g \in 1 .. MaxRejudges : RejudgeCommit(r, g)
         \/ \E c \in chains : r \in Updated(c) /\ UpdRun(c)
<1>t. TypeOK
  BY DEF IInv
<1>1. ASSUME NEW q \in Runs, PostSource(q) \/ PostCommit(q)
      PROVE  row'[r].status = row[r].status \/ (~Exists(r) /\ PostCommit(r))
  <2>1. CASE PostSource(q)
    BY <2>1 DEF PostSource
  <2>2. CASE PostCommit(q)
    <3>1. q # r => row'[r] = row[r]
      BY <1>t, <2>2 DEF PostCommit, TypeOK
    <3>2. proc[<<q, 0>>].pc = "stored"
      BY <2>2 DEF PostCommit
    <3> QED  BY <2>2, <3>1, <3>2 DEF IInv, RowInv
  <2> QED  BY <1>1, <2>1, <2>2
<1>2. ASSUME NEW q \in Runs, NEW g \in 1 .. MaxRejudges, RejudgeStep(q, g)
      PROVE  row'[r].status = row[r].status \/ RejudgeCommit(r, g)
  <2>1. CASE RejudgeCommit(q, g)
    BY <1>t, <2>1 DEF RejudgeCommit, TypeOK
  <2>2. CASE ~RejudgeCommit(q, g)
    BY <1>2, <2>2 DEF RejudgeStep, RejudgeOpen, RejudgeFind, RejudgeArchive, RejudgeDelete, db
  <2> QED  BY <2>1, <2>2
<1>3. ASSUME NEW p \in Procs, SubmitStep(p)
      PROVE  row'[r].status = row[r].status \/ row'[r].status = SubmitError
  <2>1. ASSUME NEW s \in {None, SubmitError}, NEW u, AddInfo(p, s, u)
        PROVE  row'[r].status = row[r].status \/ row'[r].status = SubmitError
    <3>1. p[1] # r => row'[r] = row[r]
      BY <1>t, <2>1 DEF AddInfo, TypeOK
    <3>2. p[1] = r => row'[r].status = IF s = None THEN row[r].status
                                       ELSE Assign(row[r].status, proc[p].seen.status, s)
      BY <1>t, <2>1 DEF AddInfo, TypeOK
    <3> QED  BY <3>1, <3>2 DEF Assign
  <2>2. CASE UNCHANGED row
    BY <2>2
  <2> QED
    BY <1>3, <2>1, <2>2 DEF SubmitStep, Enqueue, SubmitStart, JudgeAccepts, SubmitAnswered,
       SubmitRefused, SubmitRaises, FailSubmit, SubmitErrorProtocol, Drop, db
<1>4. ASSUME NEW u \in Uuids, JudgeStep(u)
      PROVE  row' = row
  BY <1>4 DEF JudgeStep, JudgeReportsProgress, JudgeGivesVerdict, JudgeReevaluates,
              GiveVerdict, db
<1>5. ASSUME NEW c \in chains, ChainStep(c)
      PROVE  row'[r] = row[r] \/ (r \in Updated(c) /\ UpdRun(c))
  <2>1. CASE UpdRun(c)
    BY <2>1 DEF UpdRun
  <2>2. CASE UNCHANGED row
    BY <2>2
  <2> QED
    BY <1>5, <2>1, <2>2 DEF ChainStep, CheckRun, LoadGetRun, LoadProtocol, LoadRaises,
       UpdRaises, DropChain, db
<1> QED
  BY <1>1, <1>2, <1>3, <1>4, <1>5 DEF Next

\* No notification, however late, and no retry takes a final status back: only
\* RunAPI.post does, in the transaction that registers the rejudge.
THEOREM OnlyRejudgeWithdraws == Spec => WithdrawnOnlyByRejudge
<1> DEFINE A == \A r \in Runs :
                  Terminal(row[r].status) /\ ~Terminal(row'[r].status)
                    => \E p \in rejudges' \ rejudges : p[1] = r
<1>1. ASSUME IInv, Next PROVE A
  <2> SUFFICES ASSUME NEW r \in Runs, Terminal(row[r].status), ~Terminal(row'[r].status)
               PROVE  \E p \in rejudges' \ rejudges : p[1] = r
    OBVIOUS
  <2>1. Exists(r)
    BY DistinctAssumption DEF Exists, Terminal, Final, None, SubmitError
  <2>2. ASSUME NEW c \in chains, r \in Updated(c), UpdRun(c) PROVE FALSE
    <3>1. row'[r] = [status |-> c.status, uuid |-> c.uuid, judge |-> row[r].judge]
      BY <2>2 DEF UpdRun
    <3>2. Terminal(c.status)
      BY <2>2, DistinctAssumption
         DEF Updated, Terminal, Final, NonTerminal, InQueue, Running, SubmitError
    <3> QED  BY <3>1, <3>2
  <2>3. PICK g \in 1 .. MaxRejudges : RejudgeCommit(r, g)
    BY <1>1, <2>1, <2>2, StatusStep DEF Terminal, Final
  <2>4. <<r, g>> \in Procs /\ proc[<<r, g>>].pc = "moved"
    BY <2>3, ProcsOf, ConstantsAssumption DEF RejudgeCommit
  <2>5. <<r, g>> \notin rejudges
    BY <1>1, <2>4 DEF IInv, ProcInv, Unregistered
  <2> QED  BY <2>3, <2>5 DEF RejudgeCommit
<1>2. IInv /\ [Next]_vars => [A]_vars
  BY <1>1
<1> QED
  BY Invariance, <1>2, PTL DEF Spec, WithdrawnOnlyByRejudge

(***************************************************************************)
(* Protocols.  A verdict that reaches a row leaves its report behind, and  *)
(* only a rejudge that has copied the report away removes it.              *)
(***************************************************************************)

Archived(r)  == \E a \in archive : a.run = r
HasReport(r) == protocol[r] # NoDoc \/ Archived(r) \/ Pronounced(r) \cap Reportless # {}

ReportInv ==
  /\ \A p \in Procs : proc[p].pc = "archived" => Archived(p[1])
  /\ \A u \in Uuids : ejudge[u].status \in Verdicts => ejudge[u].status \in ejudge[u].given
  /\ \A c \in chains : c.stage = "update" /\ c.status \in Verdicts
                         => HasReport(ejudge[c.uuid].run)
  /\ VerdictHasProtocol

\* An ejudge record changes only by being created, or by one step of its judge.
LEMMA EjudgeStep ==
  ASSUME IInv, Next
  PROVE  /\ EjudgeKept
         /\ \A u \in Uuids : ejudge'[u].status \in Verdicts =>
               \/ ejudge'[u].status \in ejudge'[u].given
               \/ ejudge'[u].status = ejudge[u].status
<1>t. TypeOK
  BY DEF IInv
<1>1. CASE UNCHANGED ejudge
  BY <1>1 DEF EjudgeKept
<1>2. ASSUME NEW p \in Procs, NEW u \in Uuids, JudgeAccepts(p, u)
      PROVE  /\ EjudgeKept
             /\ \A w \in Uuids : ejudge'[w].status \in Verdicts => ejudge'[w].status = ejudge[w].status
  <2>1. /\ ejudge'[u] = [run |-> p[1], judge |-> proc[p].judge, status |-> InQueue, given |-> {}]
        /\ \A w \in Uuids : w # u => ejudge'[w] = ejudge[w]
        /\ ejudge[u] = NoEjudge
    BY <1>2, <1>t DEF JudgeAccepts, Unused, TypeOK
  <2>2. ejudge'[u].status = InQueue /\ ejudge[u].run = None /\ ejudge[u].given = {}
    BY <2>1 DEF NoEjudge
  <2> QED  BY <2>1, <2>2, DistinctAssumption DEF EjudgeKept, InQueue
<1>3. ASSUME NEW u \in Uuids, JudgeReportsProgress(u)
      PROVE  /\ EjudgeKept
             /\ \A w \in Uuids : ejudge'[w].status \in Verdicts => ejudge'[w].status = ejudge[w].status
  <2>1. ejudge' = [ejudge EXCEPT ![u].status = Running]
    BY <1>3 DEF JudgeReportsProgress
  <2>2. /\ ejudge'[u].run = ejudge[u].run /\ ejudge'[u].given = ejudge[u].given
        /\ ejudge'[u].status = Running
        /\ \A w \in Uuids : w # u => ejudge'[w] = ejudge[w]
    BY <1>t, <2>1 DEF TypeOK, Ejudge
  <2> QED  BY <2>2, DistinctAssumption DEF EjudgeKept
<1>4. ASSUME NEW u \in Uuids, NEW v \in Verdicts, GiveVerdict(u, v)
      PROVE  /\ EjudgeKept
             /\ \A w \in Uuids : \/ ejudge'[w].status \in ejudge'[w].given
                                  \/ ejudge'[w].status = ejudge[w].status
  <2>1. /\ ejudge'[u] = [run |-> ejudge[u].run, judge |-> ejudge[u].judge, status |-> v,
                         given |-> ejudge[u].given \cup {v}]
        /\ \A w \in Uuids : w # u => ejudge'[w] = ejudge[w]
    BY <1>t, <1>4 DEF GiveVerdict, TypeOK
  <2>2. /\ ejudge'[u].run = ejudge[u].run /\ ejudge'[u].given = ejudge[u].given \cup {v}
        /\ ejudge'[u].status = v
    BY <2>1
  <2> QED  BY <2>1, <2>2 DEF EjudgeKept
<1> QED
  BY <1>1, <1>2, <1>3, <1>4
     DEF Next, PostSource, PostCommit, RejudgeStep, RejudgeOpen, RejudgeFind, RejudgeArchive,
         RejudgeDelete, RejudgeCommit, SubmitStep, Enqueue, SubmitStart, SubmitAnswered,
         SubmitRefused, SubmitRaises, SubmitErrorProtocol, Drop, JudgeStep, JudgeGivesVerdict,
         JudgeReevaluates, ChainStep, CheckRun, LoadGetRun, LoadProtocol, LoadRaises, UpdRun,
         UpdRaises, DropChain

\* The archive only grows, and a document disappears only in RejudgeDelete.
LEMMA MongoStep ==
  ASSUME IInv, Next
  PROVE  /\ archive \subseteq archive'
         /\ \A r \in Runs : \/ protocol'[r] = protocol[r]
                             \/ protocol'[r] # NoDoc
                             \/ \E p \in Procs : p[1] = r /\ proc[p].pc = "archived"
<1>t. TypeOK
  BY DEF IInv
<1>1. CASE UNCHANGED mongo
  BY <1>1 DEF mongo
<1>2. CASE UNCHANGED <<protocol, archive>>
  BY <1>2
<1>3. ASSUME NEW r \in Runs, NEW g \in 1 .. MaxRejudges, RejudgeArchive(r, g)
      PROVE  protocol' = protocol /\ archive \subseteq archive'
  BY <1>3 DEF RejudgeArchive
<1>4. ASSUME NEW r \in Runs, NEW g \in 1 .. MaxRejudges, RejudgeDelete(r, g)
      PROVE  /\ archive' = archive /\ <<r, g>> \in Procs /\ proc[<<r, g>>].pc = "archived"
             /\ \A q \in Runs : q # r => protocol'[q] = protocol[q]
  BY <1>4, <1>t, ProcsOf, ConstantsAssumption DEF RejudgeDelete, TypeOK
<1>5. ASSUME NEW p \in Procs, SubmitErrorProtocol(p)
      PROVE  archive' = archive /\ \A q \in Runs : protocol'[q] = protocol[q] \/ protocol'[q] # NoDoc
  <2>1. ErrorDoc # NoDoc
    BY DEF ErrorDoc, NoDoc, SubmitError, None
  <2> QED  BY <1>5, <1>t, <2>1 DEF SubmitErrorProtocol, TypeOK
<1>6. ASSUME NEW c \in chains, LoadProtocol(c)
      PROVE  archive' = archive /\ \A q \in Runs : protocol'[q] = protocol[q] \/ protocol'[q] # NoDoc
  <2>1. c.uuid # None
    BY <1>t, DistinctAssumption DEF TypeOK, Chain
  <2>2. \A s : [src |-> c.uuid, status |-> s] # NoDoc
    BY <2>1 DEF NoDoc
  <2> QED  BY <1>6, <1>t, <2>2 DEF LoadProtocol, TypeOK
<1> QED
  BY <1>1, <1>2, <1>3, <1>4, <1>5, <1>6
     DEF Next, PostSource, PostCommit, RejudgeStep, RejudgeOpen, RejudgeFind, RejudgeCommit,
         SubmitStep, Enqueue, SubmitStart, JudgeAccepts, SubmitAnswered, SubmitRefused,
         SubmitRaises, Drop, JudgeStep, JudgeReportsProgress, JudgeGivesVerdict,
         JudgeReevaluates, GiveVerdict, ChainStep, CheckRun, LoadGetRun, LoadRaises, UpdRun,
         UpdRaises, DropChain

\* A run with a report, current or archived, keeps one in every step.
LEMMA ReportStays ==
  ASSUME IInv, ReportInv, Next, NEW r \in Runs, HasReport(r)
  PROVE  HasReport(r)'
<1>1. archive \subseteq archive'
  BY MongoStep
<1>2. CASE Archived(r)
  BY <1>1, <1>2 DEF HasReport, Archived
<1>3. CASE Pronounced(r) \cap Reportless # {}
  <2>1. r # None
    BY DistinctAssumption
  <2>2. Pronounced(r) \subseteq Pronounced(r)'
    BY <2>1, EjudgeStep DEF EjudgeKept, Pronounced, SubmissionsOf
  <2> QED  BY <1>3, <2>2 DEF HasReport
<1>4. CASE protocol[r] # NoDoc
  <2>1. CASE \E p \in Procs : p[1] = r /\ proc[p].pc = "archived"
    BY <1>2, <2>1 DEF ReportInv
  <2>2. CASE protocol'[r] = protocol[r] \/ protocol'[r] # NoDoc
    BY <1>4, <2>2 DEF HasReport
  <2> QED  BY <2>1, <2>2, MongoStep
<1> QED  BY <1>2, <1>3, <1>4 DEF HasReport

\* A task reaches the state "archived" only through RejudgeArchive.
LEMMA ArchivedStep ==
  ASSUME IInv, Next, NEW p \in Procs, proc'[p].pc = "archived"
  PROVE  proc[p].pc = "archived" \/ Archived(p[1])'
<1>t. TypeOK
  BY DEF IInv
<1>1. ASSUME NEW q \in Procs, NEW rec, proc' = [proc EXCEPT ![q] = rec], rec.pc # "archived"
      PROVE  proc[p].pc = "archived"
  BY <1>1, <1>t, OneProc
<1>2. ASSUME NEW q \in Procs, NEW pc, Goto(q, pc), pc # "archived"
      PROVE  proc[p].pc = "archived"
  BY <1>2, <1>t, GotoProc
<1>3. \A pc, seen, doc : Request(pc, seen, doc).pc = pc
  BY DEF Request
<1>4. \A pc, tries, seen, judge, sent : Task(pc, tries, seen, judge, sent).pc = pc
  BY DEF Task
<1>5. ASSUME NEW q \in Procs, Finish(q)
      PROVE  proc[p].pc = "archived"
  BY <1>1, <1>3, <1>5 DEF Finish, Fresh
<1>6. ASSUME NEW r \in Runs, PostSource(r) \/ PostCommit(r)
      PROVE  proc[p].pc = "archived"
  <2>1. <<r, 0>> \in Procs
    BY ProcsOf, ConstantsAssumption
  <2> QED  BY <1>2, <1>6, <2>1 DEF PostSource, PostCommit
<1>7. ASSUME NEW r \in Runs, NEW g \in 1 .. MaxRejudges, RejudgeStep(r, g)
      PROVE  proc[p].pc = "archived" \/ Archived(p[1])'
  <2>1. <<r, g>> \in Procs
    BY ProcsOf, ConstantsAssumption
  <2>2. CASE RejudgeArchive(r, g)
    <3>1. p = <<r, g>> \/ proc[p].pc = "archived"
      BY <1>t, <2>1, <2>2, GotoProc DEF RejudgeArchive
    <3>2. [run |-> r, rejudge |-> g, doc |-> proc[<<r, g>>].doc] \in archive'
      BY <2>2 DEF RejudgeArchive
    <3>3. \E a \in archive' : a.run = r
      BY <3>2
    <3> QED  BY <3>1, <3>3 DEF Archived
  <2>3. CASE RejudgeOpen(r, g)
    BY <1>1, <1>3, <2>1, <2>3 DEF RejudgeOpen
  <2>4. CASE RejudgeFind(r, g)
    BY <1>1, <1>3, <2>1, <2>4 DEF RejudgeFind
  <2>5. CASE RejudgeDelete(r, g) \/ RejudgeCommit(r, g)
    BY <1>2, <2>1, <2>5 DEF RejudgeDelete, RejudgeCommit
  <2> QED  BY <1>7, <2>2, <2>3, <2>4, <2>5 DEF RejudgeStep
<1>8. ASSUME NEW q \in Procs, SubmitStep(q)
      PROVE  proc[p].pc = "archived"
  <2>1. CASE Enqueue(q)
    BY <1>1, <1>3, <2>1 DEF Enqueue, Fresh
  <2>2. CASE SubmitStart(q)
    BY <1>1, <1>4, <1>5, <2>2 DEF SubmitStart
  <2>3. CASE \E u \in Uuids : JudgeAccepts(q, u)
    BY <1>1, <1>4, <2>3 DEF JudgeAccepts
  <2>4. CASE SubmitAnswered(q) \/ SubmitErrorProtocol(q) \/ Drop(q)
    BY <1>5, <2>4 DEF SubmitAnswered, SubmitErrorProtocol, Drop
  <2>5. CASE SubmitRefused(q) \/ SubmitRaises(q)
    BY <1>1, <1>2, <1>4, <2>5 DEF SubmitRefused, SubmitRaises, FailSubmit
  <2> QED  BY <1>8, <2>1, <2>2, <2>3, <2>4, <2>5 DEF SubmitStep
<1>9. CASE UNCHANGED proc
  BY <1>9
<1> QED
  BY <1>6, <1>7, <1>8, <1>9
     DEF Next, JudgeStep, JudgeReportsProgress, JudgeGivesVerdict, JudgeReevaluates, GiveVerdict,
         ChainStep, CheckRun, LoadGetRun, LoadProtocol, LoadRaises, UpdRun, UpdRaises, DropChain

\* Every step keeps the invariant about reports.
LEMMA ReportStep ==
  ASSUME IInv, ReportInv, Next
  PROVE  ReportInv'
<1>1. \A p \in Procs : proc'[p].pc = "archived" => Archived(p[1])'
  <2>1. \A p \in Procs : proc[p].pc = "archived" => Archived(p[1])'
    BY MongoStep DEF ReportInv, Archived
  <2> QED  BY <2>1, ArchivedStep
<1>2. \A u \in Uuids : ejudge'[u].status \in Verdicts => ejudge'[u].status \in ejudge'[u].given
  BY EjudgeStep DEF ReportInv, EjudgeKept
<1>3. ASSUME NEW c \in chains', c.stage = "update", c.status \in Verdicts
      PROVE  \E q \in Runs : q = ejudge'[c.uuid].run /\ HasReport(q)'
  <2>1. CASE c \in chains
    <3>1. c.uuid \in Uuids /\ ejudge[c.uuid].run \in Runs /\ ejudge[c.uuid].run # None
      BY <2>1, DistinctAssumption DEF IInv, TypeOK, Chain, ChainInv, EjudgeInv, NoEjudge
    <3>2. PICK r \in Runs : r = ejudge[c.uuid].run
      BY <3>1
    <3>3. HasReport(r)
      BY <1>3, <2>1, <3>2 DEF ReportInv
    <3>4. ejudge'[c.uuid].run = r
      BY <3>1, <3>2, EjudgeStep DEF EjudgeKept
    <3> QED  BY <3>3, <3>4, ReportStays
  <2>2. ASSUME NEW d \in chains, LoadProtocol(d), c = Message(d.uuid, d.status, "update", 0)
        PROVE  \E q \in Runs : q = ejudge'[c.uuid].run /\ HasReport(q)'
    <3>0. PICK held : held = ejudge[d.uuid]
      OBVIOUS
    <3>1. /\ c.uuid = d.uuid /\ ejudge' = ejudge /\ d.uuid \in Uuids /\ d.uuid # None
          /\ ejudge[d.uuid].run \in Runs
      BY <2>2, DistinctAssumption
         DEF Message, LoadProtocol, IInv, TypeOK, Chain, ChainInv, EjudgeInv, NoEjudge
    <3>2. CASE held.status \in Reportless
      <4>1. held.status \in held.given
        BY <3>0, <3>1, <3>2, ConstantsAssumption DEF ReportInv
      <4>2. held.status \in Pronounced(held.run)'
        BY <3>0, <3>1, <4>1 DEF Pronounced, SubmissionsOf
      <4> QED  BY <3>0, <3>1, <3>2, <4>2 DEF HasReport
    <3>3. CASE held.status \notin Reportless
      <4>1. protocol'[held.run] = [src |-> d.uuid, status |-> held.status]
        BY <2>2, <3>0, <3>1, <3>3 DEF LoadProtocol, IInv, TypeOK
      <4>2. protocol'[held.run] # NoDoc
        BY <3>1, <4>1 DEF NoDoc
      <4> QED  BY <3>0, <3>1, <4>2 DEF HasReport
    <3> QED  BY <3>2, <3>3
  <2>3. ASSUME NEW d \in chains, CheckRun(d), c \notin chains
        PROVE  FALSE
    <3>1. c = Message(d.uuid, d.status, IF Terminal(d.status) THEN "load" ELSE "update", 0)
            \/ c.stage = "check"
      BY <2>3, <1>3 DEF CheckRun, Advance, RetryOrAbort, Pass, Abort, Message
    <3> QED  BY <1>3, <3>1 DEF Message, Terminal, Final
  <2>4. ASSUME NEW d \in chains, UpdRaises(d), c \notin chains
        PROVE  \E q \in Runs : q = ejudge'[c.uuid].run /\ HasReport(q)'
    <3>1. d.stage = "update" /\ c.uuid = d.uuid /\ c.status = d.status /\ ejudge' = ejudge
      BY <2>4, <1>3 DEF UpdRaises, RetryOrAbort, Pass, Abort, Message
    <3>2. ejudge[d.uuid].run \in Runs
      BY <2>4, DistinctAssumption DEF IInv, TypeOK, Chain, ChainInv, EjudgeInv, NoEjudge
    <3>3. PICK r \in Runs : r = ejudge[d.uuid].run
      BY <3>2
    <3>4. HasReport(r)
      BY <1>3, <3>1, <3>3 DEF ReportInv
    <3> QED  BY <3>1, <3>3, <3>4, ReportStays
  <2>5. ASSUME NEW d \in chains,
               LoadGetRun(d) \/ LoadRaises(d) \/ UpdRun(d) \/ DropChain(d), c \notin chains
        PROVE  FALSE
    BY <1>3, <2>5 DEF LoadGetRun, LoadRaises, UpdRun, DropChain, RetryOrAbort, Pass, Abort, Message
  <2>6. ASSUME NEW u \in Uuids, JudgeStep(u), c \notin chains
        PROVE  FALSE
    BY <1>3, <2>6 DEF JudgeStep, JudgeReportsProgress, JudgeGivesVerdict, JudgeReevaluates,
                      GiveVerdict, Notify, Message
  <2>7. ASSUME NEW d \in chains, LoadProtocol(d), c \notin chains
        PROVE  c = Message(d.uuid, d.status, "update", 0)
    BY <2>7 DEF LoadProtocol, Advance, Pass
  <2> QED
    BY <2>1, <2>2, <2>3, <2>4, <2>5, <2>6, <2>7
       DEF Next, PostSource, PostCommit, RejudgeStep, RejudgeOpen, RejudgeFind, RejudgeArchive,
         RejudgeDelete, RejudgeCommit, SubmitStep, Enqueue, SubmitStart, JudgeAccepts,
         SubmitAnswered, SubmitRefused, SubmitRaises, SubmitErrorProtocol, Drop, ChainStep
<1>4. ASSUME NEW r \in Runs, row'[r].status \in Verdicts
      PROVE  HasReport(r)'
  <2>1. CASE row'[r].status = row[r].status
    BY <1>4, <2>1, ReportStays DEF ReportInv, VerdictHasProtocol, HasReport, Archived
  <2>2. ASSUME NEW c \in chains, r \in Updated(c), UpdRun(c)
        PROVE  HasReport(r)'
    <3>1. row'[r] = [status |-> c.status, uuid |-> c.uuid, judge |-> row[r].judge]
      BY <2>2 DEF UpdRun
    <3>2. r = ejudge[c.uuid].run
      BY <2>2, TargetsAreOwn DEF Updated
    <3>3. HasReport(r)
      BY <1>4, <2>2, <3>1, <3>2 DEF UpdRun, ReportInv
    <3> QED  BY <3>3, ReportStays
  <2>3. ASSUME NEW g \in 1 .. MaxRejudges, RejudgeCommit(r, g)
        PROVE  row'[r].status = row[r].status
    <3>1. row'[r].status = Assign(row[r].status, proc[<<r, g>>].seen.status, InQueue)
      BY <2>3 DEF RejudgeCommit, IInv, TypeOK, Row
    <3> QED  BY <1>4, <3>1, DistinctAssumption DEF Assign
  <2>4. PostCommit(r) => row'[r].status = InQueue
    BY DEF PostCommit, IInv, TypeOK, NoRow
  <2> QED  BY <1>4, <2>1, <2>2, <2>3, <2>4, StatusStep, DistinctAssumption
<1> QED
  BY <1>1, <1>2, <1>3, <1>4 DEF ReportInv, VerdictHasProtocol, HasReport, Archived

\* A run never shows a verdict whose report was lost: load_protocol comes before
\* upd_run, and a rejudge copies a protocol before it deletes it.
THEOREM VerdictsHaveProtocols == Spec => []VerdictHasProtocol
<1>1. Init => ReportInv
  BY DistinctAssumption
     DEF Init, ReportInv, VerdictHasProtocol, Fresh, Request, NoRow, NoEjudge
<1>2. IInv /\ ReportInv /\ [Next]_vars => ReportInv'
  <2>1. ASSUME IInv, ReportInv, UNCHANGED vars PROVE ReportInv'
    BY <2>1 DEF vars, ReportInv, VerdictHasProtocol, HasReport, Archived, Pronounced, SubmissionsOf
  <2> QED  BY <2>1, ReportStep
<1>3. ReportInv => VerdictHasProtocol
  BY DEF ReportInv
<1> QED
  BY Invariance, <1>1, <1>2, <1>3, PTL DEF Spec

(***************************************************************************)
(* The number of submissions.  Each of them was made for a request that is *)
(* past the answer of its judge, or its answer was lost.                   *)
(***************************************************************************)

Past == {"answered", "erred", "done"}

Answered(r) == {p \in Procs : p[1] = r /\ proc[p].pc \in Past}

CountInv ==
  \A r \in Runs :
    /\ IsFiniteSet(SubmissionsOf(r))
    /\ Cardinality(SubmissionsOf(r)) <= Cardinality(Answered(r)) + used.lost

\* A run has finitely many requests.
LEMMA FiniteRequests ==
  ASSUME NEW r \in Runs, NEW S \in SUBSET Procs, \A p \in S : p[1] = r
  PROVE  IsFiniteSet(S) /\ Cardinality(S) \in Nat
<1>1. IsFiniteSet(0 .. MaxRejudges)
  BY FS_Interval, ConstantsAssumption
<1>2. IsFiniteSet({r})
  BY FS_Singleton
<1>3. IsFiniteSet({r} \X (0 .. MaxRejudges))
  BY <1>1, <1>2, FS_Product
<1>4. S \in SUBSET ({r} \X (0 .. MaxRejudges))
  BY DEF Procs
<1>5. IsFiniteSet(S)
  BY <1>3, <1>4, FS_Subset
<1> QED  BY <1>5, FS_CardinalityType

\* The numbers that are compared
LEMMA CountTypes ==
  ASSUME TypeOK, NEW r \in Runs, IsFiniteSet(SubmissionsOf(r))
  PROVE  /\ Cardinality(SubmissionsOf(r)) \in Nat
         /\ IsFiniteSet(Answered(r)) /\ Cardinality(Answered(r)) \in Nat
         /\ used.lost \in Nat
<1>1. Answered(r) \in SUBSET Procs /\ \A p \in Answered(r) : p[1] = r
  BY DEF Answered
<1>2. IsFiniteSet(Answered(r)) /\ Cardinality(Answered(r)) \in Nat
  BY <1>1, FiniteRequests
<1>3. used.lost \in Nat
  BY DEF TypeOK
<1> QED  BY <1>2, <1>3, FS_CardinalityType

\* A step that makes no submission and starts nothing again
LEMMA CountGrows ==
  ASSUME TypeOK, TypeOK', CountInv,
         \A u \in Uuids : ejudge'[u].run = ejudge[u].run,
         \A p \in Procs : proc[p].pc \in Past => proc'[p].pc \in Past,
         used'.lost >= used.lost
  PROVE  CountInv'
<1> SUFFICES ASSUME NEW r \in Runs
             PROVE  /\ IsFiniteSet(SubmissionsOf(r)')
                    /\ Cardinality(SubmissionsOf(r)') <= Cardinality(Answered(r)') + used'.lost
  BY DEF CountInv
<1>1. SubmissionsOf(r)' = SubmissionsOf(r)
  BY DEF SubmissionsOf
<1>2. /\ IsFiniteSet(SubmissionsOf(r))
      /\ Cardinality(SubmissionsOf(r)) <= Cardinality(Answered(r)) + used.lost
  BY DEF CountInv
<1>3. /\ Cardinality(SubmissionsOf(r)) \in Nat /\ Cardinality(Answered(r)) \in Nat
      /\ used.lost \in Nat
  BY <1>2, CountTypes
<1>4. Answered(r)' \in SUBSET Procs /\ \A p \in Answered(r)' : p[1] = r
  BY DEF Answered
<1>5. IsFiniteSet(Answered(r)') /\ Cardinality(Answered(r)') \in Nat
  BY <1>4, FiniteRequests
<1>6. Answered(r) \in SUBSET (Answered(r)')
  BY DEF Answered
<1>7. Cardinality(Answered(r)) <= Cardinality(Answered(r)')
  BY <1>5, <1>6, FS_Subset
<1>8. used'.lost \in Nat
  BY DEF TypeOK
<1> QED  BY <1>1, <1>2, <1>3, <1>5, <1>7, <1>8

\* What only one run's requests do leaves the others as they are.
LEMMA CountOthers ==
  ASSUME TypeOK, TypeOK', CountInv, NEW p \in Procs, NEW r \in Runs, r # p[1],
         \A q \in Procs : q # p => proc'[q] = proc[q],
         SubmissionsOf(r)' = SubmissionsOf(r),
         used'.lost >= used.lost
  PROVE  /\ IsFiniteSet(SubmissionsOf(r)')
         /\ Cardinality(SubmissionsOf(r)') <= Cardinality(Answered(r)') + used'.lost
<1>1. Answered(r)' = Answered(r)
  BY DEF Answered
<1>2. /\ IsFiniteSet(SubmissionsOf(r))
      /\ Cardinality(SubmissionsOf(r)) <= Cardinality(Answered(r)) + used.lost
  BY DEF CountInv
<1>3. /\ Cardinality(SubmissionsOf(r)) \in Nat /\ Cardinality(Answered(r)) \in Nat
      /\ used.lost \in Nat
  BY <1>2, CountTypes
<1>4. used'.lost \in Nat
  BY DEF TypeOK
<1> QED  BY <1>1, <1>2, <1>3, <1>4

\* A judge that accepts a submission answers the request that sent it.
LEMMA CountAccepted ==
  ASSUME TypeOK, TypeOK', CountInv, NEW p \in Procs, NEW u \in Uuids, JudgeAccepts(p, u)
  PROVE  CountInv'
<1> DEFINE own == p[1]
<1>r. own \in Runs
  BY DEF Procs
<1>1. /\ proc[p].pc = "sending" /\ proc'[p].pc = "answered"
      /\ \A q \in Procs : q # p => proc'[q] = proc[q]
      /\ used' = used
  BY DEF JudgeAccepts, TypeOK, Task
<1>2. /\ ejudge[u].run = None /\ ejudge'[u].run = own
      /\ \A v \in Uuids : v # u => ejudge'[v] = ejudge[v]
  BY DEF JudgeAccepts, TypeOK, Unused, NoEjudge
<1>3. used.lost \in Nat /\ used'.lost = used.lost
  BY <1>1 DEF TypeOK
<1>4. /\ SubmissionsOf(own)' = SubmissionsOf(own) \cup {u}
      /\ u \notin SubmissionsOf(own)
      /\ Answered(own)' = Answered(own) \cup {p}
      /\ p \notin Answered(own)
  <2>1. SubmissionsOf(own)' = SubmissionsOf(own) \cup {u} /\ u \notin SubmissionsOf(own)
    BY <1>r, <1>2, DistinctAssumption DEF SubmissionsOf
  <2>2. Answered(own)' = Answered(own) \cup {p} /\ p \notin Answered(own)
    BY <1>1 DEF Answered, Past
  <2> QED  BY <2>1, <2>2
<1>5. /\ IsFiniteSet(SubmissionsOf(own))
      /\ Cardinality(SubmissionsOf(own)) <= Cardinality(Answered(own)) + used.lost
  BY <1>r DEF CountInv
<1>6. /\ Cardinality(SubmissionsOf(own)) \in Nat
      /\ IsFiniteSet(Answered(own)) /\ Cardinality(Answered(own)) \in Nat
  BY <1>r, <1>5, CountTypes
<1>7. /\ IsFiniteSet(SubmissionsOf(own)')
      /\ Cardinality(SubmissionsOf(own)') = Cardinality(SubmissionsOf(own)) + 1
  BY <1>4, <1>5, FS_AddElement
<1>8. Cardinality(Answered(own)') = Cardinality(Answered(own)) + 1
  BY <1>4, <1>6, FS_AddElement
<1>9. ASSUME NEW r \in Runs, r # own
      PROVE  /\ IsFiniteSet(SubmissionsOf(r)')
             /\ Cardinality(SubmissionsOf(r)') <= Cardinality(Answered(r)') + used'.lost
  <2>1. SubmissionsOf(r)' = SubmissionsOf(r)
    BY <1>2, <1>9, DistinctAssumption DEF SubmissionsOf
  <2> QED  BY <1>1, <1>3, <1>9, <2>1, CountOthers
<1>10. Cardinality(SubmissionsOf(own)') <= Cardinality(Answered(own)') + used'.lost
  BY <1>3, <1>5, <1>6, <1>7, <1>8
<1> QED  BY <1>7, <1>9, <1>10 DEF CountInv

\* A task that sends again has lost an answer, or had none.
LEMMA CountRaised ==
  ASSUME TypeOK, TypeOK', CountInv, NEW p \in Procs, SubmitRaises(p)
  PROVE  CountInv'
<1> DEFINE own == p[1]
<1>r. own \in Runs
  BY DEF Procs
<1>1. \A u \in Uuids : ejudge'[u].run = ejudge[u].run
  BY DEF SubmitRaises
<1>2. used.lost \in Nat /\ used'.lost >= used.lost
  BY DEF SubmitRaises, Spend, TypeOK
<1>3. CASE proc[p].pc # "answered" \/ ~(proc[p].tries < MaxSubmitRetries)
  <2>1. \A q \in Procs : proc[q].pc \in Past => proc'[q].pc \in Past
    BY <1>3 DEF SubmitRaises, FailSubmit, Goto, Task, TypeOK, Past, Proc
  <2> QED  BY <1>1, <1>2, <2>1, CountGrows
<1>4. CASE proc[p].pc = "answered" /\ proc[p].tries < MaxSubmitRetries
  <2>1. /\ proc'[p].pc = "queued"
        /\ \A q \in Procs : q # p => proc'[q] = proc[q]
        /\ used'.lost = used.lost + 1
    BY <1>4 DEF SubmitRaises, Spend, Task, TypeOK
  <2>2. Answered(own)' = Answered(own) \ {p} /\ p \in Answered(own)
    BY <1>4, <2>1 DEF Answered, Past
  <2>3. \A r \in Runs : SubmissionsOf(r)' = SubmissionsOf(r)
    BY <1>1 DEF SubmissionsOf
  <2>4. /\ IsFiniteSet(SubmissionsOf(own))
        /\ Cardinality(SubmissionsOf(own)) <= Cardinality(Answered(own)) + used.lost
    BY <1>r DEF CountInv
  <2>5. /\ Cardinality(SubmissionsOf(own)) \in Nat
        /\ IsFiniteSet(Answered(own)) /\ Cardinality(Answered(own)) \in Nat
    BY <1>r, <2>4, CountTypes
  <2>6. Cardinality(Answered(own)') = Cardinality(Answered(own)) - 1
    BY <2>2, <2>5, FS_RemoveElement
  <2>7. ASSUME NEW r \in Runs, r # own
        PROVE  /\ IsFiniteSet(SubmissionsOf(r)')
               /\ Cardinality(SubmissionsOf(r)') <= Cardinality(Answered(r)') + used'.lost
    BY <1>2, <2>1, <2>3, <2>7, CountOthers
  <2>8. /\ IsFiniteSet(SubmissionsOf(own)')
        /\ Cardinality(SubmissionsOf(own)') <= Cardinality(Answered(own)') + used'.lost
    BY <1>r, <1>2, <2>1, <2>3, <2>4, <2>5, <2>6
  <2> QED  BY <2>7, <2>8 DEF CountInv
<1> QED  BY <1>3, <1>4

\* However often tasks are retried, the judges hold at most one submission of a run for
\* each request that sent it, and one for each answer lost on the way (submit_task).
THEOREM SubmissionsAreBounded == Spec => []SubmissionsBounded
<1>1. Init => CountInv
  <2> SUFFICES ASSUME Init, NEW r \in Runs
               PROVE  /\ IsFiniteSet(SubmissionsOf(r))
                      /\ Cardinality(SubmissionsOf(r)) <= Cardinality(Answered(r)) + used.lost
    BY DEF CountInv
  <2>1. SubmissionsOf(r) = {} /\ Answered(r) = {} /\ used.lost = 0
    BY DistinctAssumption DEF Init, SubmissionsOf, Answered, Past, NoEjudge, Fresh, Request
  <2> QED  BY <2>1, FS_EmptySet
<1>2. TypeOK /\ TypeOK' /\ CountInv /\ [Next]_vars => CountInv'
  <2> SUFFICES ASSUME TypeOK, TypeOK', CountInv, [Next]_vars PROVE CountInv'
    OBVIOUS
  <2>1. ASSUME NEW r \in Runs, PostSource(r) \/ PostCommit(r) PROVE CountInv'
    <3>1. <<r, 0>> \in Procs
      BY ProcsOf, ConstantsAssumption
    <3>2. \A p \in Procs : proc[p].pc \in Past => proc'[p].pc \in Past
      BY <2>1, <3>1 DEF PostSource, PostCommit, Goto, TypeOK, Past
    <3>3. ejudge' = ejudge /\ used' = used
      BY <2>1 DEF PostSource, PostCommit
    <3> QED  BY <3>2, <3>3, CountGrows DEF TypeOK
  <2>2. ASSUME NEW r \in Runs, NEW g \in 1 .. MaxRejudges, RejudgeStep(r, g) PROVE CountInv'
    <3>1. <<r, g>> \in Procs
      BY ProcsOf, ConstantsAssumption
    <3>2. \A p \in Procs : proc[p].pc \in Past => proc'[p].pc \in Past
      BY <2>2, <3>1 DEF RejudgeStep, RejudgeOpen, RejudgeFind, RejudgeArchive, RejudgeDelete,
                        RejudgeCommit, Goto, TypeOK, Past
    <3>3. ejudge' = ejudge /\ used' = used
      BY <2>2 DEF RejudgeStep, RejudgeOpen, RejudgeFind, RejudgeArchive, RejudgeDelete,
                  RejudgeCommit
    <3> QED  BY <3>2, <3>3, CountGrows DEF TypeOK
  <2>3. ASSUME NEW p \in Procs, SubmitStep(p) PROVE CountInv'
    <3>1. CASE \E u \in Uuids : JudgeAccepts(p, u)
      BY <3>1, CountAccepted
    <3>2. CASE SubmitRaises(p)
      BY <3>2, CountRaised
    <3>3. CASE Enqueue(p) \/ SubmitStart(p) \/ SubmitAnswered(p) \/ SubmitRefused(p)
               \/ SubmitErrorProtocol(p) \/ Drop(p)
      <4>1. \A q \in Procs : proc[q].pc \in Past => proc'[q].pc \in Past
        BY <3>3 DEF Enqueue, SubmitStart, SubmitAnswered, SubmitRefused, SubmitErrorProtocol, Drop,
                    Finish, FailSubmit, Goto, Fresh, Request, Task, TypeOK, Past, Proc
      <4>2. ejudge' = ejudge /\ used'.lost = used.lost
        BY <3>3 DEF Enqueue, SubmitStart, SubmitAnswered, SubmitRefused, SubmitErrorProtocol, Drop,
                    Spend, TypeOK
      <4> QED  BY <4>1, <4>2, CountGrows DEF TypeOK
    <3> QED  BY <2>3, <3>1, <3>2, <3>3 DEF SubmitStep
  <2>4. ASSUME NEW u \in Uuids, JudgeStep(u) PROVE CountInv'
    <3>1. \A v \in Uuids : ejudge'[v].run = ejudge[v].run
      BY <2>4 DEF JudgeStep, JudgeReportsProgress, JudgeGivesVerdict, JudgeReevaluates,
                  GiveVerdict, TypeOK, Ejudge
    <3>2. proc' = proc /\ used'.lost = used.lost
      BY <2>4 DEF JudgeStep, JudgeReportsProgress, JudgeGivesVerdict, JudgeReevaluates,
                  GiveVerdict, Spend, TypeOK
    <3> QED  BY <3>1, <3>2, CountGrows DEF TypeOK
  <2>5. ASSUME NEW c \in chains, ChainStep(c) PROVE CountInv'
    <3>1. ejudge' = ejudge /\ proc' = proc /\ used'.lost = used.lost
      BY <2>5 DEF ChainStep, CheckRun, LoadGetRun, LoadProtocol, LoadRaises, UpdRun, UpdRaises,
                  DropChain, Spend, TypeOK
    <3> QED  BY <3>1, CountGrows DEF TypeOK
  <2>6. CASE UNCHANGED vars
    BY <2>6, CountGrows DEF vars, TypeOK
  <2> QED  BY <2>1, <2>2, <2>3, <2>4, <2>5, <2>6 DEF Next
<1>3. TypeOK /\ CountInv => SubmissionsBounded
  <2> SUFFICES ASSUME TypeOK, CountInv, NEW r \in Runs
               PROVE  Cardinality(SubmissionsOf(r))
                        <= Cardinality({p \in Procs : p[1] = r /\ proc[p].pc \notin {"idle", "stored"}})
                           + used.lost
    BY DEF SubmissionsBounded
  <2> DEFINE begun == {p \in Procs : p[1] = r /\ proc[p].pc \notin {"idle", "stored"}}
  <2>1. /\ IsFiniteSet(SubmissionsOf(r))
        /\ Cardinality(SubmissionsOf(r)) <= Cardinality(Answered(r)) + used.lost
    BY DEF CountInv
  <2>2. /\ Cardinality(SubmissionsOf(r)) \in Nat /\ Cardinality(Answered(r)) \in Nat
        /\ used.lost \in Nat
    BY <2>1, CountTypes
  <2>3. begun \in SUBSET Procs /\ \A p \in begun : p[1] = r
    OBVIOUS
  <2>4. IsFiniteSet(begun) /\ Cardinality(begun) \in Nat
    BY <2>3, FiniteRequests
  <2>5. Answered(r) \in SUBSET begun
    BY DEF Answered, Past
  <2>6. Cardinality(Answered(r)) <= Cardinality(begun)
    BY <2>4, <2>5, FS_Subset
  <2> HIDE DEF begun
  <2> QED  BY <2>1, <2>2, <2>4, <2>6 DEF begun
<1> QED
  BY TypeCorrect, <1>1, <1>2, <1>3, PTL DEF Spec

(***************************************************************************)
(* RunLifecycle implements VerdictService, for every value of the          *)
(* constants: each step of a handler, a task or a judge is one step of the *)
(* service, or none.                                                       *)
(***************************************************************************)

Accepted == {r \in Runs : Exists(r)}
Said     == [r \in Runs |-> Pronounced(r)]
Shown    == [r \in Runs |-> IF Terminal(row[r].status) THEN row[r].status ELSE None]

\* A step that keeps statuses, judges' verdicts and the rejudge table is no
\* step of the service.
LEMMA Stutter ==
  ASSUME \A r \in Runs : row'[r].status = row[r].status,
         \A r \in Runs : Pronounced(r)' = Pronounced(r),
         rejudges' = rejudges
  PROVE  UNCHANGED Service!vars
<1>1. Accepted' = Accepted
  BY DEF Accepted, Exists
<1>2. Said' = Said
  BY DEF Said
<1>3. Shown' = Shown
  BY DEF Shown
<1> QED  BY <1>1, <1>2, <1>3 DEF Service!vars, Accepted, Said, Shown

\* Steps that leave ejudge alone leave the verdicts pronounced alone.
LEMMA SamePronounced ==
  UNCHANGED ejudge => \A r \in Runs : Pronounced(r)' = Pronounced(r)
BY DEF Pronounced, SubmissionsOf

\* A row shows a new final status, which a judge has pronounced on the run.
LEMMA ShowStep ==
  ASSUME TypeOK, NEW r \in Runs, NEW s \in Verdicts \cup {SubmitError}, Exists(r),
         s \in Pronounced(r) \cup {SubmitError},
         row'[r].status = s, \A q \in Runs : q # r => row'[q].status = row[q].status,
         UNCHANGED <<rejudges, ejudge>>
  PROVE  Service!Next
<1>1. Accepted' = Accepted
  BY DistinctAssumption DEF Accepted, Exists, None, SubmitError
<1>2. Said' = Said
  BY SamePronounced DEF Said
<1>3. Shown' = [Shown EXCEPT ![r] = s]
  BY DEF Shown, Terminal, Final
<1>4. r \in Accepted /\ s \in Said[r] \cup {SubmitError}
  BY DEF Accepted, Said
<1>5. Service!Show(r, s)
  BY <1>1, <1>2, <1>3, <1>4 DEF Service!Show, Accepted, Said, Shown
<1> QED  BY <1>5 DEF Service!Next

\* Submitting a run accepts it in the service, or stutters.
LEMMA HandlerSteps ==
  ASSUME IInv, NEW r \in Runs, PostSource(r) \/ PostCommit(r)
  PROVE  [Service!Next]_Service!vars
<1>1. CASE PostSource(r)
  BY <1>1, Stutter, SamePronounced DEF PostSource
<1>2. CASE PostCommit(r)
  <2>1. ~Exists(r)
    BY <1>2 DEF PostCommit, IInv, RowInv
  <2>2. /\ row'[r] = [NoRow EXCEPT !.status = InQueue]
        /\ \A q \in Runs : q # r => row'[q] = row[q]
        /\ UNCHANGED <<rejudges, ejudge>>
    BY <1>2 DEF PostCommit, IInv, TypeOK
  <2>3. row'[r].status = InQueue
    BY <2>2 DEF NoRow
  <2>4. Accepted' = Accepted \cup {r} /\ r \notin Accepted
    BY <2>1, <2>2, <2>3 DEF Accepted, Exists, InQueue, None
  <2>5. Said' = Said
    BY <2>2, SamePronounced DEF Said
  <2>6. ~Terminal(row[r].status) /\ ~Terminal(row'[r].status)
    BY <2>1, <2>3, DistinctAssumption DEF Terminal, Final, Exists, InQueue, None, SubmitError
  <2>7. Shown' = Shown
    BY <2>2, <2>6 DEF Shown
  <2>8. Service!Accept(r)
    BY <2>2, <2>4, <2>5, <2>7 DEF Service!Accept, Accepted, Said, Shown
  <2> QED  BY <2>8 DEF Service!Next
<1> QED  BY <1>1, <1>2

\* A rejudge is registered in the service when its handler commits.
LEMMA RejudgeSteps ==
  ASSUME IInv, NEW r \in Runs, NEW g \in 1 .. MaxRejudges, RejudgeStep(r, g)
  PROVE  [Service!Next]_Service!vars
<1>1. CASE ~RejudgeCommit(r, g)
  BY <1>1, Stutter, SamePronounced
     DEF RejudgeStep, RejudgeOpen, RejudgeFind, RejudgeArchive, RejudgeDelete, db
<1>2. CASE RejudgeCommit(r, g)
  <2>1. <<r, g>> \in Procs /\ proc[<<r, g>>].pc = "moved"
    BY <1>2, ProcsOf, ConstantsAssumption DEF RejudgeCommit
  <2>2. <<r, g>> \notin rejudges /\ Exists(r)
    BY <2>1 DEF IInv, ProcInv, Unregistered
  <2>3. /\ row'[r].status = Assign(row[r].status, proc[<<r, g>>].seen.status, InQueue)
        /\ \A q \in Runs : q # r => row'[q] = row[q]
        /\ rejudges' = rejudges \cup {<<r, g>>} /\ UNCHANGED ejudge
    BY <1>2 DEF RejudgeCommit, IInv, TypeOK, Row
  <2>4. row'[r].status \in {row[r].status, InQueue}
    BY <2>3 DEF Assign
  <2>5. Accepted' = Accepted /\ r \in Accepted
    BY <2>2, <2>3, <2>4 DEF Accepted, Exists, InQueue, None
  <2>6. Said' = Said
    BY <2>3, SamePronounced DEF Said
  <2>7. ~Terminal(InQueue)
    BY DistinctAssumption DEF Terminal, Final, InQueue, SubmitError
  <2>8. Shown' \in {Shown, [Shown EXCEPT ![r] = None]}
    <3>1. CASE row'[r].status = row[r].status
      BY <2>3, <3>1 DEF Shown
    <3>2. CASE row'[r].status = InQueue
      BY <2>3, <2>7, <3>2 DEF Shown
    <3> QED  BY <2>4, <3>1, <3>2
  <2>9. Service!Rejudge(r, g)
    BY <2>2, <2>3, <2>5, <2>6, <2>8 DEF Service!Rejudge, Accepted, Said, Shown
  <2> QED  BY <2>3, <2>9 DEF Service!Next
<1> QED  BY <1>1, <1>2

\* submit_task shows a submit error, or stutters.
LEMMA SubmitSteps ==
  ASSUME IInv, NEW p \in Procs, SubmitStep(p)
  PROVE  [Service!Next]_Service!vars
<1>t. TypeOK /\ p[1] \in Runs
  BY DEF IInv, Procs
<1>1. CASE UNCHANGED <<row, rejudges, ejudge>>
  BY <1>1, Stutter, SamePronounced
<1>2. ASSUME NEW s \in {None, SubmitError}, NEW u, AddInfo(p, s, u),
             UNCHANGED <<rejudges, ejudge>>, Exists(p[1])
      PROVE  [Service!Next]_Service!vars
  <2>1. /\ row'[p[1]].status = IF s = None THEN row[p[1]].status
                               ELSE Assign(row[p[1]].status, proc[p].seen.status, s)
        /\ \A q \in Runs : q # p[1] => row'[q] = row[q]
    BY <1>t, <1>2 DEF AddInfo, TypeOK
  <2>2. CASE row'[p[1]].status = row[p[1]].status
    <3>1. \A q \in Runs : row'[q].status = row[q].status
      BY <2>1, <2>2
    <3> QED  BY <1>2, <3>1, Stutter, SamePronounced
  <2>3. CASE row'[p[1]].status = SubmitError
    BY <1>t, <1>2, <2>1, <2>3, ShowStep
  <2> QED  BY <2>1, <2>2, <2>3 DEF Assign
<1>3. proc[p].pc \in {"sending", "answered"} => Exists(p[1])
  BY DEF IInv, ProcInv
<1>4. CASE \E u \in Uuids : JudgeAccepts(p, u)
  <2>1. PICK u \in Uuids : JudgeAccepts(p, u)
    BY <1>4
  <2>2. /\ ejudge[u] = NoEjudge /\ UNCHANGED <<row, rejudges>>
        /\ ejudge'[u] = [run |-> p[1], judge |-> proc[p].judge, status |-> InQueue, given |-> {}]
        /\ \A w \in Uuids : w # u => ejudge'[w] = ejudge[w]
    BY <1>t, <2>1 DEF JudgeAccepts, Unused, TypeOK, db
  <2>3. ejudge[u].given = {} /\ ejudge'[u].given = {}
    BY <2>2 DEF NoEjudge
  <2>4. \A r \in Runs : Pronounced(r)' = Pronounced(r)
    <3> SUFFICES ASSUME NEW r \in Runs, NEW v
                 PROVE  v \in Pronounced(r)' <=> v \in Pronounced(r)
      OBVIOUS
    <3>1. v \in Pronounced(r) <=> \E w \in Uuids : ejudge[w].run = r /\ v \in ejudge[w].given
      BY DEF Pronounced, SubmissionsOf
    <3>2. v \in Pronounced(r)' <=> \E w \in Uuids : ejudge'[w].run = r /\ v \in ejudge'[w].given
      BY DEF Pronounced, SubmissionsOf
    <3> QED  BY <2>2, <2>3, <3>1, <3>2
  <2> QED  BY <2>2, <2>4, Stutter
<1> QED
  BY <1>1, <1>2, <1>3, <1>4 DEF SubmitStep, Enqueue, SubmitStart, SubmitAnswered, SubmitRefused,
     SubmitRaises, FailSubmit, SubmitErrorProtocol, Drop, db

\* A judge pronounces verdicts in the service.
LEMMA JudgeSteps ==
  ASSUME IInv, NEW u \in Uuids, JudgeStep(u)
  PROVE  [Service!Next]_Service!vars
<1> DEFINE InGiven(v, r) == \E w \in Uuids : ejudge[w].run = r /\ v \in ejudge[w].given
<1>t. TypeOK /\ UNCHANGED <<row, rejudges>>
  BY DEF IInv, JudgeStep, JudgeReportsProgress, JudgeGivesVerdict, JudgeReevaluates,
         GiveVerdict, db
<1>1. /\ \A r \in Runs : \A v : v \in Pronounced(r) <=> InGiven(v, r)
      /\ \A r \in Runs : \A v : v \in Pronounced(r)' <=> InGiven(v, r)'
  BY DEF Pronounced, SubmissionsOf
<1>2. CASE JudgeReportsProgress(u)
  <2>1. ejudge' = [ejudge EXCEPT ![u].status = Running]
    BY <1>2 DEF JudgeReportsProgress
  <2>2. \A w \in Uuids : ejudge'[w].run = ejudge[w].run /\ ejudge'[w].given = ejudge[w].given
    BY <1>t, <2>1 DEF TypeOK, Ejudge
  <2>3. \A r \in Runs : Pronounced(r)' = Pronounced(r)
    <3> SUFFICES ASSUME NEW r \in Runs, NEW v
                 PROVE  v \in Pronounced(r)' <=> v \in Pronounced(r)
      OBVIOUS
    <3> QED  BY <1>1, <2>2
  <2> QED  BY <1>t, <2>3, Stutter
<1>3. ASSUME NEW v \in Verdicts, GiveVerdict(u, v), ejudge[u].status # None
      PROVE  [Service!Next]_Service!vars
  <2> DEFINE r == ejudge[u].run
  <2>1. r \in Runs /\ Exists(r)
    BY <1>3 DEF IInv, EjudgeInv, NoEjudge
  <2>2. /\ ejudge'[u] = [run |-> r, judge |-> ejudge[u].judge, status |-> v,
                         given |-> ejudge[u].given \cup {v}]
        /\ \A w \in Uuids : w # u => ejudge'[w] = ejudge[w]
    BY <1>t, <1>3 DEF GiveVerdict, TypeOK
  <2>3. ejudge'[u].run = r /\ ejudge'[u].given = ejudge[u].given \cup {v}
    BY <2>2
  <2>4. /\ \A q \in Runs : \A x : x \in Pronounced(q)' <=> x \in Pronounced(q) \/ (q = r /\ x = v)
    BY <1>1, <2>2, <2>3
  <2>5. \A q \in Runs : Pronounced(q)' = IF q = r THEN Pronounced(r) \cup {v} ELSE Pronounced(q)
    <3> SUFFICES ASSUME NEW q \in Runs, NEW x
                 PROVE  /\ x \in Pronounced(q)' <=> x \in Pronounced(q) \/ (q = r /\ x = v)
      BY <2>1
    <3> QED  BY <2>4
  <2>6. Said' = [Said EXCEPT ![r] = @ \cup {v}]
    BY <2>1, <2>5 DEF Said
  <2>7. Accepted' = Accepted /\ r \in Accepted /\ Shown' = Shown
    BY <1>t, <2>1 DEF Accepted, Shown, Exists
  <2>8. Service!Pronounce(r, v)
    BY <1>t, <2>6, <2>7 DEF Service!Pronounce, Accepted, Said, Shown
  <2> QED  BY <2>1, <2>8 DEF Service!Next
<1> QED
  BY <1>2, <1>3, DistinctAssumption
     DEF JudgeStep, JudgeGivesVerdict, JudgeReevaluates, NonTerminal, InQueue, Running, None

\* Only upd_run shows a verdict, and one that was pronounced.
LEMMA ChainSteps ==
  ASSUME IInv, NEW c \in chains, ChainStep(c)
  PROVE  [Service!Next]_Service!vars
<1>t. TypeOK /\ UNCHANGED <<rejudges, ejudge>>
  BY DEF IInv, ChainStep, CheckRun, LoadGetRun, LoadProtocol, LoadRaises, UpdRun, UpdRaises,
         DropChain, db
<1>1. CASE UNCHANGED row
  BY <1>t, <1>1, Stutter, SamePronounced
<1>2. CASE UpdRun(c)
  <2> DEFINE r == ejudge[c.uuid].run
  <2>1. c.uuid \in Uuids /\ c.status \in Verdicts \cup {Running}
    BY <1>t DEF TypeOK, Chain
  <2>2. \A q \in Updated(c) : q \in Runs /\ q = r /\ Exists(q)
    BY TargetsAreOwn DEF Updated
  <2>3. \A q \in Runs : q \notin Updated(c) => row'[q] = row[q]
    BY <1>2 DEF UpdRun
  <2>4. CASE Updated(c) = {}
    BY <1>t, <2>3, <2>4, Stutter, SamePronounced
  <2>5. CASE r \in Updated(c)
    <3>1. row'[r] = [status |-> c.status, uuid |-> c.uuid, judge |-> row[r].judge]
      BY <1>2, <2>2, <2>5 DEF UpdRun
    <3>2. row'[r].status = c.status /\ \A q \in Runs : q # r => row'[q].status = row[q].status
      BY <2>2, <2>3, <3>1
    <3>3. CASE c.status \in Verdicts
      <4>1. c.status \in Pronounced(r)
        BY <2>1, <2>2, <2>5, <3>3 DEF IInv, ChainInv, Pronounced, SubmissionsOf
      <4> QED  BY <1>t, <2>2, <2>5, <3>2, <3>3, <4>1, ShowStep
    <3>4. CASE c.status = Running
      <4>1. row[r].status \in NonTerminal /\ ~Terminal(Running)
        BY <2>5, <3>4, DistinctAssumption DEF Updated, Terminal, Final, Running, SubmitError
      <4>2. ~Terminal(row[r].status)
        BY <4>1, DistinctAssumption
           DEF Terminal, Final, NonTerminal, InQueue, Running, SubmitError
      <4>3. Shown' = Shown
        BY <3>2, <3>4, <4>1, <4>2 DEF Shown
      <4>4. Accepted' = Accepted
        BY <2>2, <2>5, <3>2, <3>4 DEF Accepted, Exists, Running, None
      <4>5. Said' = Said
        BY <1>t, SamePronounced DEF Said
      <4> QED  BY <1>t, <4>3, <4>4, <4>5 DEF Service!vars, Accepted, Said, Shown
    <3> QED  BY <2>1, <3>3, <3>4
  <2> QED  BY <2>2, <2>4, <2>5
<1> QED
  BY <1>1, <1>2 DEF ChainStep, CheckRun, LoadGetRun, LoadProtocol, LoadRaises, UpdRaises,
                    DropChain, db

\* The handlers, submit_task, the judges and the notification chains together
\* keep the promise of VerdictService.
THEOREM LifecycleImplementsService == Spec => ImplementsService
<1>1. Init => Service!Init
  <2> SUFFICES ASSUME Init PROVE Service!Init
    OBVIOUS
  <2>1. \A r \in Runs : ~Exists(r) /\ ~Terminal(row[r].status)
    BY DistinctAssumption DEF Init, NoRow, Exists, Terminal, Final, None, SubmitError
  <2>2. \A r \in Runs : Pronounced(r) = {}
    BY DEF Init, NoEjudge, Pronounced, SubmissionsOf
  <2> QED  BY <2>1, <2>2 DEF Init, Service!Init
<1>2. IInv /\ [Next]_vars => [Service!Next]_Service!vars
  <2> SUFFICES ASSUME IInv, [Next]_vars PROVE [Service!Next]_Service!vars
    OBVIOUS
  <2>1. CASE Next
    BY <2>1, HandlerSteps, RejudgeSteps, SubmitSteps, JudgeSteps, ChainSteps DEF Next
  <2>2. CASE UNCHANGED vars
    BY <2>2, Stutter, SamePronounced DEF vars
  <2> QED  BY <2>1, <2>2
<1> QED
  BY Invariance, <1>1, <1>2, PTL DEF Spec, ImplementsService, Service!Spec
=============================================================================
