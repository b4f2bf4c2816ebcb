----------------------------- MODULE RunRow_proofs -----------------------------
(***************************************************************************)
(* What TLAPS proves of RunRow, for all runs, judges, contests, sessions   *)
(* and verdicts, and every bound.                                          *)
(***************************************************************************)
EXTENDS RunRow, TLAPS

\* What a session has assigned, by what it is doing.
Assigned(x) ==
  /\ x.new.contest = x.seen.contest
  /\ x.op # "submit" => x.new.number = x.seen.number
  /\ x.op = "rejudge" /\ x.pc = "moved" => Triple(x.new) = Blank
  /\ x.op = "submit" =>
       /\ x.new.score = x.seen.score /\ x.new.test = x.seen.test
       /\ x.new.status = x.seen.status
            \/ (x.new.status = SubmitError /\ x.new.number = None)
       /\ x.pc = "loaded" => x.new = x.seen
  /\ x.op = "v1" =>
       /\ x.message \in Message
       /\ x.new = Filled(x.seen, x.message.verdict)

\* The message of a session is about one of the submissions subs.
Addressed(x, subs) == x.op = "v1" => subs[x.message.sub] # NoSub

\* Types, what sessions have assigned, and that messages are about submissions.
TypeInv ==
  /\ TypeOK
  /\ \A h \in Sessions : Assigned(session[h]) \/ session[h] = Free
  /\ \A h \in Sessions : Addressed(session[h], sub)
  /\ \A m \in mail : sub[m.sub] # NoSub

-----------------------------------------------------------------------------
(***************************************************************************)
(* Lemmas about rows                                                       *)
(***************************************************************************)

\* The columns of a row.
LEMMA RowFields ==
  ASSUME NEW x \in Row
  PROVE  /\ DOMAIN x = {"status", "score", "test", "number", "contest"}
         /\ x.status \in Int /\ x.score \in Column /\ x.test \in Column
         /\ x.number \in Numbers \cup {None} /\ x.contest \in Contests
BY DEF Row

\* What Flush makes of the current row.
Merge(old, seen, new) == [c \in DOMAIN old |-> IF new[c] # seen[c] THEN new[c] ELSE old[c]]

\* A flush leaves a row, and each of its columns is the old or the new one.
LEMMA MergeRow ==
  ASSUME NEW old \in Row, NEW seen \in Row, NEW new \in Row
  PROVE  LET x == Merge(old, seen, new) IN
         /\ x \in Row
         /\ x.status = IF new.status # seen.status THEN new.status ELSE old.status
         /\ x.score = IF new.score # seen.score THEN new.score ELSE old.score
         /\ x.test = IF new.test # seen.test THEN new.test ELSE old.test
         /\ x.number = IF new.number # seen.number THEN new.number ELSE old.number
         /\ x.contest = IF new.contest # seen.contest THEN new.contest ELSE old.contest
BY DEF Row, Merge

\* The attributes that a body of RunAPI.put assigns.
LEMMA AssignPut ==
  ASSUME NEW x \in Row, NEW a \in Puts
  PROVE  /\ Assign(x, a) \in Row
         /\ Assign(x, a).number = x.number
         /\ Assign(x, a).contest = x.contest
BY ConstantsAssumption DEF Row, Assign, Column

\* The attributes that a rejudge assigns.
LEMMA AssignBlank ==
  ASSUME NEW x \in Row
  PROVE  /\ Assign(x, Blank) \in Row
         /\ Triple(Assign(x, Blank)) = Blank
         /\ Assign(x, Blank).number = x.number
         /\ Assign(x, Blank).contest = x.contest
BY ConstantsAssumption DEF Row, Assign, Blank, Triple, Column, InQueue

\* What a verdict fills in.
LEMMA FilledRow ==
  ASSUME NEW x \in Row, NEW v \in Verdicts
  PROVE  /\ Filled(x, v) \in Row
         /\ Filled(x, v).number = x.number
         /\ Filled(x, v).contest = x.contest
         /\ Filled(x, v).status = v.status
         /\ v.score # None => Filled(x, v).score = v.score
         /\ v.test # None => Filled(x, v).test = v.test
BY ConstantsAssumption DEF Row, Filled, Column, Verdict

-----------------------------------------------------------------------------
(***************************************************************************)
(* TypeInv is inductive                                                    *)
(***************************************************************************)

\* A session at work has loaded a row.
LEMMA AtWork ==
  ASSUME TypeInv, NEW h \in Sessions, session[h] # Free
  PROVE  /\ session[h] \in Loading
         /\ session[h].run \in Runs /\ session[h].seen \in Row /\ session[h].new \in Row
         /\ Assigned(session[h])
         /\ row[session[h].run] \in Row
BY DEF TypeInv, TypeOK, Loading

\* A free session is doing nothing.
LEMMA FreeDoesNothing ==
  /\ Free.pc = "free" /\ Free.op = "none"
  /\ Addressed(Free, sub) /\ Addressed(Free, sub')
BY DEF Free, Addressed

\* What one session does leaves the others as they are.
LEMMA OneSession ==
  ASSUME TypeInv, NEW h \in Sessions, NEW x,
         session' = [session EXCEPT ![h] = x],
         x = Free \/ (x \in Loading /\ Assigned(x)),
         Addressed(x, sub'),
         \A t \in Subs : sub[t] # NoSub => sub'[t] # NoSub
  PROVE  /\ session' \in [Sessions -> {Free} \cup Loading]
         /\ \A g \in Sessions : Assigned(session'[g]) \/ session'[g] = Free
         /\ \A g \in Sessions : Addressed(session'[g], sub')
<1>1. session \in [Sessions -> {Free} \cup Loading]
  BY DEF TypeInv, TypeOK
<1>2. session' \in [Sessions -> {Free} \cup Loading]
  BY <1>1
<1>3. \A g \in Sessions : session'[g] = IF g = h THEN x ELSE session[g]
  BY <1>1
<1>4. ASSUME NEW g \in Sessions PROVE Assigned(session'[g]) \/ session'[g] = Free
  BY <1>3, <1>4 DEF TypeInv
<1>5. ASSUME NEW g \in Sessions PROVE Addressed(session'[g], sub')
  <2>1. CASE g = h
    BY <1>3, <2>1 DEF Addressed
  <2>2. CASE g # h
    <3>1. session'[g] = session[g] /\ Addressed(session[g], sub)
      BY <1>3, <2>2 DEF TypeInv
    <3>2. ASSUME session[g].op = "v1" PROVE session[g].message.sub \in Subs
      <4>1. session[g] # Free
        BY <3>2, FreeDoesNothing
      <4>2. session[g].message \in Message
        BY <4>1, <3>2, AtWork DEF Assigned
      <4> QED
        BY <4>2 DEF Message
    <3> QED
      BY <3>1, <3>2 DEF Addressed
  <2> QED
    BY <2>1, <2>2
<1> QED
  BY <1>2, <1>4, <1>5

\* What a session has after it loaded a row.
LEMMA LoadedSession ==
  ASSUME TypeInv, NEW r \in Runs,
         NEW op \in {"put", "rejudge", "submit", "v1"},
         NEW pc \in {"loaded", "assigned", "moved", "answered", "found", "linked"},
         NEW new \in Row, NEW m \in Message \cup {None}
  PROVE  [[Loaded(op, r, pc) EXCEPT !.message = m] EXCEPT !.new = new] \in Loading
BY DEF TypeInv, TypeOK, Loaded, Loading

\* A commit writes a row.
LEMMA FlushedRow ==
  ASSUME TypeInv, NEW h \in Sessions, session[h] # Free, Flush(h)
  PROVE  /\ row' = [row EXCEPT ![session[h].run] =
                      Merge(@, session[h].seen, session[h].new)]
         /\ row' \in [Runs -> Row]
<1> DEFINE s == session[h]
           x == Merge(row[s.run], s.seen, s.new)
<1>1. /\ row \in [Runs -> Row] /\ s.run \in Runs
      /\ s.seen \in Row /\ s.new \in Row /\ row[s.run] \in Row
  BY AtWork DEF TypeInv, TypeOK
<1>2. row' = [row EXCEPT ![s.run] = x]
  BY DEF Flush, Merge
<1>3. x \in Row
  BY <1>1, MergeRow
<1> QED
  BY <1>1, <1>2, <1>3

\* What a mark leaves.
LEMMA Marked ==
  ASSUME TypeInv, NEW r \in Runs, NEW isLoose \in BOOLEAN, Mark(r, isLoose)
  PROVE  loose' \subseteq Runs
BY DEF TypeInv, TypeOK, Mark

\* Closing a session.
LEMMA Closed ==
  ASSUME TypeInv, NEW h \in Sessions, Close(h),
         \A t \in Subs : sub[t] # NoSub => sub'[t] # NoSub
  PROVE  /\ session' \in [Sessions -> {Free} \cup Loading]
         /\ \A g \in Sessions : Assigned(session'[g]) \/ session'[g] = Free
         /\ \A g \in Sessions : Addressed(session'[g], sub')
<1>1. Addressed(Free, sub')
  BY FreeDoesNothing
<1> QED
  BY <1>1, OneSession DEF Close

\* A death leaves the types.
LEMMA DieTypes ==
  ASSUME TypeInv, NEW h \in Sessions, Die(h)
  PROVE  TypeInv'
<1>1. used' \in 0 .. MaxEvents
  BY ConstantsAssumption DEF Die, Spend, TypeInv, TypeOK
<1> QED
  BY <1>1, Closed DEF Die, TypeInv, TypeOK

\* So does the load of RunAPI.put.
LEMMA PutLoadTypes ==
  ASSUME TypeInv, NEW h \in Sessions, NEW r \in Runs, NEW a \in Puts, PutLoad(h, r, a)
  PROVE  TypeInv'
<1> DEFINE x == [Loaded("put", r, "assigned") EXCEPT !.new = Assign(@, a)]
<1>1. row[r] \in Row
  BY DEF TypeInv, TypeOK
<1>2. /\ x.pc = "assigned" /\ x.op = "put" /\ x.run = r /\ x.seen = row[r]
      /\ x.new = Assign(row[r], a) /\ x.message = None
      /\ x = [pc |-> "assigned", op |-> "put", run |-> r, seen |-> row[r],
              new |-> Assign(row[r], a), message |-> None]
  BY DEF Loaded
<1>3. x \in Loading
  BY <1>1, <1>2, AssignPut DEF Loading
<1>4. Assigned(x)
  BY <1>1, <1>2, AssignPut DEF Assigned
<1>5. Addressed(x, sub')
  BY <1>2 DEF Addressed
<1>6. session' = [session EXCEPT ![h] = x]
  BY DEF PutLoad
<1>7. used' \in 0 .. MaxEvents
  BY ConstantsAssumption DEF PutLoad, Spend, TypeInv, TypeOK
<1> HIDE DEF x
<1> QED
  BY <1>3, <1>4, <1>5, <1>6, <1>7, OneSession DEF PutLoad, TypeInv, TypeOK

\* And its commit.
LEMMA PutCommitTypes ==
  ASSUME TypeInv, NEW h \in Sessions, PutCommit(h)
  PROVE  TypeInv'
<1>1. session[h] # Free
  BY FreeDoesNothing DEF PutCommit, At
<1>2. row' \in [Runs -> Row] /\ session[h].run \in Runs
  BY <1>1, FlushedRow, AtWork DEF PutCommit
<1>3. loose' \subseteq Runs
  BY <1>2, Marked DEF PutCommit
<1>4. by' \in [Runs -> Subs \cup {None}]
  BY DEF PutCommit, TypeInv, TypeOK
<1> QED
  BY <1>2, <1>3, <1>4, Closed DEF PutCommit, TypeInv, TypeOK

\* The load of a rejudge.
LEMMA RejudgeLoadTypes ==
  ASSUME TypeInv, NEW h \in Sessions, NEW r \in Runs, RejudgeLoad(h, r)
  PROVE  TypeInv'
<1> DEFINE x == Loaded("rejudge", r, "loaded")
<1>1. row[r] \in Row
  BY DEF TypeInv, TypeOK
<1>2. x \in Loading
  BY <1>1 DEF Loaded, Loading
<1>3. Assigned(x)
  BY DEF Loaded, Assigned
<1>4. Addressed(x, sub')
  BY DEF Loaded, Addressed
<1>5. session' = [session EXCEPT ![h] = x]
  BY DEF RejudgeLoad
<1>6. used' \in 0 .. MaxEvents
  BY ConstantsAssumption DEF RejudgeLoad, Spend, TypeInv, TypeOK
<1> HIDE DEF x
<1> QED
  BY <1>2, <1>3, <1>4, <1>5, <1>6, OneSession DEF RejudgeLoad, TypeInv, TypeOK

\* Its move.
LEMMA RejudgeMoveTypes ==
  ASSUME TypeInv, NEW h \in Sessions, RejudgeMove(h)
  PROVE  TypeInv'
<1> DEFINE y == session[h]
           x == [y EXCEPT !.pc = "moved", !.new = Assign(@, Blank)]
<1>1. y # Free /\ y.op = "rejudge"
  BY FreeDoesNothing DEF RejudgeMove, At
<1>2. y \in Loading /\ y.run \in Runs /\ y.new \in Row /\ Assigned(y)
  BY <1>1, AtWork
<1>3. x \in Loading /\ x.op = "rejudge" /\ x.seen = y.seen /\ x.new = Assign(y.new, Blank)
  BY <1>1, <1>2, AssignBlank DEF Loading
<1>4. Assigned(x)
  BY <1>1, <1>2, <1>3, AssignBlank DEF Assigned
<1>5. Addressed(x, sub')
  BY <1>3 DEF Addressed
<1>6. session' = [session EXCEPT ![h] = x]
  BY DEF RejudgeMove, TypeInv, TypeOK
<1>7. doc' \in [Docs -> Runs \cup {None, Gone}] /\ withdrawn' \subseteq Runs
  BY <1>2 DEF RejudgeMove, TypeInv, TypeOK
<1> HIDE DEF x, y
<1> QED
  BY <1>3, <1>4, <1>5, <1>6, <1>7, OneSession DEF RejudgeMove, TypeInv, TypeOK

\* Its commit.
LEMMA RejudgeCommitTypes ==
  ASSUME TypeInv, NEW h \in Sessions, RejudgeCommit(h)
  PROVE  TypeInv'
<1>1. session[h] # Free
  BY FreeDoesNothing DEF RejudgeCommit, At
<1>2. row' \in [Runs -> Row] /\ session[h].run \in Runs
  BY <1>1, FlushedRow, AtWork DEF RejudgeCommit
<1>3. loose' \subseteq Runs
  BY <1>2, Marked DEF RejudgeCommit, Stale
<1>4. by' \in [Runs -> Subs \cup {None}] /\ tasks' \in [Runs -> Nat]
  BY <1>2 DEF RejudgeCommit, TypeInv, TypeOK
<1> QED
  BY <1>2, <1>3, <1>4, Closed DEF RejudgeCommit, TypeInv, TypeOK

\* The load of submit_task.
LEMMA SubmitLoadTypes ==
  ASSUME TypeInv, NEW h \in Sessions, NEW r \in Runs, SubmitLoad(h, r)
  PROVE  TypeInv'
<1> DEFINE x == Loaded("submit", r, "loaded")
<1>1. row[r] \in Row
  BY DEF TypeInv, TypeOK
<1>2. x \in Loading
  BY <1>1 DEF Loaded, Loading
<1>3. Assigned(x)
  BY DEF Loaded, Assigned
<1>4. Addressed(x, sub')
  BY DEF Loaded, Addressed
<1>5. session' = [session EXCEPT ![h] = x]
  BY DEF SubmitLoad
<1>6. tasks' \in [Runs -> Nat]
  BY DEF SubmitLoad, TypeInv, TypeOK
<1> HIDE DEF x
<1> QED
  BY <1>2, <1>3, <1>4, <1>5, <1>6, OneSession DEF SubmitLoad, TypeInv, TypeOK

\* What a session has after an answer of the judge.
LEMMA AnsweredSession ==
  ASSUME TypeInv, NEW h \in Sessions, At(h, "submit", "loaded"),
         NEW status, NEW n \in Numbers \cup {None},
         status = session[h].new.status \/ (status = SubmitError /\ n = None)
  PROVE  LET x == [session[h] EXCEPT !.pc = "answered", !.new = [@ EXCEPT !.number = n, !.status = status]]
         IN  /\ x \in Loading
             /\ Assigned(x)
             /\ Addressed(x, sub')
<1> DEFINE y == session[h]
           x == [y EXCEPT !.pc = "answered", !.new = [@ EXCEPT !.number = n, !.status = status]]
<1>1. y # Free /\ y.op = "submit"
  BY FreeDoesNothing DEF At
<1>2. y \in Loading /\ y.new \in Row /\ Assigned(y)
  BY <1>1, AtWork
<1>3. status \in Int
  BY <1>2, RowFields DEF SubmitError
<1>4. [y.new EXCEPT !.number = n, !.status = status] \in Row
  BY <1>2, <1>3 DEF Row
<1>5. /\ x \in Loading /\ x.op = "submit" /\ x.seen = y.seen
      /\ x.new = [y.new EXCEPT !.number = n, !.status = status]
  BY <1>1, <1>2, <1>4 DEF Loading
<1>6. ASSUME NEW z, z = [y.new EXCEPT !.number = n, !.status = status]
      PROVE  /\ z.contest = y.new.contest /\ z.score = y.new.score
             /\ z.test = y.new.test /\ z.status = status /\ z.number = n
  BY <1>2, <1>6 DEF Row
<1>7. Assigned(x)
  <2>1. /\ x.new.contest = y.new.contest /\ x.new.score = y.new.score
        /\ x.new.test = y.new.test /\ x.new.status = status /\ x.new.number = n
    BY <1>5, <1>6
  <2>2. status = x.seen.status \/ (status = SubmitError /\ n = None)
    BY <1>1, <1>2, <1>5 DEF Assigned, At
  <2>3. x.pc = "answered"
    BY <1>2 DEF Loading
  <2> HIDE DEF x, y
  <2> QED
    BY <1>1, <1>2, <1>5, <2>1, <2>2, <2>3 DEF Assigned
<1>8. Addressed(x, sub')
  BY <1>5 DEF Addressed
<1> QED
  BY <1>5, <1>7, <1>8

\* The same, when nothing but the number changes.
LEMMA NumberedSession ==
  ASSUME TypeInv, NEW h \in Sessions, At(h, "submit", "loaded"), NEW n \in Numbers \cup {None}
  PROVE  LET x == [session[h] EXCEPT !.pc = "answered", !.new = [@ EXCEPT !.number = n]]
         IN  /\ x \in Loading
             /\ Assigned(x)
             /\ Addressed(x, sub')
<1>1. session[h] # Free
  BY FreeDoesNothing DEF At
<1>2. session[h] \in Loading /\ session[h].new \in Row
  BY <1>1, AtWork
<1>3. [session[h].new EXCEPT !.number = n]
        = [session[h].new EXCEPT !.number = n, !.status = session[h].new.status]
  BY <1>2 DEF Row
<1>4. [session[h] EXCEPT !.pc = "answered", !.new = [@ EXCEPT !.number = n]]
        = [session[h] EXCEPT !.pc = "answered",
             !.new = [@ EXCEPT !.number = n, !.status = session[h].new.status]]
  BY <1>2, <1>3 DEF Loading
<1> QED
  BY <1>4, AnsweredSession

\* A submission is some record of a judge.
LEMMA Submissions ==
  ASSUME TypeInv, NEW s \in Subs, sub[s] # NoSub
  PROVE  /\ sub[s] \in [run : Runs, judge : Judges, contest : Contests, number : Numbers,
                        final : BOOLEAN]
         /\ sub[s].run \in Runs /\ sub[s].judge \in Judges /\ sub[s].contest \in Contests
         /\ sub[s].number \in Numbers
BY DEF TypeInv, TypeOK, SubRec

\* The judge accepts.
LEMMA JudgeAcceptsTypes ==
  ASSUME TypeInv, NEW h \in Sessions, NEW s \in Subs, NEW where \in Judges \X Contests,
         NEW n \in Numbers, JudgeAccepts(h, s, where, n)
  PROVE  TypeInv'
<1> DEFINE x == [session[h] EXCEPT !.pc = "answered", !.new = [@ EXCEPT !.number = n]]
           new == [NoSub EXCEPT !.run = session[h].run, !.judge = where[1],
                                !.contest = where[2], !.number = n]
<1>1. At(h, "submit", "loaded")
  BY DEF JudgeAccepts
<1>2. session[h].run \in Runs
  BY <1>1, AtWork, FreeDoesNothing DEF At
<1>3. x \in Loading /\ Assigned(x) /\ Addressed(x, sub')
  BY <1>1, NumberedSession
<1>4. session' = [session EXCEPT ![h] = x]
  BY DEF JudgeAccepts, TypeInv, TypeOK
<1>5. new \in SubRec /\ new # NoSub
  BY <1>2, ConstantsAssumption DEF NoSub, SubRec
<1>6. sub' = [sub EXCEPT ![s] = new]
  BY DEF JudgeAccepts
<1> HIDE DEF new, x
<1>7. /\ sub' \in [Subs -> SubRec]
      /\ \A t \in Subs : sub[t] # NoSub => sub'[t] # NoSub
  BY <1>5, <1>6 DEF TypeInv, TypeOK
<1>8. \A m \in mail' : sub'[m.sub] # NoSub
  BY <1>7 DEF JudgeAccepts, TypeInv, TypeOK, Message
<1> QED
  BY <1>3, <1>4, <1>7, <1>8, OneSession DEF JudgeAccepts, TypeInv, TypeOK

\* It refuses.
LEMMA JudgeRefusesTypes ==
  ASSUME TypeInv, NEW h \in Sessions, JudgeRefuses(h)
  PROVE  TypeInv'
<1> DEFINE x == [session[h] EXCEPT !.pc = "answered",
                   !.new = [@ EXCEPT !.number = None, !.status = SubmitError]]
<1>1. At(h, "submit", "loaded")
  BY DEF JudgeRefuses
<1>2. x \in Loading /\ Assigned(x) /\ Addressed(x, sub')
  BY <1>1, AnsweredSession
<1>3. session' = [session EXCEPT ![h] = x]
  BY DEF JudgeRefuses, TypeInv, TypeOK
<1>4. used' \in 0 .. MaxEvents
  BY ConstantsAssumption DEF JudgeRefuses, Spend, TypeInv, TypeOK
<1> HIDE DEF x
<1> QED
  BY <1>2, <1>3, <1>4, OneSession DEF JudgeRefuses, TypeInv, TypeOK

\* What storing a protocol leaves.
LEMMA StoredTypes ==
  ASSUME TypeInv, NEW r \in Runs, Store(r)
  PROVE  doc' \in [Docs -> Runs \cup {None, Gone}] /\ withdrawn' \subseteq Runs
BY DEF TypeInv, TypeOK, Store

\* submit_task stores why it failed.
LEMMA StoreErrorTypes ==
  ASSUME TypeInv, NEW h \in Sessions, StoreError(h)
  PROVE  TypeInv'
<1>1. session[h].run \in Runs
  BY FreeDoesNothing, AtWork DEF StoreError, At
<1>2. doc' \in [Docs -> Runs \cup {None, Gone}] /\ withdrawn' \subseteq Runs
  BY <1>1, StoredTypes DEF StoreError
<1> QED
  BY <1>2, Closed DEF StoreError, TypeInv, TypeOK

\* What a session has after the commit of a failure.
LEMMA ErredSession ==
  ASSUME TypeInv, NEW h \in Sessions, At(h, "submit", "answered"), Goto(h, "erred")
  PROVE  LET x == [session[h] EXCEPT !.pc = "erred"] IN
         /\ session' = [session EXCEPT ![h] = x]
         /\ x \in Loading /\ Assigned(x)
         /\ x.op = "submit" /\ x.new = session[h].new
<1> DEFINE x == [session[h] EXCEPT !.pc = "erred"]
<1>1. session[h] \in Loading /\ Assigned(session[h]) /\ session[h].op = "submit"
  BY FreeDoesNothing, AtWork DEF At
<1>2. /\ x \in Loading /\ x.op = "submit" /\ x.pc = "erred"
      /\ x.seen = session[h].seen /\ x.new = session[h].new
  BY <1>1 DEF Loading
<1>3. session' = [session EXCEPT ![h] = x]
  BY DEF Goto, TypeInv, TypeOK
<1>4. Assigned(x)
  <2> HIDE DEF x
  <2> QED
    BY <1>1, <1>2 DEF Assigned
<1> QED
  BY <1>2, <1>3, <1>4

\* The commit of submit_task.
LEMMA SubmitCommitTypes ==
  ASSUME TypeInv, NEW h \in Sessions, SubmitCommit(h)
  PROVE  TypeInv'
<1>1. session[h] # Free
  BY FreeDoesNothing DEF SubmitCommit, At
<1>2. row' \in [Runs -> Row] /\ session[h].run \in Runs
  BY <1>1, FlushedRow, AtWork DEF SubmitCommit
<1>3. loose' \subseteq Runs
  BY <1>2, Marked DEF SubmitCommit, TypeInv, TypeOK
<1>4. by' \in [Runs -> Subs \cup {None}]
  BY DEF SubmitCommit, TypeInv, TypeOK
<1>5. CASE Close(h)
  BY <1>2, <1>3, <1>4, <1>5, Closed DEF SubmitCommit, TypeInv, TypeOK
<1>6. CASE Goto(h, "erred")
  <2> DEFINE x == [session[h] EXCEPT !.pc = "erred"]
  <2>1. /\ session' = [session EXCEPT ![h] = x]
        /\ x \in Loading /\ Assigned(x) /\ x.op = "submit"
    BY <1>6, ErredSession DEF SubmitCommit
  <2> HIDE DEF x
  <2>2. Addressed(x, sub')
    BY <2>1 DEF Addressed
  <2> QED
    BY <1>2, <1>3, <1>4, <2>1, <2>2, OneSession DEF SubmitCommit, TypeInv, TypeOK
<1> QED
  BY <1>5, <1>6 DEF SubmitCommit

\* A notification leaves the judge.
LEMMA JudgeNotifiesTypes ==
  ASSUME TypeInv, NEW s \in Subs, NEW v \in Verdicts, JudgeNotifies(s, v)
  PROVE  TypeInv'
<1>1. sub[s] # NoSub
  BY DEF JudgeNotifies
<1>2. [sub[s] EXCEPT !.final = v.status \notin NonTerminal] \in
        [run : Runs, judge : Judges, contest : Contests, number : Numbers, final : BOOLEAN]
  BY <1>1, Submissions
<1>3. /\ sub' \in [Subs -> SubRec]
      /\ \A t \in Subs : sub[t] # NoSub => sub'[t] # NoSub
  BY <1>2, ConstantsAssumption DEF JudgeNotifies, TypeInv, TypeOK, SubRec, NoSub
<1>4. mail' \subseteq Message /\ \A m \in mail' : sub'[m.sub] # NoSub
  <2> DEFINE m == [sub |-> s, verdict |-> v, stored |-> FALSE]
  <2>1. m \in Message /\ m.sub = s
    BY DEF Message
  <2>2. mail' = mail \cup {m}
    BY DEF JudgeNotifies
  <2>3. mail \subseteq Message /\ \A t \in mail : t.sub \in Subs /\ sub[t.sub] # NoSub
    BY DEF TypeInv, TypeOK, Message
  <2> HIDE DEF m
  <2> QED
    BY <1>1, <1>3, <2>1, <2>2, <2>3
<1>5. \A g \in Sessions : Addressed(session[g], sub')
  <2> SUFFICES ASSUME NEW g \in Sessions, session[g].op = "v1"
               PROVE  sub'[session[g].message.sub] # NoSub
    BY DEF Addressed
  <2>1. session[g] # Free
    BY FreeDoesNothing
  <2>2. session[g].message.sub \in Subs
    BY <2>1, AtWork DEF Assigned, Message
  <2>3. sub[session[g].message.sub] # NoSub
    BY DEF TypeInv, Addressed
  <2> QED
    BY <1>3, <2>2, <2>3
<1> QED
  BY <1>3, <1>4, <1>5 DEF JudgeNotifies, TypeInv, TypeOK

\* The load of the older notification.
LEMMA V1FindTypes ==
  ASSUME TypeInv, NEW h \in Sessions, NEW m \in mail, V1Find(h, m)
  PROVE  TypeInv'
<1>1. PICK r \in Runs : session' = [session EXCEPT ![h] =
            [Loaded("v1", r, IF HasReport(m.verdict) THEN "found" ELSE "linked")
               EXCEPT !.message = m, !.new = Filled(@, m.verdict)]]
  BY DEF V1Find
<1> DEFINE pc == IF HasReport(m.verdict) THEN "found" ELSE "linked"
           x == [Loaded("v1", r, pc) EXCEPT !.message = m, !.new = Filled(@, m.verdict)]
<1>2. /\ row[r] \in Row /\ m \in Message /\ m.verdict \in Verdicts
      /\ sub[m.sub] # NoSub
  BY DEF TypeInv, TypeOK, Message
<1>3. x = [pc |-> pc, op |-> "v1", run |-> r, seen |-> row[r],
           new |-> Filled(row[r], m.verdict), message |-> m]
  <2> DEFINE y == [Loaded("v1", r, pc) EXCEPT !.message = m]
  <2>1. y = [pc |-> pc, op |-> "v1", run |-> r, seen |-> row[r], new |-> row[r],
             message |-> m]
    BY DEF Loaded
  <2>2. x = [y EXCEPT !.new = Filled(@, m.verdict)]
    OBVIOUS
  <2> HIDE DEF x, y, pc
  <2> QED
    BY <2>1, <2>2
<1>4. Filled(row[r], m.verdict) \in Row
  BY <1>2, FilledRow
<1>5. x \in Loading
  BY <1>2, <1>3, <1>4 DEF Loading
<1>6. /\ x.op = "v1" /\ x.seen = row[r] /\ x.new = Filled(row[r], m.verdict)
      /\ x.message = m
  BY <1>3
<1>7. Assigned(x)
  BY <1>2, <1>6, FilledRow DEF Assigned
<1>8. sub' = sub
  BY DEF V1Find
<1>9. Addressed(x, sub')
  BY <1>2, <1>6, <1>8 DEF Addressed
<1>10. session' = [session EXCEPT ![h] = x]
  BY <1>1
<1>11. used' \in 0 .. MaxEvents
  BY ConstantsAssumption DEF V1Find, Spend, TypeInv, TypeOK
<1> HIDE DEF x
<1> QED
  BY <1>5, <1>7, <1>9, <1>10, <1>11, OneSession DEF V1Find, TypeInv, TypeOK

\* A session of the older notification has a message about a submission.
LEMMA V1Session ==
  ASSUME TypeInv, NEW h \in Sessions, session[h].op = "v1"
  PROVE  /\ session[h] # Free
         /\ session[h] \in Loading /\ session[h].run \in Runs
         /\ session[h].message \in Message /\ session[h].message.sub \in Subs
         /\ session[h].message.verdict \in Verdicts
         /\ sub[session[h].message.sub] # NoSub
         /\ session[h].new = Filled(session[h].seen, session[h].message.verdict)
<1>1. session[h] # Free
  BY FreeDoesNothing
<1>2. session[h] \in Loading /\ session[h].run \in Runs /\ Assigned(session[h])
  BY <1>1, AtWork
<1>3. Addressed(session[h], sub)
  BY DEF TypeInv
<1> QED
  BY <1>1, <1>2, <1>3 DEF Assigned, Addressed, Message

\* It links the protocol.
LEMMA V1LinkTypes ==
  ASSUME TypeInv, NEW h \in Sessions, V1Link(h)
  PROVE  TypeInv'
<1>1. session[h].op = "v1"
  BY DEF V1Link, At
<1>2. session[h].run \in Runs
  BY <1>1, V1Session
<1>3. doc' \in [Docs -> Runs \cup {None, Gone}] /\ withdrawn' \subseteq Runs
  BY <1>1, <1>2, V1Session DEF V1Link, TypeInv, TypeOK, Docs
<1>4. CASE Close(h)
  BY <1>3, <1>4, Closed DEF V1Link, TypeInv, TypeOK
<1>5. CASE Goto(h, "linked")
  <2> DEFINE x == [session[h] EXCEPT !.pc = "linked"]
  <2>1. session[h] \in Loading /\ Assigned(session[h]) /\ Addressed(session[h], sub)
    BY <1>1, V1Session, AtWork DEF TypeInv
  <2>2. /\ x \in Loading /\ x.op = "v1" /\ x.seen = session[h].seen
        /\ x.new = session[h].new /\ x.message = session[h].message
    BY <1>1, <2>1 DEF Loading
  <2>3. sub' = sub
    BY DEF V1Link
  <2>4. Assigned(x) /\ Addressed(x, sub')
    <3> HIDE DEF x
    <3> QED
      BY <1>1, <2>1, <2>2, <2>3 DEF Assigned, Addressed
  <2>5. session' = [session EXCEPT ![h] = x]
    BY <1>5 DEF Goto, TypeInv, TypeOK
  <2> HIDE DEF x
  <2> QED
    BY <1>3, <2>2, <2>4, <2>5, OneSession DEF V1Link, TypeInv, TypeOK
<1> QED
  BY <1>4, <1>5 DEF V1Link

\* And writes the row.
LEMMA V1CommitTypes ==
  ASSUME TypeInv, NEW h \in Sessions, V1Commit(h)
  PROVE  TypeInv'
<1>1. session[h].op = "v1"
  BY DEF V1Commit, At
<1>2. session[h].message.sub \in Subs
  BY <1>1, V1Session
<1>3. row' \in [Runs -> Row] /\ session[h].run \in Runs
  BY <1>1, V1Session, FlushedRow DEF V1Commit
<1>4. loose' \subseteq Runs
  BY <1>3, Marked DEF V1Commit, Stale
<1>5. by' \in [Runs -> Subs \cup {None}]
  BY <1>2 DEF V1Commit, TypeInv, TypeOK
<1> QED
  BY <1>3, <1>4, <1>5, Closed DEF V1Commit, TypeInv, TypeOK

\* The newer one stores the protocol.
LEMMA StoreProtocolTypes ==
  ASSUME TypeInv, NEW m \in mail, StoreProtocol(m)
  PROVE  TypeInv'
<1>1. m \in Message /\ m.sub \in Subs /\ sub[m.sub] # NoSub /\ sub[m.sub].run \in Runs
  BY Submissions DEF TypeInv, TypeOK, Message
<1>2. mail' \subseteq Message /\ \A t \in mail' : sub'[t.sub] # NoSub
  <2> DEFINE n == [m EXCEPT !.stored = TRUE]
  <2>1. n \in Message /\ n.sub = m.sub
    BY <1>1 DEF Message
  <2>2. mail' = (mail \ {m}) \cup {n} /\ sub' = sub
    BY DEF StoreProtocol
  <2>3. mail \subseteq Message /\ \A t \in mail : sub[t.sub] # NoSub
    BY DEF TypeInv, TypeOK
  <2> HIDE DEF n
  <2> QED
    BY <1>1, <2>1, <2>2, <2>3
<1>3. doc' \in [Docs -> Runs \cup {None, Gone}] /\ withdrawn' \subseteq Runs
  BY <1>1, StoredTypes DEF StoreProtocol, TypeInv, TypeOK
<1> QED
  BY <1>2, <1>3 DEF StoreProtocol, TypeInv, TypeOK

\* And writes the row.
LEMMA UpdRunTypes ==
  ASSUME TypeInv, NEW m \in mail, UpdRun(m)
  PROVE  TypeInv'
<1> DEFINE s == sub[m.sub]
           x == Filled(row[s.run], m.verdict)
           y == [x EXCEPT !.number = s.number, !.contest = s.contest]
<1>1. /\ m \in Message /\ m.sub \in Subs /\ m.verdict \in Verdicts
      /\ s.run \in Runs /\ s.number \in Numbers /\ s.contest \in Contests
  BY Submissions DEF TypeInv, TypeOK, Message
<1>2. row[s.run] \in Row
  BY <1>1 DEF TypeInv, TypeOK
<1>3. x \in Row
  BY <1>1, <1>2, FilledRow
<1>4. y \in Row
  <2> HIDE DEF x, s
  <2> QED
    BY <1>1, <1>3 DEF Row
<1>5. CASE row' = [row EXCEPT ![s.run] = y] /\ by' = [by EXCEPT ![s.run] = m.sub]
           /\ Mark(s.run, None \in {m.verdict.score, m.verdict.test})
  <2>1. row' \in [Runs -> Row] /\ by' \in [Runs -> Subs \cup {None}]
    <3> HIDE DEF y, s
    <3> QED
      BY <1>1, <1>4, <1>5 DEF TypeInv, TypeOK
  <2>2. loose' \subseteq Runs
    BY <1>1, <1>5 DEF Mark, TypeInv, TypeOK
  <2> QED
    BY <2>1, <2>2 DEF UpdRun, TypeInv, TypeOK
<1>6. CASE UNCHANGED <<row, by, loose>>
  BY <1>6 DEF UpdRun, TypeInv, TypeOK
<1> QED
  BY <1>5, <1>6 DEF UpdRun

\* The initial state has its types.
LEMMA InitTypes ==
  ASSUME Init
  PROVE  TypeInv
<1>1. \A r \in Runs : [status |-> InQueue, score |-> None, test |-> None, number |-> None,
                       contest |-> ContestOf[r]] \in Row
  BY ConstantsAssumption DEF Row, Column, InQueue
<1>2. TypeOK
  BY <1>1, ConstantsAssumption DEF Init, TypeOK, SubRec
<1>3. \A h \in Sessions : session[h] = Free
  BY DEF Init
<1> QED
  BY <1>2, <1>3, FreeDoesNothing DEF Init, TypeInv

\* So has every other one.
LEMMA TypesInductive ==
  ASSUME TypeInv, [Next]_vars
  PROVE  TypeInv'
<1>1. ASSUME NEW h \in Sessions, HandlerStep(h) PROVE TypeInv'
  BY <1>1, RejudgeLoadTypes, PutLoadTypes, PutCommitTypes, RejudgeMoveTypes, RejudgeCommitTypes,
     V1FindTypes, V1LinkTypes, V1CommitTypes DEF HandlerStep
<1>2. ASSUME NEW h \in Sessions, TaskStep(h) PROVE TypeInv'
  BY <1>2, SubmitLoadTypes, JudgeAcceptsTypes, JudgeRefusesTypes, SubmitCommitTypes,
     StoreErrorTypes DEF TaskStep
<1>3. ASSUME JudgeStep PROVE TypeInv'
  BY <1>3, JudgeNotifiesTypes, StoreProtocolTypes, UpdRunTypes DEF JudgeStep
<1>4. CASE UNCHANGED vars
  BY <1>4 DEF vars, TypeInv, TypeOK, Addressed
<1> QED
  BY <1>1, <1>2, <1>3, <1>4, DieTypes DEF Next

\* Every reachable row has its types, and so have the sessions that work on it.
THEOREM TypeCorrect == Spec => []TypeOK
<1>1. TypeInv => TypeOK
  BY DEF TypeInv
<1> QED
  BY <1>1, InitTypes, TypesInductive, PTL DEF Spec

-----------------------------------------------------------------------------
(***************************************************************************)
(* RowIsOneVerdict                                                         *)
(***************************************************************************)

\* The columns of r belong together.
OneVerdict(r) == r \in loose \/ Triple(row[r]) \in Blanks \cup Verdicts

\* A write of one row leaves the others together.
LEMMA OneRowWritten ==
  ASSUME TypeInv, RowIsOneVerdict, NEW r \in Runs, NEW x,
         row' = [row EXCEPT ![r] = x],
         \A q \in Runs \ {r} : q \in loose => q \in loose',
         r \in loose' \/ Triple(x) \in Blanks \cup Verdicts
  PROVE  RowIsOneVerdict'
<1> SUFFICES ASSUME NEW q \in Runs PROVE OneVerdict(q)'
  BY DEF RowIsOneVerdict, OneVerdict
<1>1. row'[q] = IF q = r THEN x ELSE row[q]
  BY DEF TypeInv, TypeOK
<1>2. CASE q = r
  BY <1>1, <1>2 DEF OneVerdict
<1>3. CASE q # r
  BY <1>1, <1>3 DEF OneVerdict, RowIsOneVerdict
<1> QED
  BY <1>2, <1>3

\* The columns of a merge.
LEMMA MergedTriple ==
  ASSUME NEW old \in Row, NEW seen \in Row, NEW new \in Row
  PROVE  /\ Triple(seen) = Triple(old) => Triple(Merge(old, seen, new)) = Triple(new)
         /\ Triple(seen) = Triple(new) => Triple(Merge(old, seen, new)) = Triple(old)
BY MergeRow DEF Triple

\* The columns of a verdict that names all of them.
LEMMA WholeVerdict ==
  ASSUME NEW x \in Row, NEW v \in Verdicts, None \notin {v.score, v.test}
  PROVE  Triple(Filled(x, v)) \in Verdicts
<1>1. v \in Verdict
  BY ConstantsAssumption
<1>2. v = [status |-> v.status, score |-> v.score, test |-> v.test]
  BY <1>1 DEF Verdict
<1> QED
  BY <1>2, FilledRow DEF Triple

\* A row of a run in the queue is blank.
LEMMA OnTheWayIsBlank ==
  ASSUME NEW x, Triple(x) \in Blanks \cup Verdicts, x.status \in NonTerminal
  PROVE  x.score = None /\ x.test = None
<1>1. CASE Triple(x) \in Blanks
  BY <1>1 DEF Blanks, Triple
<1>2. CASE Triple(x) \in Verdicts
  <2>1. OnTheWay(Triple(x))
    BY DEF OnTheWay, Triple
  <2>2. Triple(x).score = None /\ Triple(x).test = None
    BY <1>2, <2>1, ConstantsAssumption
  <2> QED
    BY <2>2 DEF Triple
<1> QED
  BY <1>1, <1>2

\* The commit of RunAPI.put loosens the row.
LEMMA PutCommitOne ==
  ASSUME TypeInv, RowIsOneVerdict, NEW h \in Sessions, PutCommit(h)
  PROVE  RowIsOneVerdict'
<1>1. session[h] # Free
  BY FreeDoesNothing DEF PutCommit, At
<1>2. /\ session[h].run \in Runs
      /\ row' = [row EXCEPT ![session[h].run] = Merge(row[session[h].run], session[h].seen, session[h].new)]
  BY <1>1, AtWork, FlushedRow DEF PutCommit
<1>3. loose' = loose \cup {session[h].run}
  BY DEF PutCommit, Mark
<1> QED
  BY <1>2, <1>3, OneRowWritten

\* A rejudge that has seen the last verdict leaves a blank row.
LEMMA RejudgeCommitOne ==
  ASSUME TypeInv, RowIsOneVerdict, NEW h \in Sessions, RejudgeCommit(h)
  PROVE  RowIsOneVerdict'
<1> DEFINE s == session[h]
           r == s.run
           x == Merge(row[r], s.seen, s.new)
<1>1. s # Free /\ s.op = "rejudge" /\ s.pc = "moved"
  BY FreeDoesNothing DEF RejudgeCommit, At
<1>2. /\ r \in Runs /\ row[r] \in Row /\ s.seen \in Row /\ s.new \in Row
      /\ row' = [row EXCEPT ![r] = x]
      /\ Triple(s.new) = Blank
  BY <1>1, AtWork, FlushedRow DEF RejudgeCommit, Assigned
<1>3. CASE Stale(h)
  <2>1. loose' = loose \cup {r}
    BY <1>3 DEF RejudgeCommit, Mark
  <2> HIDE DEF x, r
  <2> QED
    BY <1>2, <2>1, OneRowWritten
<1>4. CASE ~Stale(h)
  <2>1. loose' = loose \ {r}
    BY <1>4 DEF RejudgeCommit, Mark
  <2>2. Triple(x) = Blank
    BY <1>2, <1>4, MergedTriple DEF Stale
  <2>3. Blank \in Blanks
    BY DEF Blank, Blanks, InQueue, NonTerminal
  <2> HIDE DEF x, r
  <2> QED
    BY <1>2, <2>1, <2>2, <2>3, OneRowWritten
<1> QED
  BY <1>3, <1>4

\* submit_task writes no more than a status 520, over blank columns if not over a verdict.
LEMMA SubmitCommitOne ==
  ASSUME TypeInv, RowIsOneVerdict, NEW h \in Sessions, SubmitCommit(h)
  PROVE  RowIsOneVerdict'
<1> DEFINE s == session[h]
           r == s.run
           x == Merge(row[r], s.seen, s.new)
           failed == Refused(h) /\ (Stale(h) \/ row[r].status \notin NonTerminal)
<1>1. s # Free /\ s.op = "submit"
  BY FreeDoesNothing DEF SubmitCommit, At
<1>2. /\ r \in Runs /\ row[r] \in Row /\ s.seen \in Row /\ s.new \in Row
      /\ row' = [row EXCEPT ![r] = x]
      /\ s.new.score = s.seen.score /\ s.new.test = s.seen.test
      /\ s.new.status = s.seen.status \/ (s.new.status = SubmitError /\ Refused(h))
  BY <1>1, AtWork, FlushedRow DEF SubmitCommit, Assigned, Refused
<1>3. CASE failed
  <2>1. loose' = loose \cup {r}
    BY <1>3 DEF SubmitCommit, Mark
  <2> HIDE DEF x, r
  <2> QED
    BY <1>2, <2>1, OneRowWritten
<1>4. CASE ~failed /\ s.new.status = s.seen.status
  <2>1. loose' = loose
    BY <1>4 DEF SubmitCommit
  <2>2. Triple(x) = Triple(row[r])
    BY <1>2, <1>4, MergedTriple DEF Triple
  <2>3. r \in loose \/ Triple(row[r]) \in Blanks \cup Verdicts
    BY <1>2 DEF RowIsOneVerdict
  <2> HIDE DEF x, r
  <2> QED
    BY <1>2, <2>1, <2>2, <2>3, OneRowWritten
<1>5. CASE ~failed /\ s.new.status # s.seen.status
  <2>1. loose' = loose
    BY <1>5 DEF SubmitCommit
  <2>2. ~Stale(h) /\ row[r].status \in NonTerminal /\ s.new.status = SubmitError
    BY <1>2, <1>5
  <2>3. Triple(x) = Triple(s.new) /\ Triple(s.seen) = Triple(row[r])
    BY <1>2, <2>2, MergedTriple DEF Stale
  <2>4. s.new.score = row[r].score /\ s.new.test = row[r].test
    BY <1>2, <2>3 DEF Triple
  <2>5. ASSUME r \notin loose PROVE Triple(x) \in Blanks
    <3>1. row[r].score = None /\ row[r].test = None
      BY <1>2, <2>2, <2>5, OnTheWayIsBlank DEF RowIsOneVerdict
    <3> QED
      BY <2>2, <2>3, <2>4, <3>1 DEF Triple, Blanks
  <2> HIDE DEF x, r
  <2> QED
    BY <1>2, <2>1, <2>5, OneRowWritten
<1> QED
  BY <1>3, <1>4, <1>5

\* The older notification writes a whole verdict over what it has seen.
LEMMA V1CommitOne ==
  ASSUME TypeInv, RowIsOneVerdict, NEW h \in Sessions, V1Commit(h)
  PROVE  RowIsOneVerdict'
<1> DEFINE s == session[h]
           r == s.run
           v == s.message.verdict
           x == Merge(row[r], s.seen, s.new)
<1>1. s.op = "v1"
  BY DEF V1Commit, At
<1>2. /\ r \in Runs /\ row[r] \in Row /\ s.seen \in Row /\ s.new \in Row
      /\ row' = [row EXCEPT ![r] = x]
      /\ v \in Verdicts /\ s.new = Filled(s.seen, v)
  BY <1>1, V1Session, AtWork, FlushedRow DEF V1Commit
<1>3. CASE Stale(h) \/ None \in {v.score, v.test}
  <2>1. loose' = loose \cup {r}
    BY <1>3 DEF V1Commit, Mark
  <2> HIDE DEF x, r
  <2> QED
    BY <1>2, <2>1, OneRowWritten
<1>4. CASE ~Stale(h) /\ None \notin {v.score, v.test}
  <2>1. loose' = loose \ {r}
    BY <1>4 DEF V1Commit, Mark
  <2>2. Triple(x) = Triple(s.new)
    BY <1>2, <1>4, MergedTriple DEF Stale
  <2>3. Triple(s.new) \in Verdicts
    BY <1>2, <1>4, WholeVerdict
  <2> HIDE DEF x, r
  <2> QED
    BY <1>2, <2>1, <2>2, <2>3, OneRowWritten
<1> QED
  BY <1>3, <1>4

\* So does the newer one, whatever is there.
LEMMA UpdRunOne ==
  ASSUME TypeInv, RowIsOneVerdict, NEW m \in mail, UpdRun(m)
  PROVE  RowIsOneVerdict'
<1> DEFINE s == sub[m.sub]
           v == m.verdict
           y == Filled(row[s.run], v)
           x == [y EXCEPT !.number = s.number, !.contest = s.contest]
<1>1. CASE UNCHANGED <<row, by, loose>>
  BY <1>1 DEF RowIsOneVerdict
<1>2. CASE /\ row' = [row EXCEPT ![s.run] = x]
           /\ Mark(s.run, None \in {v.score, v.test})
  <2>1. s.run \in Runs /\ row[s.run] \in Row /\ v \in Verdicts
    BY Submissions DEF TypeInv, TypeOK, Message
  <2>2. y \in Row
    BY <2>1, FilledRow
  <2>3. Triple(x) = Triple(y)
    BY <2>2 DEF Triple, Row
  <2>4. CASE None \in {v.score, v.test}
    <3>1. loose' = loose \cup {s.run}
      BY <1>2, <2>4 DEF Mark
    <3> HIDE DEF x, s
    <3> QED
      BY <1>2, <2>1, <3>1, OneRowWritten
  <2>5. CASE None \notin {v.score, v.test}
    <3>1. loose' = loose \ {s.run}
      BY <1>2, <2>5 DEF Mark
    <3>2. Triple(x) \in Verdicts
      BY <2>1, <2>3, <2>5, WholeVerdict
    <3> HIDE DEF x, s
    <3> QED
      BY <1>2, <2>1, <3>1, <3>2, OneRowWritten
  <2> QED
    BY <2>4, <2>5
<1> QED
  BY <1>1, <1>2 DEF UpdRun

\* Only commits and upd_run write rows.
LEMMA OneVerdictInductive ==
  ASSUME TypeInv, RowIsOneVerdict, [Next]_vars
  PROVE  RowIsOneVerdict'
<1>1. ASSUME UNCHANGED <<row, loose>> PROVE RowIsOneVerdict'
  BY <1>1 DEF RowIsOneVerdict
<1>2. ASSUME NEW h \in Sessions, HandlerStep(h) PROVE RowIsOneVerdict'
  BY <1>1, <1>2, PutCommitOne, RejudgeCommitOne, V1CommitOne
     DEF HandlerStep, RejudgeLoad, PutLoad, RejudgeMove, V1Find, V1Link
<1>3. ASSUME NEW h \in Sessions, TaskStep(h) PROVE RowIsOneVerdict'
  BY <1>1, <1>3, SubmitCommitOne DEF TaskStep, SubmitLoad, JudgeAccepts, JudgeRefuses, StoreError
<1>4. ASSUME JudgeStep PROVE RowIsOneVerdict'
  BY <1>1, <1>4, UpdRunOne DEF JudgeStep, JudgeNotifies, StoreProtocol
<1> QED
  BY <1>1, <1>2, <1>3, <1>4 DEF Next, Die, vars

\* Status, score and test number of a row come from one verdict, in every
\* interleaving of the five writers, but for the rows that a partial or an
\* uninformed write made loose.
THEOREM RowsAreOneVerdict == Spec => []RowIsOneVerdict
<1>1. Init => RowIsOneVerdict
  <2> SUFFICES ASSUME Init, NEW r \in Runs PROVE Triple(row[r]) \in Blanks
    BY DEF RowIsOneVerdict
  <2>1. Triple(row[r]) = Blank
    BY DEF Init, Triple, Blank
  <2> QED
    BY <2>1 DEF Blank, Blanks, InQueue, NonTerminal
<1> QED
  BY <1>1, InitTypes, TypesInductive, OneVerdictInductive, PTL DEF Spec

-----------------------------------------------------------------------------
(***************************************************************************)
(* VerdictIsOwn                                                            *)
(***************************************************************************)

\* Some submission of r, among subs, is in another contest than that of its problem.
Elsewhere(r, subs) == \E u \in Subs : subs[u].run = r /\ subs[u].contest # ContestOf[r]

\* A submission of r has the number n.
Has(r, n, subs) == \E t \in Subs : subs[t].run = r /\ subs[t].number = n

\* The verdict of s may be written to r.
Own(r, s, subs) ==
  \/ subs[s].run = r
  \/ \E t, u \in Subs :
       /\ subs[t].run = r /\ subs[t].number = subs[s].number
       /\ subs[u].run = r
       /\ subs[t].judge # subs[s].judge \/ subs[u].contest # ContestOf[r]

\* A judge gives a number once in a contest.
NumbersDiffer ==
  \A s, t \in Subs :
    /\ sub[s] # NoSub /\ sub[t] # NoSub
    /\ sub[s].judge = sub[t].judge /\ sub[s].contest = sub[t].contest
    /\ sub[s].number = sub[t].number
    => s = t

\* Numbers differ; the number of a row is that of one of its
\* submissions, its contest that of the problem or of one of them; what a session is
\* about to write will be so too.
OwnInv ==
  /\ NumbersDiffer
  /\ \A r \in Runs : row[r].number = None \/ Has(r, row[r].number, sub)
  /\ \A r \in Runs : row[r].contest = ContestOf[r] \/ Elsewhere(r, sub)
  /\ \A h \in Sessions : session[h].op = "submit" =>
       \/ session[h].new.number \in {session[h].seen.number, None}
       \/ Has(session[h].run, session[h].new.number, sub)
  /\ \A h \in Sessions : session[h].op = "v1" => Own(session[h].run, session[h].message.sub, sub)
  /\ VerdictIsOwn

\* Judges keep what they accepted.
Kept == \A t \in Subs : sub[t] # NoSub =>
          /\ sub'[t].run = sub[t].run /\ sub'[t].judge = sub[t].judge
          /\ sub'[t].contest = sub[t].contest /\ sub'[t].number = sub[t].number

\* The submission of a run is one.
LEMMA OfRun ==
  ASSUME NEW t \in Subs, sub[t].run \in Runs \/ sub[t].number \in Numbers
  PROVE  sub[t] # NoSub
BY ConstantsAssumption DEF NoSub

\* What is said of the submissions of a run stays true.
LEMMA KeptFacts ==
  ASSUME TypeInv, Kept, NEW r \in Runs
  PROVE  /\ Elsewhere(r, sub) => Elsewhere(r, sub')
         /\ \A n : Has(r, n, sub) => Has(r, n, sub')
         /\ \A s \in Subs : Own(r, s, sub) => Own(r, s, sub')
<1>1. \A t \in Subs : sub[t].run = r => sub[t] # NoSub
  BY OfRun
<1>2. Elsewhere(r, sub) => Elsewhere(r, sub')
  BY <1>1 DEF Kept, Elsewhere
<1>3. \A n : Has(r, n, sub) => Has(r, n, sub')
  BY <1>1 DEF Kept, Has
<1>4. ASSUME NEW s \in Subs, sub[s].run = r PROVE Own(r, s, sub')
  BY <1>1, <1>4 DEF Kept, Own
<1>5. ASSUME NEW s \in Subs, Own(r, s, sub), sub[s].run # r PROVE Own(r, s, sub')
  <2>1. PICK t \in Subs, u \in Subs :
          /\ sub[t].run = r /\ sub[t].number = sub[s].number
          /\ sub[u].run = r
          /\ sub[t].judge # sub[s].judge \/ sub[u].contest # ContestOf[r]
    BY <1>5 DEF Own
  <2>2. sub[t] # NoSub /\ sub[u] # NoSub
    BY <1>1, <2>1
  <2>3. sub[s] # NoSub
    BY <2>1, <2>2, Submissions, OfRun
  <2> QED
    BY <2>1, <2>2, <2>3 DEF Kept, Own
<1> QED
  BY <1>2, <1>3, <1>4, <1>5 DEF Own

\* Submissions that no judge touches are kept.
LEMMA SameSubs ==
  ASSUME sub' = sub
  PROVE  Kept
BY DEF Kept

\* An accepted submission has a number that no other has.
LEMMA AcceptedKept ==
  ASSUME TypeInv, NEW h \in Sessions, NEW s \in Subs, NEW where \in Judges \X Contests,
         NEW n \in Numbers, JudgeAccepts(h, s, where, n)
  PROVE  /\ Kept
         /\ sub'[s].run = session[h].run /\ sub'[s].judge = where[1]
         /\ sub'[s].contest = where[2] /\ sub'[s].number = n
         /\ \A t \in Subs \ {s} : sub'[t] = sub[t]
BY DEF JudgeAccepts, Kept, TypeInv, TypeOK, NoSub

\* A notified submission is the same.
LEMMA NotifiedKept ==
  ASSUME TypeInv, NEW s \in Subs, NEW v \in Verdicts, JudgeNotifies(s, v)
  PROVE  /\ Kept
         /\ \A t \in Subs : sub'[t] # NoSub => sub[t] # NoSub
         /\ \A t \in Subs :
              /\ sub'[t].run = sub[t].run /\ sub'[t].judge = sub[t].judge
              /\ sub'[t].contest = sub[t].contest /\ sub'[t].number = sub[t].number
<1>1. sub[s] \in [run : Runs, judge : Judges, contest : Contests, number : Numbers,
                  final : BOOLEAN] /\ sub[s] # NoSub
  BY Submissions DEF JudgeNotifies
<1>2. \A t \in Subs : sub'[t] = IF t = s THEN [sub[s] EXCEPT !.final = v.status \notin NonTerminal]
                                ELSE sub[t]
  BY DEF JudgeNotifies, TypeInv, TypeOK
<1> QED
  BY <1>1, <1>2 DEF Kept

\* The submission that a row leads to.
LEMMA FoundIsOwn ==
  ASSUME TypeInv, OwnInv, NEW r \in Runs, NEW s \in Subs, sub[s] # NoSub, r \in Found(s)
  PROVE  Own(r, s, sub)
<1>1. row[r].number = sub[s].number /\ row[r].contest = sub[s].contest
  BY DEF Found
<1>2. row[r].number # None
  BY <1>1, Submissions, ConstantsAssumption
<1>3. PICK t \in Subs : sub[t].run = r /\ sub[t].number = row[r].number
  BY <1>2 DEF OwnInv, Has
<1>4. CASE Elsewhere(r, sub)
  BY <1>1, <1>3, <1>4 DEF Elsewhere, Own
<1>5. CASE ~Elsewhere(r, sub)
  <2>1. sub[t] # NoSub
    BY <1>3, OfRun
  <2>2. sub[t].contest = ContestOf[r] /\ row[r].contest = ContestOf[r]
    BY <1>3, <1>5 DEF OwnInv, Elsewhere
  <2>3. CASE sub[t].judge = sub[s].judge
    BY <1>1, <1>3, <2>1, <2>2, <2>3 DEF OwnInv, NumbersDiffer, Own
  <2>4. CASE sub[t].judge # sub[s].judge
    BY <1>1, <1>3, <2>4 DEF Own
  <2> QED
    BY <2>3, <2>4
<1> QED
  BY <1>4, <1>5

\* A step keeps OwnInv if what it writes is linked to a submission.
LEMMA OwnStep ==
  ASSUME TypeInv, OwnInv, Kept, TypeInv', NumbersDiffer',
         \A r \in Runs :
           /\ row'[r].number \in {row[r].number, None} \/ Has(r, row'[r].number, sub')
           /\ row'[r].contest = row[r].contest \/ Elsewhere(r, sub')
           /\ by'[r] \in {by[r], None} \/ Own(r, by'[r], sub'),
         \A h \in Sessions : session'[h] # session[h] =>
           /\ session'[h].op = "submit" =>
                \/ session'[h].new.number \in {session'[h].seen.number, None}
                \/ Has(session'[h].run, session'[h].new.number, sub')
           /\ session'[h].op = "v1" => Own(session'[h].run, session'[h].message.sub, sub')
  PROVE  OwnInv'
<1>1. ASSUME NEW r \in Runs PROVE row'[r].number = None \/ Has(r, row'[r].number, sub')
  BY KeptFacts DEF OwnInv
<1>2. ASSUME NEW r \in Runs PROVE row'[r].contest = ContestOf[r] \/ Elsewhere(r, sub')
  BY KeptFacts DEF OwnInv
<1>3. ASSUME NEW h \in Sessions, session'[h].op = "submit"
      PROVE  \/ session'[h].new.number \in {session'[h].seen.number, None}
             \/ Has(session'[h].run, session'[h].new.number, sub')
  <2>1. CASE session'[h] # session[h]
    BY <1>3, <2>1
  <2>2. CASE session'[h] = session[h]
    <3>1. session[h].run \in Runs
      BY <1>3, <2>2, AtWork, FreeDoesNothing
    <3> QED
      BY <1>3, <2>2, <3>1, KeptFacts DEF OwnInv
  <2> QED
    BY <2>1, <2>2
<1>4. ASSUME NEW h \in Sessions, session'[h].op = "v1"
      PROVE  Own(session'[h].run, session'[h].message.sub, sub')
  <2>1. CASE session'[h] # session[h]
    BY <1>4, <2>1
  <2>2. CASE session'[h] = session[h]
    <3>1. /\ session[h].run \in Runs /\ session[h].message.sub \in Subs
          /\ Own(session[h].run, session[h].message.sub, sub)
      BY <1>4, <2>2, V1Session DEF OwnInv
    <3>2. Own(session[h].run, session[h].message.sub, sub)
             => \A r \in Runs, s \in Subs :
                  r = session'[h].run /\ s = session'[h].message.sub => Own(r, s, sub')
      BY <2>2, KeptFacts
    <3> QED
      BY <2>2, <3>1, <3>2
  <2> QED
    BY <2>1, <2>2
<1>5. ASSUME NEW r \in Runs, by'[r] # None PROVE Own(r, by'[r], sub')
  <2>1. CASE by'[r] \in {by[r], None}
    <3>1. by'[r] = by[r] /\ by[r] \in Subs
      BY <1>5, <2>1 DEF TypeInv, TypeOK
    <3>2. Own(r, by[r], sub)
      BY <3>1, <1>5 DEF OwnInv, VerdictIsOwn, Own, Astray
    <3>3. \A s \in Subs : s = by[r] => Own(r, s, sub')
      BY <3>2, KeptFacts
    <3> QED
      BY <3>1, <3>3
  <2> QED
    BY <2>1
<1>6. VerdictIsOwn'
  BY <1>5 DEF VerdictIsOwn, Own, Astray
<1> QED
  BY <1>1, <1>2, <1>3, <1>4, <1>6 DEF OwnInv

\* A step of one session that writes no row keeps OwnInv.
LEMMA OwnSession ==
  ASSUME TypeInv, OwnInv, TypeInv', NEW h \in Sessions, NEW x,
         session' = [session EXCEPT ![h] = x],
         row' = row, sub' = sub, by' = by,
         x.op = "submit" => \/ x.new.number \in {x.seen.number, None}
                            \/ Has(x.run, x.new.number, sub),
         x.op = "v1" => Own(x.run, x.message.sub, sub)
  PROVE  OwnInv'
<1>1. NumbersDiffer'
  BY DEF OwnInv, NumbersDiffer
<1>2. \A g \in Sessions : session'[g] = IF g = h THEN x ELSE session[g]
  BY DEF TypeInv, TypeOK
<1>3. Kept
  BY SameSubs
<1> QED
  BY <1>1, <1>2, <1>3, OwnStep

\* The row that a session commits.
LEMMA CommittedLinks ==
  ASSUME TypeInv, OwnInv, NEW h \in Sessions, session[h] # Free, Flush(h), NEW r \in Runs
  PROVE  /\ row'[r].number \in {row[r].number, None} \/ Has(r, row'[r].number, sub)
         /\ row'[r].contest = row[r].contest
<1> DEFINE s == session[h]
           x == Merge(row[s.run], s.seen, s.new)
<1>1. /\ s.run \in Runs /\ s.seen \in Row /\ s.new \in Row /\ row[s.run] \in Row
      /\ Assigned(s)
      /\ row' = [row EXCEPT ![s.run] = x]
  BY AtWork, FlushedRow
<1>2. row'[r] = IF r = s.run THEN x ELSE row[r]
  BY <1>1 DEF TypeInv, TypeOK
<1>3. /\ x.number = IF s.new.number # s.seen.number THEN s.new.number ELSE row[s.run].number
      /\ x.contest = row[s.run].contest
  BY <1>1, MergeRow DEF Assigned
<1>4. \/ s.new.number = s.seen.number \/ s.new.number = None
      \/ Has(s.run, s.new.number, sub)
  BY <1>1 DEF Assigned, OwnInv
<1> HIDE DEF x
<1> QED
  BY <1>2, <1>3, <1>4

\* A commit keeps OwnInv.
LEMMA OwnCommit ==
  ASSUME TypeInv, OwnInv, TypeInv', NEW h \in Sessions, session[h] # Free,
         NEW x, session' = [session EXCEPT ![h] = x],
         x.op # "v1", x.op = "submit" => x.new.number = None,
         Flush(h), sub' = sub,
         \A r \in Runs : by'[r] \in {by[r], None} \/ Own(r, by'[r], sub)
  PROVE  OwnInv'
<1>1. NumbersDiffer'
  BY DEF OwnInv, NumbersDiffer
<1>2. \A g \in Sessions : session'[g] = IF g = h THEN x ELSE session[g]
  BY DEF TypeInv, TypeOK
<1>3. Kept
  BY SameSubs
<1>4. \A r \in Runs :
        /\ row'[r].number \in {row[r].number, None} \/ Has(r, row'[r].number, sub)
        /\ row'[r].contest = row[r].contest
  BY CommittedLinks
<1> QED
  BY <1>1, <1>2, <1>3, <1>4, OwnStep

\* Loads, deaths and the protocol of a failure write no row.
LEMMA QuietOwn ==
  ASSUME TypeInv, OwnInv, TypeInv', NEW h \in Sessions,
         \/ Die(h) \/ StoreError(h)
         \/ \E r \in Runs : RejudgeLoad(h, r) \/ SubmitLoad(h, r)
         \/ \E r \in Runs, a \in Puts : PutLoad(h, r, a)
  PROVE  OwnInv'
<1>1. CASE Die(h) \/ StoreError(h)
  BY <1>1, FreeDoesNothing, OwnSession DEF Die, StoreError, Close
<1>2. ASSUME NEW r \in Runs, RejudgeLoad(h, r) PROVE OwnInv'
  <2> DEFINE x == Loaded("rejudge", r, "loaded")
  <2>1. x.op = "rejudge"
    BY DEF Loaded
  <2>2. session' = [session EXCEPT ![h] = x] /\ row' = row /\ sub' = sub /\ by' = by
    BY <1>2 DEF RejudgeLoad
  <2> HIDE DEF x
  <2> QED
    BY <2>1, <2>2, OwnSession
<1>3. ASSUME NEW r \in Runs, SubmitLoad(h, r) PROVE OwnInv'
  <2> DEFINE x == Loaded("submit", r, "loaded")
  <2>1. x.op = "submit" /\ x.new = x.seen
    BY DEF Loaded
  <2>2. session' = [session EXCEPT ![h] = x] /\ row' = row /\ sub' = sub /\ by' = by
    BY <1>3 DEF SubmitLoad
  <2> HIDE DEF x
  <2> QED
    BY <2>1, <2>2, OwnSession
<1>4. ASSUME NEW r \in Runs, NEW a \in Puts, PutLoad(h, r, a) PROVE OwnInv'
  <2> DEFINE x == [Loaded("put", r, "assigned") EXCEPT !.new = Assign(@, a)]
  <2>1. x.op = "put"
    BY DEF Loaded
  <2>2. session' = [session EXCEPT ![h] = x] /\ row' = row /\ sub' = sub /\ by' = by
    BY <1>4 DEF PutLoad
  <2> HIDE DEF x
  <2> QED
    BY <2>1, <2>2, OwnSession
<1> QED
  BY <1>1, <1>2, <1>3, <1>4

\* So do the move of a rejudge, a refusal and the link.
LEMMA QuietOwn2 ==
  ASSUME TypeInv, OwnInv, TypeInv', NEW h \in Sessions,
         RejudgeMove(h) \/ JudgeRefuses(h) \/ V1Link(h)
  PROVE  OwnInv'
<1>1. CASE RejudgeMove(h)
  <2> DEFINE x == [session[h] EXCEPT !.pc = "moved", !.new = Assign(@, Blank)]
  <2>1. x.op = "rejudge"
    <3>1. session[h] \in Loading /\ session[h].op = "rejudge"
      BY <1>1, AtWork, FreeDoesNothing DEF RejudgeMove, At
    <3> QED
      BY <3>1 DEF Loading
  <2>2. session' = [session EXCEPT ![h] = x] /\ row' = row /\ sub' = sub /\ by' = by
    BY <1>1 DEF RejudgeMove, TypeInv, TypeOK
  <2> HIDE DEF x
  <2> QED
    BY <2>1, <2>2, OwnSession
<1>2. CASE JudgeRefuses(h)
  <2> DEFINE x == [session[h] EXCEPT !.pc = "answered",
                     !.new = [@ EXCEPT !.number = None, !.status = SubmitError]]
  <2>1. x.op = "submit" /\ x.new.number = None
    <3>1. session[h] \in Loading /\ session[h].op = "submit" /\ session[h].new \in Row
      BY <1>2, AtWork, FreeDoesNothing DEF JudgeRefuses, At
    <3> QED
      BY <3>1 DEF Loading, Row
  <2>2. session' = [session EXCEPT ![h] = x] /\ row' = row /\ sub' = sub /\ by' = by
    BY <1>2 DEF JudgeRefuses, TypeInv, TypeOK
  <2> HIDE DEF x
  <2> QED
    BY <2>1, <2>2, OwnSession
<1>3. CASE V1Link(h) /\ Close(h)
  BY <1>3, FreeDoesNothing, OwnSession DEF V1Link, Close
<1>4. CASE V1Link(h) /\ Goto(h, "linked")
  <2> DEFINE x == [session[h] EXCEPT !.pc = "linked"]
  <2>1. x.op = "v1" /\ x.run = session[h].run /\ x.message = session[h].message
    <3>1. session[h] \in Loading /\ session[h].op = "v1"
      BY <1>4, AtWork, FreeDoesNothing DEF V1Link, At
    <3> QED
      BY <3>1 DEF Loading
  <2>2. session' = [session EXCEPT ![h] = x] /\ row' = row /\ sub' = sub /\ by' = by
    BY <1>4 DEF V1Link, Goto, TypeInv, TypeOK
  <2>3. Own(x.run, x.message.sub, sub)
    BY <1>4, <2>1 DEF OwnInv, V1Link, At
  <2> HIDE DEF x
  <2> QED
    BY <2>1, <2>2, <2>3, OwnSession
<1> QED
  BY <1>1, <1>2, <1>3, <1>4 DEF V1Link

\* The judge gives a number that none of its submissions has.
LEMMA AcceptsOwn ==
  ASSUME TypeInv, OwnInv, TypeInv', NEW h \in Sessions, NEW s \in Subs,
         NEW where \in Judges \X Contests, NEW n \in Numbers, JudgeAccepts(h, s, where, n)
  PROVE  OwnInv'
<1> DEFINE x == [session[h] EXCEPT !.pc = "answered", !.new = [@ EXCEPT !.number = n]]
<1>1. /\ Kept
      /\ sub'[s].run = session[h].run /\ sub'[s].judge = where[1]
      /\ sub'[s].contest = where[2] /\ sub'[s].number = n
      /\ \A t \in Subs \ {s} : sub'[t] = sub[t]
  BY AcceptedKept
<1>2. \A t \in Subs : <<sub[t].judge, sub[t].contest, sub[t].number>> # <<where[1], where[2], n>>
  BY DEF JudgeAccepts
<1>3. NumbersDiffer'
  <2> SUFFICES ASSUME NEW t \in Subs, NEW u \in Subs,
                      sub'[t] # NoSub, sub'[u] # NoSub,
                      sub'[t].judge = sub'[u].judge, sub'[t].contest = sub'[u].contest,
                      sub'[t].number = sub'[u].number
               PROVE  t = u
    BY DEF NumbersDiffer
  <2>1. CASE t # s /\ u # s
    BY <1>1, <2>1 DEF OwnInv, NumbersDiffer
  <2>2. CASE t = s /\ u # s
    BY <1>1, <1>2, <2>2
  <2>3. CASE t # s /\ u = s
    BY <1>1, <1>2, <2>3
  <2> QED
    BY <2>1, <2>2, <2>3
<1>4. x.op = "submit" /\ x.new.number = n /\ x.run = session[h].run
  <2>1. session[h] \in Loading /\ session[h].op = "submit" /\ session[h].new \in Row
    BY AtWork, FreeDoesNothing DEF JudgeAccepts, At
  <2> QED
    BY <2>1 DEF Loading, Row
<1>5. Has(x.run, n, sub')
  BY <1>1, <1>4 DEF Has
<1>6. /\ session' = [session EXCEPT ![h] = x] /\ row' = row /\ by' = by
      /\ \A g \in Sessions : session'[g] = IF g = h THEN x ELSE session[g]
  BY DEF JudgeAccepts, TypeInv, TypeOK
<1> HIDE DEF x
<1> QED
  BY <1>1, <1>3, <1>4, <1>5, <1>6, OwnStep

\* The older notification finds a run that may have the verdict.
LEMMA V1FindOwn ==
  ASSUME TypeInv, OwnInv, TypeInv', NEW h \in Sessions, NEW m \in mail, V1Find(h, m)
  PROVE  OwnInv'
<1>1. PICK r \in Runs :
        /\ Found(m.sub) = {r}
        /\ session' = [session EXCEPT ![h] =
            [Loaded("v1", r, IF HasReport(m.verdict) THEN "found" ELSE "linked")
               EXCEPT !.message = m, !.new = Filled(@, m.verdict)]]
  BY DEF V1Find
<1> DEFINE x == [Loaded("v1", r, IF HasReport(m.verdict) THEN "found" ELSE "linked")
               EXCEPT !.message = m, !.new = Filled(@, m.verdict)]
<1>2. x.op = "v1" /\ x.run = r /\ x.message = m
  BY DEF Loaded
<1>3. Own(r, m.sub, sub)
  BY <1>1, FoundIsOwn DEF TypeInv, TypeOK, Message
<1>4. session' = [session EXCEPT ![h] = x] /\ row' = row /\ sub' = sub /\ by' = by
  BY <1>1 DEF V1Find
<1> HIDE DEF x
<1> QED
  BY <1>2, <1>3, <1>4, OwnSession

\* Commits write what their session was allowed to.
LEMMA CommitOwn ==
  ASSUME TypeInv, OwnInv, TypeInv', NEW h \in Sessions,
         PutCommit(h) \/ RejudgeCommit(h) \/ SubmitCommit(h) \/ V1Commit(h)
  PROVE  OwnInv'
<1>1. session[h] # Free /\ Flush(h) /\ sub' = sub
  BY FreeDoesNothing DEF PutCommit, RejudgeCommit, SubmitCommit, V1Commit, At
<1>4. PICK x : /\ session' = [session EXCEPT ![h] = x]
               /\ x.op # "v1" /\ (x.op = "submit" => x.new.number = None)
  <2>1. CASE Close(h)
    BY <2>1, FreeDoesNothing DEF Close
  <2>2. CASE SubmitCommit(h) /\ Refused(h) /\ Goto(h, "erred")
    BY <2>2, ErredSession DEF SubmitCommit, Refused
  <2> QED
    BY <2>1, <2>2 DEF PutCommit, RejudgeCommit, SubmitCommit, V1Commit
<1>2. CASE PutCommit(h) \/ RejudgeCommit(h) \/ SubmitCommit(h)
  <2>1. \A r \in Runs : by'[r] \in {by[r], None}
    BY <1>2 DEF PutCommit, RejudgeCommit, SubmitCommit, TypeInv, TypeOK
  <2> QED
    BY <1>1, <1>4, <2>1, OwnCommit
<1>3. CASE V1Commit(h)
  <2>1. Own(session[h].run, session[h].message.sub, sub)
    BY <1>3 DEF V1Commit, At, OwnInv
  <2>2. \A r \in Runs : \/ by'[r] = by[r]
                        \/ r = session[h].run /\ by'[r] = session[h].message.sub
    BY <1>3 DEF V1Commit, TypeInv, TypeOK
  <2> QED
    BY <1>1, <1>4, <2>1, <2>2, OwnCommit
<1> QED
  BY <1>2, <1>3

\* The newer notification writes the number and the contest of its submission.
LEMMA UpdRunOwn ==
  ASSUME TypeInv, OwnInv, TypeInv', NEW m \in mail, UpdRun(m)
  PROVE  OwnInv'
<1> DEFINE s == sub[m.sub]
           y == Filled(row[s.run], m.verdict)
           x == [y EXCEPT !.number = s.number, !.contest = s.contest]
<1>1. NumbersDiffer' /\ Kept /\ sub' = sub /\ session' = session
  BY SameSubs DEF UpdRun, OwnInv, NumbersDiffer
<1>2. CASE UNCHANGED <<row, by, loose>>
  BY <1>1, <1>2, OwnStep
<1>3. CASE row' = [row EXCEPT ![s.run] = x] /\ by' = [by EXCEPT ![s.run] = m.sub]
  <2>1. m.sub \in Subs /\ s.run \in Runs /\ row[s.run] \in Row /\ m.verdict \in Verdicts
    BY Submissions DEF TypeInv, TypeOK, Message
  <2>2. y \in Row
    BY <2>1, FilledRow
  <2>3. x.number = s.number /\ x.contest = s.contest
    BY <2>2 DEF Row
  <2>4. \A r \in Runs : /\ row'[r] = IF r = s.run THEN x ELSE row[r]
                        /\ by'[r] = IF r = s.run THEN m.sub ELSE by[r]
    BY <1>3 DEF TypeInv, TypeOK
  <2>5. Has(s.run, s.number, sub) /\ Own(s.run, m.sub, sub)
    BY <2>1 DEF Has, Own
  <2>6. s.contest = ContestOf[s.run] \/ Elsewhere(s.run, sub)
    BY <2>1 DEF Elsewhere
  <2>7. \A r \in Runs :
           /\ row'[r].number \in {row[r].number, None} \/ Has(r, row'[r].number, sub)
           /\ row'[r].contest = row[r].contest \/ Elsewhere(r, sub)
           /\ by'[r] \in {by[r], None} \/ Own(r, by'[r], sub)
    <3> SUFFICES ASSUME NEW r \in Runs
                 PROVE /\ row'[r].number \in {row[r].number, None} \/ Has(r, row'[r].number, sub)
                       /\ row'[r].contest = row[r].contest \/ Elsewhere(r, sub)
                       /\ by'[r] \in {by[r], None} \/ Own(r, by'[r], sub)
      OBVIOUS
    <3>1. CASE r # s.run
      BY <2>4, <3>1
    <3>2. CASE r = s.run
      <4>1. row[r].contest = ContestOf[r] \/ Elsewhere(r, sub)
        BY DEF OwnInv
      <4> HIDE DEF x, s
      <4> QED
        BY <2>3, <2>4, <2>5, <2>6, <3>2, <4>1
    <3> QED
      BY <3>1, <3>2
  <2> QED
    BY <1>1, <2>7, OwnStep
<1> QED
  BY <1>2, <1>3 DEF UpdRun

\* OwnInv is inductive.
LEMMA OwnInductive ==
  ASSUME TypeInv, OwnInv, [Next]_vars
  PROVE  OwnInv'
<1>1. TypeInv'
  BY TypesInductive
<1>2. ASSUME NEW h \in Sessions, HandlerStep(h) PROVE OwnInv'
  BY <1>1, <1>2, QuietOwn, QuietOwn2, CommitOwn, V1FindOwn DEF HandlerStep
<1>3. ASSUME NEW h \in Sessions, TaskStep(h) PROVE OwnInv'
  BY <1>1, <1>3, QuietOwn, QuietOwn2, CommitOwn, AcceptsOwn DEF TaskStep
<1>4. ASSUME NEW s \in Subs, NEW v \in Verdicts, JudgeNotifies(s, v) PROVE OwnInv'
  <2>1. NumbersDiffer'
    BY <1>4, NotifiedKept DEF OwnInv, NumbersDiffer
  <2> QED
    BY <1>1, <1>4, <2>1, NotifiedKept, OwnStep DEF JudgeNotifies
<1>5. ASSUME NEW m \in mail, StoreProtocol(m) PROVE OwnInv'
  <2>1. NumbersDiffer'
    BY <1>5 DEF StoreProtocol, OwnInv, NumbersDiffer
  <2> QED
    BY <1>1, <1>5, <2>1, SameSubs, OwnStep DEF StoreProtocol
<1>6. CASE UNCHANGED vars
  <2>1. NumbersDiffer'
    BY <1>6 DEF vars, OwnInv, NumbersDiffer
  <2> QED
    BY <1>1, <1>6, <2>1, SameSubs, OwnStep DEF vars
<1> QED
  BY <1>1, <1>2, <1>3, <1>4, <1>5, <1>6, QuietOwn, UpdRunOwn DEF Next, JudgeStep

\* A verdict is written to another run only if that run has a number that another
\* judge gave too, or was sent to a contest that its row did not name.
THEOREM VerdictsAreOwn == Spec => []VerdictIsOwn
<1>1. Init => OwnInv
  <2> SUFFICES ASSUME Init PROVE OwnInv
    OBVIOUS
  <2>1. /\ \A s \in Subs : sub[s] = NoSub
        /\ \A r \in Runs : row[r].number = None /\ row[r].contest = ContestOf[r] /\ by[r] = None
        /\ \A h \in Sessions : session[h].op = "none"
    BY FreeDoesNothing DEF Init
  <2> QED
    BY <2>1 DEF OwnInv, NumbersDiffer, VerdictIsOwn
<1>2. OwnInv => VerdictIsOwn
  BY DEF OwnInv
<1> QED
  BY <1>1, <1>2, InitTypes, TypesInductive, OwnInductive, PTL DEF Spec

-----------------------------------------------------------------------------
(***************************************************************************)
(* ShownVerdictHasProtocol                                                 *)
(***************************************************************************)

\* r has a protocol, or had one that was taken away.
HasDoc(r, docs, gone) == r \in gone \/ \E d \in Docs : docs[d] = r

\* What the setter inserts for a run is the protocol of no other; an older message that is linked, a newer one that is stored, and a row that
\* shows a verdict, each with a report, are about a run with a protocol.
DocInv ==
  /\ \A q \in Runs : doc[q] \in {None, Gone, q}
  /\ \A h \in Sessions : session[h].op = "v1" =>
       /\ sub[session[h].message.sub].judge \notin Newer
       /\ session[h].pc = "linked" /\ HasReport(session[h].message.verdict)
            => HasDoc(session[h].run, doc, withdrawn)
  /\ \A m \in mail : m.stored /\ HasReport(m.verdict) => HasDoc(sub[m.sub].run, doc, withdrawn)
  /\ \A r \in Runs : by[r] # None /\ HasReport(row[r]) => HasDoc(r, doc, withdrawn)

\* What the setter leaves: its own run has a protocol, and who had one keeps it.
LEMMA StoredDoc ==
  ASSUME TypeInv, \A q \in Runs : doc[q] \in {None, Gone, q}, NEW r \in Runs, Store(r)
  PROVE  /\ HasDoc(r, doc', withdrawn')
         /\ \A q \in Runs : HasDoc(q, doc, withdrawn) => HasDoc(q, doc', withdrawn')
         /\ \A q \in Runs : doc'[q] \in {None, Gone, q}
<1>1. doc \in [Docs -> Runs \cup {None, Gone}] /\ Runs \subseteq Docs
  BY DEF TypeInv, TypeOK, Docs
<1>2. CASE HasProtocol(r)
  BY <1>2 DEF Store, HasProtocol, HasDoc
<1>3. CASE ~HasProtocol(r)
  <2>1. \A d \in Docs : doc'[d] = IF d = r THEN r ELSE doc[d]
    BY <1>1, <1>3 DEF Store
  <2>2. \A q \in Runs : q # r => doc[r] # q
    BY ConstantsAssumption
  <2> QED
    BY <1>1, <2>1, <2>2 DEF Store, HasDoc
<1> QED
  BY <1>2, <1>3

\* What a document of a run may become.
LEMMA DocsKept ==
  ASSUME TypeInv, DocInv, [Next]_vars, NEW r \in Runs, HasDoc(r, doc, withdrawn)
  PROVE  HasDoc(r, doc', withdrawn')
<1>1. CASE UNCHANGED <<doc, withdrawn>>
  BY <1>1 DEF HasDoc
<1>2. ASSUME NEW h \in Sessions, RejudgeMove(h) PROVE HasDoc(r, doc', withdrawn')
  BY <1>2 DEF RejudgeMove, HasDoc
<1>3. ASSUME NEW h \in Sessions, V1Link(h) PROVE HasDoc(r, doc', withdrawn')
  <2> DEFINE q == session[h].run
             s == session[h].message.sub
  <2>1. q \in Runs /\ s \in Subs /\ s \in Docs
    BY <1>3, V1Session DEF V1Link, At, Docs
  <2>2. CASE UNCHANGED <<doc, withdrawn>>
    BY <2>2, <1>1
  <2>3. CASE \E t \in Docs : doc[t] = r /\ t # s
    BY <1>3, <2>1, <2>3 DEF V1Link, HasDoc, TypeInv, TypeOK
  <2>4. CASE /\ doc' = [doc EXCEPT ![s] = q]
             /\ withdrawn' = (withdrawn \cup ({doc[s]} \cap Runs)) \ {q}
             /\ \A t \in Docs : doc[t] = r => t = s
    <3>1. CASE r = q
      <4>1. doc'[s] = q
        BY <2>1, <2>4 DEF TypeInv, TypeOK
      <4> QED
        BY <2>1, <3>1, <4>1 DEF HasDoc
    <3>2. CASE r # q
      BY <2>1, <2>4, <3>2 DEF HasDoc
    <3> QED
      BY <3>1, <3>2
  <2> QED
    BY <1>3, <2>2, <2>3, <2>4 DEF V1Link
<1>4. ASSUME NEW m \in mail, StoreProtocol(m) PROVE HasDoc(r, doc', withdrawn')
  <2>1. sub[m.sub].run \in Runs
    BY <1>4, Submissions DEF StoreProtocol, TypeInv, TypeOK, Message
  <2> QED
    BY <1>1, <1>4, <2>1, StoredDoc DEF StoreProtocol, DocInv
<1>8. ASSUME NEW h \in Sessions, StoreError(h) PROVE HasDoc(r, doc', withdrawn')
  <2>1. session[h].run \in Runs
    BY <1>8, FreeDoesNothing, AtWork DEF StoreError, At
  <2> QED
    BY <1>8, <2>1, StoredDoc DEF StoreError, DocInv
<1>5. ASSUME NEW h \in Sessions, HandlerStep(h) PROVE HasDoc(r, doc', withdrawn')
  BY <1>1, <1>2, <1>3, <1>5 DEF HandlerStep, RejudgeLoad, PutLoad, PutCommit, RejudgeCommit,
     V1Find, V1Commit
<1>6. ASSUME NEW h \in Sessions, TaskStep(h) \/ Die(h) PROVE HasDoc(r, doc', withdrawn')
  BY <1>1, <1>6, <1>8 DEF TaskStep, SubmitLoad, JudgeAccepts, JudgeRefuses, SubmitCommit, Die
<1>7. ASSUME JudgeStep PROVE HasDoc(r, doc', withdrawn')
  BY <1>1, <1>4, <1>7 DEF JudgeStep, JudgeNotifies, UpdRun
<1> QED
  BY <1>1, <1>5, <1>6, <1>7 DEF Next, vars

\* Steps of one session that leave rows and protocols alone.
LEMMA DocSession ==
  ASSUME TypeInv, DocInv, [Next]_vars, NEW h \in Sessions, NEW x,
         session' = [session EXCEPT ![h] = x], x.op # "v1",
         UNCHANGED <<row, sub, mail, doc, by>>
  PROVE  DocInv'
<1>1. \A g \in Sessions : session'[g] = IF g = h THEN x ELSE session[g]
  BY DEF TypeInv, TypeOK
<1>2. \A r \in Runs : HasDoc(r, doc, withdrawn) => HasDoc(r, doc', withdrawn')
  BY DocsKept
<1>3. \A m \in mail : m.sub \in Subs /\ sub[m.sub].run \in Runs
  BY Submissions DEF TypeInv, TypeOK, Message
<1>4. \A g \in Sessions : session[g].op = "v1" => session[g].run \in Runs
  BY V1Session
<1> QED
  BY <1>1, <1>2, <1>3, <1>4 DEF DocInv

\* Commits that change a status without a verdict forget whose verdict it was.
LEMMA DocCommit ==
  ASSUME TypeInv, DocInv, [Next]_vars, NEW h \in Sessions,
         NEW x, session' = [session EXCEPT ![h] = x], x.op # "v1",
         UNCHANGED <<sub, mail, doc>>,
         \A r \in Runs : by'[r] # None /\ HasReport(row'[r]) => HasDoc(r, doc, withdrawn)
  PROVE  DocInv'
<1>1. \A g \in Sessions : session'[g] = IF g = h THEN x ELSE session[g]
  BY DEF TypeInv, TypeOK
<1>2. \A r \in Runs : HasDoc(r, doc, withdrawn) => HasDoc(r, doc', withdrawn')
  BY DocsKept
<1>3. \A m \in mail : m.sub \in Subs /\ sub[m.sub].run \in Runs
  BY Submissions DEF TypeInv, TypeOK, Message
<1>4. \A g \in Sessions : session[g].op = "v1" => session[g].run \in Runs
  BY V1Session
<1> QED
  BY <1>1, <1>2, <1>3, <1>4 DEF DocInv

\* The steps of a handler that v1 has no part in.
LEMMA HandlerDoc ==
  ASSUME TypeInv, DocInv, [Next]_vars, NEW h \in Sessions,
         \/ Die(h)
         \/ \E r \in Runs : RejudgeLoad(h, r) \/ SubmitLoad(h, r)
         \/ \E r \in Runs, a \in Puts : PutLoad(h, r, a)
         \/ PutCommit(h) \/ RejudgeCommit(h) \/ SubmitCommit(h)
  PROVE  DocInv'
<1>1. CASE Die(h)
  BY <1>1, FreeDoesNothing, DocSession DEF Die, Close
<1>2. ASSUME NEW r \in Runs, RejudgeLoad(h, r) PROVE DocInv'
  <2> DEFINE x == Loaded("rejudge", r, "loaded")
  <2>1. x.op = "rejudge"
    BY DEF Loaded
  <2>2. session' = [session EXCEPT ![h] = x] /\ UNCHANGED <<row, sub, mail, doc, by>>
    BY <1>2 DEF RejudgeLoad
  <2> HIDE DEF x
  <2> QED
    BY <2>1, <2>2, DocSession
<1>3. ASSUME NEW r \in Runs, SubmitLoad(h, r) PROVE DocInv'
  <2> DEFINE x == Loaded("submit", r, "loaded")
  <2>1. x.op = "submit"
    BY DEF Loaded
  <2>2. session' = [session EXCEPT ![h] = x] /\ UNCHANGED <<row, sub, mail, doc, by>>
    BY <1>3 DEF SubmitLoad
  <2> HIDE DEF x
  <2> QED
    BY <2>1, <2>2, DocSession
<1>4. ASSUME NEW r \in Runs, NEW a \in Puts, PutLoad(h, r, a) PROVE DocInv'
  <2> DEFINE x == [Loaded("put", r, "assigned") EXCEPT !.new = Assign(@, a)]
  <2>1. x.op = "put"
    BY DEF Loaded
  <2>2. session' = [session EXCEPT ![h] = x] /\ UNCHANGED <<row, sub, mail, doc, by>>
    BY <1>4 DEF PutLoad
  <2> HIDE DEF x
  <2> QED
    BY <2>1, <2>2, DocSession
<1>5. CASE PutCommit(h) \/ RejudgeCommit(h) \/ SubmitCommit(h)
  <2>5. PICK x : session' = [session EXCEPT ![h] = x] /\ x.op # "v1"
    <3>1. CASE Close(h)
      BY <3>1, FreeDoesNothing DEF Close
    <3>2. CASE SubmitCommit(h) /\ Goto(h, "erred")
      BY <3>2, ErredSession DEF SubmitCommit
    <3> QED
      BY <1>5, <3>1, <3>2 DEF PutCommit, RejudgeCommit, SubmitCommit
  <2>1. UNCHANGED <<sub, mail, doc>> /\ Flush(h) /\ session[h] # Free
    BY <1>5, FreeDoesNothing DEF PutCommit, RejudgeCommit, SubmitCommit, At
  <2>2. /\ session[h].run \in Runs
        /\ by' = [by EXCEPT ![session[h].run] =
                    IF row'[session[h].run].status # row[session[h].run].status THEN None ELSE @]
    BY <1>5, <2>1, AtWork DEF PutCommit, RejudgeCommit, SubmitCommit
  <2>3. \A r \in Runs : r # session[h].run => row'[r] = row[r]
    BY <2>1, FlushedRow DEF TypeInv, TypeOK
  <2>4. ASSUME NEW r \in Runs, by'[r] # None, HasReport(row'[r]) PROVE HasDoc(r, doc, withdrawn)
    <3>1. by'[r] = by[r] /\ row'[r].status = row[r].status
      BY <2>2, <2>3, <2>4 DEF TypeInv, TypeOK
    <3>2. HasReport(row[r])
      BY <2>4, <3>1 DEF HasReport, OnTheWay
    <3> QED
      BY <2>4, <3>1, <3>2 DEF DocInv
  <2> QED
    BY <2>1, <2>4, <2>5, DocCommit
<1> QED
  BY <1>1, <1>2, <1>3, <1>4, <1>5

\* The other steps of handlers and tasks.
LEMMA AnswerDoc ==
  ASSUME TypeInv, DocInv, [Next]_vars, NEW h \in Sessions, RejudgeMove(h) \/ JudgeRefuses(h)
  PROVE  DocInv'
<1>1. session[h] \in Loading /\ session[h].op # "v1" /\ session[h].run \in Runs
  BY AtWork, FreeDoesNothing DEF RejudgeMove, JudgeRefuses, At
<1>2. CASE JudgeRefuses(h)
  <2> DEFINE x == [session[h] EXCEPT !.pc = "answered",
                     !.new = [@ EXCEPT !.number = None, !.status = SubmitError]]
  <2>1. x.op # "v1"
    BY <1>1 DEF Loading
  <2>2. session' = [session EXCEPT ![h] = x] /\ UNCHANGED <<row, sub, mail, doc, by>>
    BY <1>2 DEF JudgeRefuses, TypeInv, TypeOK
  <2> HIDE DEF x
  <2> QED
    BY <2>1, <2>2, DocSession
<1>3. CASE RejudgeMove(h)
  <2>1. \A g \in Sessions : session'[g].op = session[g].op /\ (g # h => session'[g] = session[g])
    <3>1. [session[h] EXCEPT !.pc = "moved", !.new = Assign(@, Blank)].op = session[h].op
      BY <1>1 DEF Loading
    <3> QED
      BY <1>3, <3>1 DEF RejudgeMove, TypeInv, TypeOK
  <2>2. \A r \in Runs : HasDoc(r, doc, withdrawn) => HasDoc(r, doc', withdrawn')
    BY DocsKept
  <2>3. \A m \in mail : m.sub \in Subs /\ sub[m.sub].run \in Runs
    BY Submissions DEF TypeInv, TypeOK, Message
  <2>4. \A g \in Sessions : session[g].op = "v1" => session[g].run \in Runs
    BY V1Session
  <2>5. \A q \in Runs : doc'[q] \in {doc[q], Gone}
    BY <1>3 DEF RejudgeMove, Docs
  <2> QED
    BY <1>1, <1>3, <2>1, <2>2, <2>3, <2>4, <2>5 DEF DocInv, RejudgeMove
<1> QED
  BY <1>2, <1>3

\* The judge takes a submission that had no protocol.
LEMMA AcceptsDoc ==
  ASSUME TypeInv, DocInv, [Next]_vars, NEW h \in Sessions, NEW s \in Subs,
         NEW where \in Judges \X Contests, NEW n \in Numbers, JudgeAccepts(h, s, where, n)
  PROVE  DocInv'
<1> DEFINE x == [session[h] EXCEPT !.pc = "answered", !.new = [@ EXCEPT !.number = n]]
<1>1. x.op = "submit"
  <2>1. session[h] \in Loading /\ session[h].op = "submit"
    BY AtWork, FreeDoesNothing DEF JudgeAccepts, At
  <2> QED
    BY <2>1 DEF Loading
<1>2. \A g \in Sessions : session'[g] = IF g = h THEN x ELSE session[g]
  BY DEF JudgeAccepts, TypeInv, TypeOK
<1>3. /\ sub[s] = NoSub
      /\ \A t \in Subs \ {s} : sub'[t] = sub[t]
      /\ UNCHANGED <<row, mail, doc, by>>
  <2>1. \A t \in Subs \ {s} : sub'[t] = sub[t]
    BY AcceptedKept
  <2> QED
    BY <2>1 DEF JudgeAccepts
<1>4. \A r \in Runs : HasDoc(r, doc, withdrawn) => HasDoc(r, doc', withdrawn')
  BY DocsKept
<1>5. \A m \in mail : m.sub \in Subs /\ m.sub # s /\ sub[m.sub].run \in Runs
  BY <1>3, Submissions DEF TypeInv, TypeOK, Message
<1>6. \A g \in Sessions : session[g].op = "v1" =>
        session[g].run \in Runs /\ session[g].message.sub \in Subs \ {s}
  BY <1>3, V1Session
<1> HIDE DEF x
<1> QED
  BY <1>1, <1>2, <1>3, <1>4, <1>5, <1>6 DEF DocInv

\* A new message is not stored.
LEMMA NotifiesDoc ==
  ASSUME TypeInv, DocInv, [Next]_vars, NEW s \in Subs, NEW v \in Verdicts, JudgeNotifies(s, v)
  PROVE  DocInv'
<1>1. /\ \A t \in Subs : sub[t] # NoSub => sub'[t] # NoSub
      /\ \A t \in Subs : sub'[t].run = sub[t].run /\ sub'[t].judge = sub[t].judge
  <2>1. \A t \in Subs : sub'[t].run = sub[t].run /\ sub'[t].judge = sub[t].judge
    BY NotifiedKept
  <2>2. \A t \in Subs : sub[t] # NoSub => sub[t].run \in Runs
    BY Submissions
  <2>3. NoSub.run \notin Runs
    BY ConstantsAssumption DEF NoSub
  <2> QED
    BY <2>1, <2>2, <2>3
<1>2. \A r \in Runs : HasDoc(r, doc, withdrawn) => HasDoc(r, doc', withdrawn')
  BY DocsKept
<1>3. \A m \in mail : m.sub \in Subs /\ sub[m.sub].run \in Runs
  BY Submissions DEF TypeInv, TypeOK, Message
<1>4. \A g \in Sessions : session[g].op = "v1" =>
        session[g].run \in Runs /\ session[g].message.sub \in Subs
  BY V1Session
<1>5. \A m \in mail' : m \in mail \/ ~m.stored
  BY DEF JudgeNotifies
<1>6. UNCHANGED <<row, session, doc, by>>
  BY DEF JudgeNotifies
<1> QED
  BY <1>1, <1>2, <1>3, <1>4, <1>5, <1>6 DEF DocInv

\* The steps of the older notification.
LEMMA V1FindDoc ==
  ASSUME TypeInv, DocInv, [Next]_vars, NEW h \in Sessions, NEW m \in mail, V1Find(h, m)
  PROVE  DocInv'
<1>1. PICK r \in Runs : session' = [session EXCEPT ![h] =
            [Loaded("v1", r, IF HasReport(m.verdict) THEN "found" ELSE "linked")
               EXCEPT !.message = m, !.new = Filled(@, m.verdict)]]
  BY DEF V1Find
<1> DEFINE x == [Loaded("v1", r, IF HasReport(m.verdict) THEN "found" ELSE "linked")
               EXCEPT !.message = m, !.new = Filled(@, m.verdict)]
<1>2. x.op = "v1" /\ x.message = m /\ (x.pc = "linked" => ~HasReport(m.verdict))
  BY DEF Loaded
<1>3. \A g \in Sessions : session'[g] = IF g = h THEN x ELSE session[g]
  BY <1>1 DEF TypeInv, TypeOK
<1>4. UNCHANGED <<row, sub, mail, doc, by>> /\ sub[m.sub].judge \notin Newer
  BY DEF V1Find
<1>5. \A r_1 \in Runs : HasDoc(r_1, doc, withdrawn) => HasDoc(r_1, doc', withdrawn')
  BY DocsKept
<1>6. \A t \in mail : t.sub \in Subs /\ sub[t.sub].run \in Runs
  BY Submissions DEF TypeInv, TypeOK, Message
<1>7. \A g \in Sessions : session[g].op = "v1" => session[g].run \in Runs
  BY V1Session
<1> HIDE DEF x
<1> QED
  BY <1>2, <1>3, <1>4, <1>5, <1>6, <1>7 DEF DocInv

\* The link.
LEMMA V1LinkDoc ==
  ASSUME TypeInv, DocInv, [Next]_vars, NEW h \in Sessions, V1Link(h)
  PROVE  DocInv'
<1> DEFINE q == session[h].run
           s == session[h].message.sub
<1>1. /\ session[h].op = "v1" /\ session[h] \in Loading /\ q \in Runs /\ s \in Subs
      /\ sub[s] # NoSub /\ sub[s].judge \notin Newer
  BY V1Session DEF V1Link, At, DocInv
<1>2. UNCHANGED <<row, sub, mail, by>>
  BY DEF V1Link
<1>3. \A r \in Runs : HasDoc(r, doc, withdrawn) => HasDoc(r, doc', withdrawn')
  BY DocsKept
<1>4. \A m \in mail : m.sub \in Subs /\ sub[m.sub].run \in Runs
  BY Submissions DEF TypeInv, TypeOK, Message
<1>5. \A g \in Sessions : session[g].op = "v1" => session[g].run \in Runs
  BY V1Session
<1>6. CASE Close(h) /\ UNCHANGED doc
  <2>1. \A g \in Sessions : session'[g] = IF g = h THEN Free ELSE session[g]
    BY <1>6 DEF Close, TypeInv, TypeOK
  <2> QED
    BY <1>2, <1>3, <1>4, <1>5, <1>6, <2>1, FreeDoesNothing DEF DocInv
<1>7. CASE /\ Goto(h, "linked")
           /\ \/ UNCHANGED doc /\ \E t \in Docs : doc[t] = q
              \/ doc' = [doc EXCEPT ![s] = q]
  <2> DEFINE x == [session[h] EXCEPT !.pc = "linked"]
  <2>1. \A g \in Sessions : session'[g] = IF g = h THEN x ELSE session[g]
    BY <1>7 DEF Goto, TypeInv, TypeOK
  <2>2. x.op = "v1" /\ x.run = q /\ x.message = session[h].message
    BY <1>1 DEF Loading
  <2>3. HasDoc(q, doc', withdrawn')
    <3>1. CASE UNCHANGED doc /\ \E t \in Docs : doc[t] = q
      BY <3>1 DEF HasDoc
    <3>2. CASE doc' = [doc EXCEPT ![s] = q]
      <4>1. doc'[s] = q
        BY <1>1, <3>2 DEF TypeInv, TypeOK, Docs
      <4> QED
        BY <1>1, <4>1 DEF HasDoc, Docs
    <3> QED
      BY <1>7, <3>1, <3>2
  <2>4. \A t \in Docs : doc'[t] = doc[t] \/ t = s
    BY <1>7 DEF TypeInv, TypeOK
  <2>5. \A r \in Runs : doc'[r] \in {None, Gone, r}
    BY <1>1, <2>4, ConstantsAssumption DEF DocInv, Docs
  <2>6. \A g \in Sessions : session'[g].op = "v1" =>
       /\ sub'[session'[g].message.sub].judge \notin Newer
       /\ session'[g].pc = "linked" /\ HasReport(session'[g].message.verdict)
            => HasDoc(session'[g].run, doc', withdrawn')
    <3> HIDE DEF x, q
    <3> QED
      BY <1>1, <1>2, <1>3, <1>5, <2>1, <2>2, <2>3 DEF DocInv
  <2> HIDE DEF x
  <2> QED
    BY <1>2, <1>3, <1>4, <2>5, <2>6 DEF DocInv
<1> QED
  BY <1>6, <1>7 DEF V1Link, HasProtocol

\* The commit.
LEMMA V1CommitDoc ==
  ASSUME TypeInv, DocInv, [Next]_vars, NEW h \in Sessions, V1Commit(h)
  PROVE  DocInv'
<1> DEFINE q == session[h].run
           v == session[h].message.verdict
<1>1. session[h].op = "v1" /\ session[h].pc = "linked" /\ session[h] # Free
  BY V1Session DEF V1Commit, At
<1>2. /\ Close(h) /\ Flush(h) /\ UNCHANGED <<sub, mail, doc>>
      /\ by' = [by EXCEPT ![q] = IF row'[q].status = v.status THEN session[h].message.sub ELSE @]
  BY DEF V1Commit
<1>3. /\ q \in Runs /\ v \in Verdicts
      /\ session[h].seen \in Row /\ session[h].new \in Row /\ row[q] \in Row
      /\ session[h].new = Filled(session[h].seen, v)
  BY <1>1, V1Session, AtWork
<1>4. /\ row' = [row EXCEPT ![q] = Merge(row[q], session[h].seen, session[h].new)]
      /\ session[h].new.status = v.status
  BY <1>1, <1>2, <1>3, FlushedRow, FilledRow
<1>5. \A r \in Runs : row'[r] = IF r = q THEN Merge(row[q], session[h].seen, session[h].new)
                                ELSE row[r]
  BY <1>4 DEF TypeInv, TypeOK
<1>6. row'[q].status \in {v.status, row[q].status}
  BY <1>3, <1>4, <1>5, MergeRow
<1>7. ASSUME NEW r \in Runs, by'[r] # None, HasReport(row'[r]) PROVE HasDoc(r, doc, withdrawn)
  <2>1. CASE r = q /\ row'[q].status = v.status
    <3>1. HasReport(v)
      BY <1>7, <2>1 DEF HasReport, OnTheWay
    <3> QED
      BY <1>1, <2>1, <3>1 DEF DocInv
  <2>2. CASE r # q \/ row'[q].status # v.status
    <3>1. by'[r] = by[r] /\ row'[r].status = row[r].status
      BY <1>2, <1>5, <1>6, <2>2 DEF TypeInv, TypeOK
    <3>2. HasReport(row[r])
      BY <1>7, <3>1 DEF HasReport, OnTheWay
    <3> QED
      BY <1>7, <3>1, <3>2 DEF DocInv
  <2> QED
    BY <2>1, <2>2
<1> QED
  BY <1>2, <1>7, FreeDoesNothing, DocCommit DEF Close

\* The newer notification stores the protocol of its own run.
LEMMA StoreDoc ==
  ASSUME TypeInv, DocInv, [Next]_vars, NEW m \in mail, StoreProtocol(m)
  PROVE  DocInv'
<1> DEFINE q == sub[m.sub].run
           n == [m EXCEPT !.stored = TRUE]
<1>1. m \in Message /\ m.sub \in Subs /\ sub[m.sub] # NoSub /\ q \in Runs
  BY Submissions DEF TypeInv, TypeOK, Message
<1>2. UNCHANGED <<row, session, sub, by>> /\ mail' = (mail \ {m}) \cup {n}
  BY DEF StoreProtocol
<1>3. n.sub = m.sub /\ n.verdict = m.verdict
  BY <1>1 DEF Message
<1>4. \A r \in Runs : HasDoc(r, doc, withdrawn) => HasDoc(r, doc', withdrawn')
  BY DocsKept
<1>5. \A g \in Sessions : session[g].op = "v1" => session[g].run \in Runs
  BY V1Session
<1>6. \A t \in mail : t.sub \in Subs /\ sub[t.sub].run \in Runs
  BY Submissions DEF TypeInv, TypeOK, Message
<1>7. HasReport(m.verdict) => Store(q)
  BY DEF StoreProtocol
<1>8. HasReport(m.verdict) => HasDoc(q, doc', withdrawn')
  BY <1>1, <1>7, StoredDoc DEF DocInv
<1>10. \A r \in Runs : doc'[r] \in {None, Gone, r}
  BY <1>1, <1>7, StoredDoc DEF StoreProtocol, DocInv
<1>11. \A t \in mail' : t.stored /\ HasReport(t.verdict)
                          => HasDoc(sub[t.sub].run, doc', withdrawn')
  <2> HIDE DEF n
  <2> QED
    BY <1>2, <1>3, <1>4, <1>6, <1>8 DEF DocInv
<1> HIDE DEF q, n
<1> QED
  BY <1>2, <1>4, <1>5, <1>10, <1>11 DEF DocInv

\* submit_task stores why it failed.
LEMMA ErrorDoc ==
  ASSUME TypeInv, DocInv, [Next]_vars, NEW h \in Sessions, StoreError(h)
  PROVE  DocInv'
<1>1. session[h].run \in Runs
  BY FreeDoesNothing, AtWork DEF StoreError, At
<1>2. /\ \A g \in Sessions : session'[g] = IF g = h THEN Free ELSE session[g]
      /\ UNCHANGED <<row, sub, mail, by>>
  BY DEF StoreError, Close, TypeInv, TypeOK
<1>3. \A r \in Runs : HasDoc(r, doc, withdrawn) => HasDoc(r, doc', withdrawn')
  BY DocsKept
<1>4. \A r \in Runs : doc'[r] \in {None, Gone, r}
  BY <1>1, StoredDoc DEF StoreError, DocInv
<1>5. \A m \in mail : sub[m.sub].run \in Runs
  BY Submissions DEF TypeInv, TypeOK, Message
<1>6. \A g \in Sessions : session[g].op = "v1" => session[g].run \in Runs
  BY V1Session
<1> QED
  BY <1>2, <1>3, <1>4, <1>5, <1>6, FreeDoesNothing DEF DocInv

\* And then writes its status.
LEMMA UpdDoc ==
  ASSUME TypeInv, DocInv, [Next]_vars, NEW m \in mail, UpdRun(m)
  PROVE  DocInv'
<1> DEFINE s == sub[m.sub]
           v == m.verdict
           y == Filled(row[s.run], v)
           x == [y EXCEPT !.number = s.number, !.contest = s.contest]
<1>1. s.run \in Runs /\ row[s.run] \in Row /\ v \in Verdicts
  BY Submissions DEF TypeInv, TypeOK, Message
<1>2. /\ UNCHANGED <<session, sub, doc, withdrawn>> /\ mail' = mail \ {m}
      /\ m.stored \/ OnTheWay(v)
  BY DEF UpdRun
<1>3. x.status = v.status
  <2>1. y \in Row /\ y.status = v.status
    BY <1>1, FilledRow
  <2> QED
    BY <2>1 DEF Row
<1>4. \A r \in Runs : by'[r] # None /\ HasReport(row'[r]) => HasDoc(r, doc, withdrawn)
  <2>1. CASE UNCHANGED <<row, by, loose>>
    BY <2>1 DEF DocInv
  <2>2. CASE row' = [row EXCEPT ![s.run] = x] /\ by' = [by EXCEPT ![s.run] = m.sub]
    <3> SUFFICES ASSUME NEW r \in Runs, by'[r] # None, HasReport(row'[r])
                 PROVE  HasDoc(r, doc, withdrawn)
      OBVIOUS
    <3>1. CASE r = s.run
      <4>1. row'[r].status = v.status
        BY <1>1, <1>3, <2>2, <3>1 DEF TypeInv, TypeOK
      <4>2. HasReport(v) /\ m.stored
        BY <1>2, <4>1 DEF HasReport, OnTheWay
      <4> QED
        BY <3>1, <4>2 DEF DocInv
    <3>2. CASE r # s.run
      BY <2>2, <3>2 DEF DocInv, TypeInv, TypeOK
    <3> QED
      BY <3>1, <3>2
  <2> QED
    BY <2>1, <2>2 DEF UpdRun
<1> QED
  BY <1>2, <1>4 DEF DocInv

\* DocInv is inductive.
LEMMA DocInductive ==
  ASSUME TypeInv, DocInv, [Next]_vars
  PROVE  DocInv'
<1>1. ASSUME NEW h \in Sessions, HandlerStep(h) PROVE DocInv'
  BY <1>1, HandlerDoc, AnswerDoc, V1FindDoc, V1LinkDoc, V1CommitDoc DEF HandlerStep
<1>2. ASSUME NEW h \in Sessions, TaskStep(h) PROVE DocInv'
  BY <1>2, HandlerDoc, AnswerDoc, AcceptsDoc, ErrorDoc DEF TaskStep
<1>3. ASSUME JudgeStep PROVE DocInv'
  BY <1>3, NotifiesDoc, StoreDoc, UpdDoc DEF JudgeStep
<1>4. CASE UNCHANGED vars
  BY <1>4 DEF vars, DocInv
<1> QED
  BY <1>1, <1>2, <1>3, <1>4, HandlerDoc DEF Next

\* A run that shows a verdict with a report has a protocol, whatever the interleaving
\* of the link, the store, the two commits and a rejudge.
THEOREM ShownVerdictsHaveProtocols == Spec => []ShownVerdictHasProtocol
<1>1. Init => DocInv
  <2> SUFFICES ASSUME Init PROVE DocInv
    OBVIOUS
  <2>1. /\ \A q \in Runs : doc[q] = None
        /\ \A h \in Sessions : session[h].op = "none"
        /\ \A r \in Runs : by[r] = None
        /\ mail = {}
    BY FreeDoesNothing DEF Init, Docs
  <2> QED
    BY <2>1 DEF DocInv
<1>2. TypeInv /\ DocInv => ShownVerdictHasProtocol
  <2> SUFFICES ASSUME TypeInv, DocInv, NEW a \in Askers, NEW r \in Runs, by[r] # None,
                      GetStatus(a, r) # None, HasReport(GetStatus(a, r)), r \notin withdrawn
               PROVE  GetProtocol(a, r) # None
    BY DEF ShownVerdictHasProtocol
  <2>1. MaySee(a, r) /\ GetStatus(a, r) = Triple(row[r])
    BY DEF GetStatus
  <2>2. HasReport(row[r])
    BY <2>1 DEF HasReport, OnTheWay, Triple
  <2>3. HasProtocol(r)
    BY <2>2 DEF DocInv, HasDoc, HasProtocol
  <2>4. GetProtocol(a, r) = "protocol"
    BY <2>1, <2>3 DEF GetProtocol
  <2> QED
    BY <2>4, ConstantsAssumption
<1> QED
  BY <1>1, <1>2, InitTypes, TypesInductive, DocInductive, PTL DEF Spec

=============================================================================
