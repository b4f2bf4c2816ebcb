---------------------------- MODULE SubmissionLists ----------------------------
(***************************************************************************)
(* ProblemSubmissionsFilterApi: a teacher's page reads a list of runs page *)
(* by page, each page in a request of its own, while runs arrive and their *)
(* statuses change.  Every page is cut anew out of the runs that match the *)
(* filters by then, newest id first, by LIMIT and OFFSET.                  *)
(*                                                                         *)
(* An optional argument is a set: {} when it is absent, {v} when it is v.  *)
(***************************************************************************)
EXTENDS Integers, FiniteSets

CONSTANTS
  MaxId,          \* bound: rows of the table
  Runs,           \* contents a row may have
  Statuses,       \* values of ejudge_status
  Queries,        \* arguments of requests
  Counts,         \* values of "count"
  MaxPerPage,     \* max_per_page, 100 in the code
  Members,        \* Members[g]: users of the group g
  Instance,       \* Instance[m]: the statement behind the course module m
  Correlations,   \* rows of mdl_statements_problems_correlation
  MaxChanges      \* bound: changes of a status

InQueue == 377

ASSUME ConstantsAssumption ==
  /\ MaxId \in Nat /\ MaxChanges \in Nat /\ MaxPerPage \in Nat \ {0}
  /\ Counts \subseteq Nat \ {0}
  /\ InQueue \in Statuses
  /\ \A r \in Runs : r \in [user : Int, problem : Int, statement : Int, lang : Int,
                           status : Statuses, source : Int, shown : BOOLEAN, time : Int]

VARIABLES
  rows,      \* the table of runs, by id
  reader,    \* a client that reads all pages of a list
  changes    \* changes of a status so far

vars == <<rows, reader, changes>>

Ids   == 1 .. MaxId
NoRun == [user |-> 0, problem |-> 0, statement |-> 0, lang |-> 0, status |-> -1, source |-> 0,
          shown |-> FALSE, time |-> 0]

-----------------------------------------------------------------------------
(***************************************************************************)
(* _build_query_by_args                                                    *)
(***************************************************************************)

Truthy(x) == x \ {0} # {}

\* A timestamp of -1 is no filter either.
Bound(x)  == x \ {0, -1}

\* get_problems_by_statement_id
ProblemsOf(statement) ==
  {c.problem : c \in {d \in Correlations : d.statement = statement /\ d.hidden # 1}}

UnknownModule(a) ==
  a.problem = 0 /\ Truthy(a.statement) /\ a.statement \cap DOMAIN Instance = {}
TooWide(a) ==
  a.problem = 0 /\ ~Truthy(a.statement) /\ ~Truthy(a.group) /\ ~Truthy(a.user)

\* Without a problem, "statement_id" is a course module: its problems count then,
\* and not the statement a run was sent from.
InStatement(a, r) ==
  IF a.problem # 0
  THEN r.problem = a.problem /\ r.statement \in a.statement
  ELSE \E m \in a.statement : r.problem \in ProblemsOf(Instance[m])

Matches(a, r) ==
  /\ Truthy(a.user) => r.user \in a.user
  /\ Truthy(a.group) => \E g \in a.group : r.user \in Members[g]
  /\ a.users # {} => r.user \in a.users
  /\ (\E l \in a.lang : l > 0) => r.lang \in a.lang
  /\ a.status # -1 => r.status = a.status
  /\ \A t \in Bound(a.from) : r.time > t
  /\ \A t \in Bound(a.to) : r.time < t
  /\ a.problem # 0 => r.problem = a.problem
  /\ Truthy(a.statement) => InStatement(a, r)
  /\ a.context # {} => r.statement \in a.context
  /\ a.source # {} => r.source \in a.source
  /\ a.hidden \/ r.shown

Listed(table, a) == {i \in Ids : table[i] # NoRun /\ Matches(a, table[i])}

-----------------------------------------------------------------------------
(***************************************************************************)
(* process.  paginate is external (Flask-SQLAlchemy).                      *)
(***************************************************************************)

PerPage(n) == IF n <= MaxPerPage THEN n ELSE MaxPerPage

\* Bug: runs are ordered by status first.
BeforeByStatus(s, i) ==
  {k \in s : \/ rows[k].status > rows[i].status
             \/ rows[k].status = rows[i].status /\ k > i}

\* Newest first
Before(s, i) == {k \in s : k > i}

\* Bug: the offset is counted in pages that are one row shorter.
PageOverlapping(s, p, n) ==
  {i \in s : Cardinality(Before(s, i)) \in (p - 1) * (n - 1) .. (p - 1) * (n - 1) + n - 1}

\* LIMIT n OFFSET (p - 1) * n
Page(s, p, n) == {i \in s : Cardinality(Before(s, i)) \in (p - 1) * n .. p * n - 1}
PageCount(s, n) == (Cardinality(s) + n - 1) \div n

\* Rows of users that are no users are dropped from a page, not from the count.
Real(s) == {i \in s : rows[i].user > 0}

NoQuery == [user |-> {}, group |-> {}, users |-> {}, lang |-> {}, status |-> -1, from |-> {},
            to |-> {}, problem |-> 0, statement |-> {}, context |-> {}, source |-> {},
            hidden |-> FALSE]
Away == [pc |-> "away", query |-> NoQuery, count |-> 1, page |-> 1, got |-> {}, again |-> {},
         due |-> {}, came |-> 0, left |-> 0]

\* The client asks for page 1, 2, ... with the same arguments.  "due", "came" and
\* "left" are history: the runs listed since it began, and how often a run entered
\* or left the list.
Open(a, n) ==
  /\ reader.pc = "away"
  /\ reader' = [Away EXCEPT !.pc = IF UnknownModule(a) THEN "failed"
                                   ELSE IF TooWide(a) THEN "not_found" ELSE "reading",
                            !.query = a, !.count = n,
                            !.due = IF UnknownModule(a) THEN {} ELSE Real(Listed(rows, a))]
  /\ UNCHANGED <<rows, changes>>

Read ==
  LET n     == PerPage(reader.count)
      list  == Listed(rows, reader.query)
      items == Real(Page(list, reader.page, n))
  IN
  /\ reader.pc = "reading"
  /\ reader' = [reader EXCEPT
       !.got = @ \cup items,
       !.again = @ \cup (reader.got \cap items),
       !.page = @ + 1,
       !.pc = IF reader.page < PageCount(list, n) THEN "reading" ELSE "read"]
  /\ UNCHANGED <<rows, changes>>

\* What the reader's history remembers of a step of the table
Observe ==
  LET old == Listed(rows, reader.query)
      new == Listed(rows', reader.query)
  IN reader' = [reader EXCEPT !.due = @ \cap new,
                              !.came = @ + Cardinality(new \ old),
                              !.left = @ + Cardinality(old \ new)]

(***************************************************************************)
(* The other writers.  The table is an arbitrary one at first, so what     *)
(* they do before the client begins or after it ended is left out.         *)
(***************************************************************************)

\* TrustedSubmitApi.post commits: ids are given at the flush, so a run may become
\* visible after one with a larger id.
Arrive(i, r) ==
  /\ reader.pc = "reading"
  /\ rows[i] = NoRun
  /\ rows' = [rows EXCEPT ![i] = [r EXCEPT !.status = InQueue]]
  /\ Observe
  /\ UNCHANGED changes

\* Bug: the status is cleared like the score.
ChangeStatusCleared(i, s) ==
  /\ reader.pc = "reading"
  /\ changes < MaxChanges
  /\ rows[i] # NoRun
  /\ rows' = [rows EXCEPT ![i].status = -1]
  /\ changes' = changes + 1
  /\ Observe

\* upd_run, RunAPI.put and RunAPI.post
ChangeStatus(i, s) ==
  /\ reader.pc = "reading"
  /\ changes < MaxChanges
  /\ rows[i] # NoRun
  /\ rows[i].status # s
  /\ rows' = [rows EXCEPT ![i].status = s]
  /\ changes' = changes + 1
  /\ Observe

Next ==
  \/ \E a \in Queries, n \in Counts : Open(a, n)
  \/ Read
  \/ \E i \in Ids, r \in Runs : Arrive(i, r)
  \/ \E i \in Ids, s \in Statuses : ChangeStatus(i, s)

Init ==
  /\ rows \in [Ids -> Runs \cup {NoRun}]
  /\ reader = Away
  /\ changes = 0

Spec == Init /\ [][Next]_vars

-----------------------------------------------------------------------------
\* Every variable has its type.
TypeOK ==
  /\ \A i \in Ids : rows[i] = NoRun \/ rows[i].status \in Statuses
  /\ reader.pc \in {"away", "reading", "read", "failed", "not_found"}
  /\ reader.query \in Queries \cup {NoQuery}
  /\ reader.count \in Counts \cup {1}
  /\ {reader.page, reader.came, reader.left} \subseteq Nat
  /\ reader.got \subseteq Ids
  /\ reader.again \subseteq reader.got
  /\ reader.due \subseteq Ids
  /\ changes \in 0 .. MaxChanges

\* A client that read all pages missed no more of the runs that were in the list
\* all the time than runs left the list meanwhile: arrivals, in whatever order
\* of ids, hide nothing, and lists without a status filter are complete.
MissesBounded ==
  reader.pc = "read" => Cardinality(reader.due \ reader.got) <= reader.left

\* Nor does it see more runs twice than runs entered the list meanwhile.
RepeatsBounded == Cardinality(reader.again) <= reader.came
=============================================================================
