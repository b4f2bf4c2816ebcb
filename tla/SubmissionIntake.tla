--------------------------- MODULE SubmissionIntake ---------------------------
(***************************************************************************)
(* TrustedSubmitApi.post from its first check to its answer, for requests  *)
(* that run at the same time.  Each request is a MySQL transaction and one *)
(* insert into Mongo; no constraint of the database backs the check for    *)
(* duplicates, and no transaction spans the two stores.                    *)
(*                                                                         *)
(* MySQL is external: a transaction reads the snapshot of its first query, *)
(* and the counter of the ids survives a rollback but not a restart, after *)
(* which it follows the largest id of the table (InnoDB before MySQL 8;    *)
(* docker/docker-compose.yml runs MariaDB 5.5).                            *)
(***************************************************************************)
EXTENDS Integers, Sequences, FiniteSets

CONSTANTS
  Requests,     \* POSTs of submissions
  Asks,         \* what a POST may carry: user, problem, lang and text
  Problems,     \* problems the database knows
  OutputOnly,   \* those of them whose answer is an output file
  Size,         \* Size[t]: bytes of the text t
  MaxIds,       \* bound: rows inserted
  MaxFaults,    \* bound: handlers that die or meet an exception
  MaxRestarts   \* bound: restarts of the MySQL server

ASSUME ConstantsAssumption ==
  /\ OutputOnly \subseteq Problems
  /\ \A a \in Asks : a.user \in Int /\ Size[a.text] \in Nat
  /\ {MaxIds, MaxFaults, MaxRestarts} \subseteq Nat

VARIABLES
  rows,      \* MySQL: committed rows, by id
  nextId,    \* MySQL: the counter behind the ids
  docs,      \* Mongo: the source documents of an id, oldest first
  tasks,     \* broker: ids submit_task was enqueued for
  request,   \* the handlers
  spent,     \* faults and restarts so far
  issued,    \* history: ids given to some insert
  reused     \* history: ids given to more than one

mysql   == <<rows, nextId, issued, reused>>
vars    == <<rows, nextId, docs, tasks, request, spent, issued, reused>>

Ids   == 1 .. MaxIds
NoAsk == [user |-> 0, problem |-> "none", lang |-> "none", text |-> "none"]
NoRow == [ask |-> NoAsk, after |-> {}]
Idle  == [pc |-> "idle", ask |-> NoAsk, seen |-> {}, id |-> 0, alive |-> TRUE]

Stored == {i \in Ids : rows[i] # NoRow}

-----------------------------------------------------------------------------
Init ==
  /\ rows = [i \in Ids |-> NoRow]
  /\ nextId = 1
  /\ docs = [i \in Ids |-> <<>>]
  /\ tasks = {}
  /\ request = [q \in Requests |-> Idle]
  /\ spent = [faults |-> 0, restarts |-> 0]
  /\ issued = {}
  /\ reused = {}

-----------------------------------------------------------------------------
\* check_file_restriction: at most Limit bytes are read, and as many mean too many
Limit(p)    == IF p \in OutputOnly THEN 16 * 1024 * 1024 ELSE 64 * 1024
TooLarge(a) == Size[a.text] >= Limit(a.problem)
Empty(a)    == Size[a.text] < 4

\* The checks, in the order of the handler
Refusal(a) ==
  IF a.problem \notin Problems THEN "not_found"
  ELSE IF a.user <= 0 THEN "wrong_user"
  ELSE IF TooLarge(a) THEN "too_large"
  ELSE IF Empty(a) THEN "empty"
  ELSE "none"

\* The query for the problem opens the transaction: from here on the handler
\* reads the rows committed by now.
Lookup(q, a) ==
  /\ request[q].pc = "idle"
  /\ request' = [request EXCEPT ![q] =
       [Idle EXCEPT !.pc = IF Refusal(a) = "none" THEN "valid" ELSE Refusal(a),
                    !.ask = a, !.seen = Stored]]
  /\ UNCHANGED <<mysql, docs, tasks, spent>>

\* Runs of the same user and problem, and the same text and language too.
Rivals(a, ids) == {i \in ids : rows[i].ask.user = a.user /\ rows[i].ask.problem = a.problem}
Same(a, b)     == a.text = b.text /\ a.lang = b.lang

\* Bug: any earlier run is compared with, not the last one.
DuplicateOfFirst(a, ids) ==
  \E i \in Rivals(a, ids) :
    /\ \A k \in Rivals(a, ids) : i <= k
    /\ Same(rows[i].ask, a)

\* The last run by id, of the snapshot
Duplicate(a, ids) ==
  \E i \in Rivals(a, ids) :
    /\ \A k \in Rivals(a, ids) : k <= i
    /\ Same(rows[i].ask, a)

RefuseDuplicate(q) ==
  /\ request[q].pc = "valid"
  /\ request[q].alive
  /\ Duplicate(request[q].ask, request[q].seen)
  /\ request' = [request EXCEPT ![q].pc = "duplicate"]
  /\ UNCHANGED <<mysql, docs, tasks, spent>>

\* session.flush: the row gets its id, which others do not see yet
Flush(q) ==
  /\ request[q].pc = "valid"
  /\ request[q].alive
  /\ ~Duplicate(request[q].ask, request[q].seen)
  /\ nextId \in Ids
  /\ nextId' = nextId + 1
  /\ issued' = issued \cup {nextId}
  /\ reused' = IF nextId \in issued THEN reused \cup {nextId} ELSE reused
  /\ request' = [request EXCEPT ![q].pc = "flushed", ![q].id = nextId]
  /\ UNCHANGED <<rows, docs, tasks, spent>>

\* run.update_source: Mongo knows nothing of the transaction
UpdateSource(q) ==
  /\ request[q].pc = "flushed"
  /\ docs' = [docs EXCEPT ![request[q].id] = Append(@, request[q].ask.text)]
  /\ request' = [request EXCEPT ![q].pc = "sourced"]
  /\ UNCHANGED <<mysql, tasks, spent>>

\* Bug: the commit does not wait for the source.
CommitEarly(q) ==
  /\ request[q].pc \in {"flushed", "sourced"}
  /\ request[q].alive
  /\ rows' = [rows EXCEPT ![request[q].id] =
                [ask |-> request[q].ask, after |-> request[q].seen]]
  /\ request' = [request EXCEPT ![q].pc = "committed"]
  /\ UNCHANGED <<nextId, issued, reused, docs, tasks, spent>>

Commit(q) ==
  /\ request[q].pc = "sourced"
  /\ request[q].alive
  /\ rows' = [rows EXCEPT ![request[q].id] =
                [ask |-> request[q].ask, after |-> request[q].seen]]
  /\ request' = [request EXCEPT ![q].pc = "committed"]
  /\ UNCHANGED <<nextId, issued, reused, docs, tasks, spent>>

\* Bug: the task is given the user's id.
DelayUser(q) ==
  /\ request[q].pc = "committed"
  /\ tasks' = tasks \cup {request[q].ask.user}
  /\ request' = [request EXCEPT ![q].pc = "ok"]
  /\ UNCHANGED <<mysql, docs, spent>>

\* submit_task.delay, and the answer
Delay(q) ==
  /\ request[q].pc = "committed"
  /\ tasks' = tasks \cup {request[q].id}
  /\ request' = [request EXCEPT ![q].pc = "ok"]
  /\ UNCHANGED <<mysql, docs, spent>>

\* The process dies, or Mongo, MySQL or the broker fails a call: an open
\* transaction is rolled back, a document already inserted stays.
Fail(q) ==
  /\ request[q].pc \in {"valid", "flushed", "sourced", "committed"}
  /\ spent.faults < MaxFaults
  /\ spent' = [spent EXCEPT !.faults = @ + 1]
  /\ request' = [request EXCEPT ![q].pc = "error"]
  /\ UNCHANGED <<mysql, docs, tasks>>

\* A query on a connection that a restart closed
Disconnected(q) ==
  /\ request[q].pc \in {"valid", "sourced"}
  /\ ~request[q].alive
  /\ request' = [request EXCEPT ![q].pc = "error"]
  /\ UNCHANGED <<mysql, docs, tasks, spent>>

\* External: open transactions end, the counter is computed anew.
InTransaction == {q \in Requests : request[q].pc \in {"valid", "flushed", "sourced"}}

Restart ==
  /\ spent.restarts < MaxRestarts
  /\ spent' = [spent EXCEPT !.restarts = @ + 1]
  /\ nextId' \in 1 .. MaxIds + 1
  /\ \A i \in Stored : i < nextId'
  /\ nextId' = 1 \/ nextId' - 1 \in Stored
  /\ request' = [q \in Requests |->
       IF q \in InTransaction THEN [request[q] EXCEPT !.alive = FALSE] ELSE request[q]]
  /\ UNCHANGED <<rows, issued, reused, docs, tasks>>

-----------------------------------------------------------------------------
Next ==
  \/ \E q \in Requests :
       \/ \E a \in Asks : Lookup(q, a)
       \/ RefuseDuplicate(q) \/ Flush(q) \/ UpdateSource(q) \/ Commit(q) \/ Delay(q)
       \/ Fail(q) \/ Disconnected(q)
  \/ Restart

Spec == Init /\ [][Next]_vars

-----------------------------------------------------------------------------
Refusals == {"not_found", "wrong_user", "too_large", "empty", "duplicate"}
Pcs      == {"idle", "valid", "flushed", "sourced", "committed", "ok", "error"} \cup Refusals
Request  == [pc : Pcs, ask : Asks \cup {NoAsk}, seen : SUBSET Ids,
             id : Ids \cup {0}, alive : BOOLEAN]
Texts    == {a.text : a \in Asks}

\* Every variable has its type.
TypeOK ==
  /\ rows \in [Ids -> [ask : Asks \cup {NoAsk}, after : SUBSET Ids]]
  /\ nextId \in 1 .. MaxIds + 1
  /\ docs \in [Ids -> Seq(Texts)]
  /\ tasks \subseteq Ids
  /\ request \in [Requests -> Request]
  /\ spent \in [faults : 0 .. MaxFaults, restarts : 0 .. MaxRestarts]
  /\ issued \subseteq Ids
  /\ reused \subseteq issued

\* The duplicate check and the insert are two statements, and rows become visible
\* in another order than they get their ids.  Still, of two runs with the same
\* user, problem, language and text, the second was sent before the first was
\* stored, or the user sent something else in between.
DuplicateRefused ==
  \A j \in Stored : \A i \in Rivals(rows[j].ask, rows[j].after) :
    Same(rows[i].ask, rows[j].ask) =>
      \E k \in Rivals(rows[j].ask, rows[j].after) : i < k /\ k < j

\* A handler that dies leaves its source document in Mongo without a row.  The
\* run a judge gets the source of has exactly one document, the text its user
\* sent, unless MySQL gave the id of the dead handler to another run.
SourceIsOwn ==
  \A i \in Stored \ reused : docs[i] = <<rows[i].ask.text>>
=============================================================================
