---------------------------- MODULE MonitorQueries ----------------------------
(***************************************************************************)
(* What the monitor views ask of get_runs, under which key a table is      *)
(* cached, by which arguments its meta is found again when a run changes,  *)
(* and the contests and problems a monitor is made of.                     *)
(*                                                                         *)
(* Each request is one step here: MonitorCache has the interleavings of    *)
(* requests and changes, with keys and the tables behind them given.       *)
(***************************************************************************)
EXTENDS Integers, Sequences, FiniteSets, FiniteSetsExt, Functions, SequencesExt

CONSTANTS
  Modules,     \* Modules[m] of a course module: [kind, contests]
  Contests,    \* Contests[c]: its problems, a set of [problem, rank, hidden]
  Groups,      \* Groups[g]: its users, in the order they are read
  Arriving,    \* what may be submitted: [problem, user, time, context, source, visible]
  Statuses,    \* verdicts of a judge
  Requests,    \* requests to the two views
  Digits,       \* Digits[u]: digits of a user's id
  MaxKeyLen,   \* characters of arguments that a meta keeps
  None,
  MaxRuns,     \* bound: runs
  MaxAsked     \* bound: requests

InQueue == 377

\* The subclasses of CourseModuleInstance
Kinds == {"statement", "monitor", "label", "resource"}

VARIABLES
  runs,    \* the runs in the order of their ids, with their status
  store,   \* Redis: the tables by their keys
  metas,   \* monitor_cache_meta
  shown,   \* the last answer: the request, and its tables but for the runs
  asked    \* requests so far, for the bound

vars == <<runs, store, metas, shown, asked>>

-----------------------------------------------------------------------------
(***************************************************************************)
(* get_runs                                                                *)
(***************************************************************************)

Selected(call, r) ==
  /\ r.problem = call.problem_id
  /\ call.user_ids # None => r.user \in Range(call.user_ids)
  /\ call.time_after # None => r.time > call.time_after
  /\ call.time_before # None => r.time < call.time_before
  /\ call.context_id # None => r.context = call.context_id
  /\ call.context_source # None => r.source = call.context_source
  /\ call.show_hidden = FALSE => r.visible

\* The table: the statuses of the runs it lists
Table(call) == [i \in {j \in DOMAIN runs : Selected(call, runs[j])} |-> runs[i].status]

(***************************************************************************)
(* Cacher and MonitorCacheInvalidator                                      *)
(***************************************************************************)

\* Bug: an argument that is given as false is left out of the key too.
KeyOfTrue(call) ==
  RestrictDomain(call, LAMBDA a : call[a] # None /\ (a = "show_hidden" => call[a] # FALSE))

\* _filter_invalidate_kwargs, get_cache_key
Key(call) == RestrictDomain(call, LAMBDA a : call[a] # None)

\* The length of "user_ids_23", one item of _list_item_to_string
Item(u) == Len("user_ids_") + Digits[u]

\* get_invalidate_args gives "|user_ids_1|user_ids_23|time_after_5|", cut at the length
\* of its column: where the item of a user ends in it.
Ends(us, i) == FoldLeft(LAMBDA n, u : n + Item(u) + Len("|"), 1, SubSeq(us, 1, i))

\* What LIKE finds the meta by: a user whose item has both its bars, or anything when
\* there are no arguments.
Listed(us)   == {us[i] : i \in {j \in DOMAIN us : Ends(us, j) <= MaxKeyLen}}
Unnamed(call) == call.user_ids \in {None, <<>>}
Untimed(call) == call.time_after = None /\ call.time_before = None

Subscribed(call) ==
  [key |-> Key(call), problem |-> call.problem_id,
   users |-> IF Unnamed(call) THEN {} ELSE Listed(call.user_ids),
   always |-> Unnamed(call) /\ Untimed(call)]

\* wrapped: the calls whose tables are not cached
Missed(calls) == {call \in calls : Key(call) \notin DOMAIN store}

Call(r, problem_id, user_ids, context_id) ==
  [problem_id |-> problem_id, user_ids |-> user_ids, time_after |-> r.time_after,
   time_before |-> r.time_before, context_id |-> context_id,
   context_source |-> r.context_source, show_hidden |-> r.show_hidden]

\* One call after the other: the same runs are asked for each, so their order does not
\* matter, and a call that comes again finds its table.
Ask(calls) ==
  LET new == Missed(calls) IN
  /\ store' = [k \in DOMAIN store \cup {Key(call) : call \in new} |->
                 IF k \in DOMAIN store THEN store[k] ELSE Table(CHOOSE call \in new : Key(call) = k)]
  /\ metas' = metas \cup {Subscribed(call) : call \in new}

\* invalidate_monitor_cache_by_run
Invalidate(r) ==
  LET found == {m \in metas : m.problem = r.problem /\ (r.user \in m.users \/ m.always)}
  IN  /\ store' = Restrict(store, DOMAIN store \ {m.key : m \in found})
      /\ metas' = metas \ found

-----------------------------------------------------------------------------
(***************************************************************************)
(* The monitor of contests                                                 *)
(***************************************************************************)

\* CourseModule.instance: by the kind of the module, None for a kind that has no class
InstanceOf(m) == IF Modules[m].kind \in Kinds THEN Modules[m] ELSE None

\* _get_contests
ContestsOf(m) ==
  IF m \in DOMAIN Modules /\ InstanceOf(m) # None /\ InstanceOf(m).kind \in {"statement", "monitor"}
  THEN InstanceOf(m).contests ELSE <<>>

AllContests(r) == FlattenSeq([i \in DOMAIN r.modules |-> ContestsOf(r.modules[i])])

\* The keys of the OrderedDict
Distinct(s) ==
  LET upto[i \in 0 .. Len(s)] ==
        IF i = 0 THEN <<>>
        ELSE IF s[i] \in Range(upto[i - 1]) THEN upto[i - 1] ELSE Append(upto[i - 1], s[i])
  IN  upto[Len(s)]

\* ORDER BY rank
InOrder(problems) ==
  CHOOSE s \in [1 .. Cardinality(problems) -> problems] :
    /\ Range(s) = problems
    /\ \A i, j \in DOMAIN s : i < j => s[i].rank < s[j].rank

\* Bug: hidden problems are listed too.
ProblemsWithHidden(c) == InOrder(Contests[c])

\* get_problems_by_statement_id
Problems(c) == InOrder({p \in Contests[c] : ~p.hidden})

\* One Problem object serves the whole session, so the last contest that lists the
\* problem gives it the rank it shows everywhere.
RankShown(contests, problem) ==
  LET c == contests[Max({i \in DOMAIN contests :
                \E p \in Range(Problems(contests[i])) : p.problem = problem})]
  IN  (CHOOSE p \in Contests[c] : p.problem = problem).rank

\* Those of a group, or those that were posted.  The group of a monitor itself is
\* read only after this, and never used.
UsersAsked(r) ==
  IF r.method = "post" THEN r.user_ids
  ELSE IF r.group_id \in {None, 0} THEN None
  ELSE IF r.group_id \in DOMAIN Groups THEN Groups[r.group_id] ELSE <<>>

Tables(r) ==
  LET all == AllContests(r)
      contests == Distinct(all)
      of(c) == LET problems == Problems(c) IN
        [i \in DOMAIN problems |->
          [contest |-> c, problem |-> problems[i].problem,
           rank |-> RankShown(all, problems[i].problem)]]
  IN  FlattenSeq([i \in DOMAIN contests |-> of(contests[i])])

ContestCalls(r) ==
  LET tables == Tables(r) IN
  [i \in DOMAIN tables |-> Call(r, tables[i].problem, UsersAsked(r), None)]

ShowContests(r) ==
  /\ r.view = "contests"
  /\ Ask(Range(ContestCalls(r)))
  /\ shown' = [request |-> r, tables |-> Tables(r)]
  /\ asked < MaxAsked /\ asked' = asked + 1
  /\ UNCHANGED runs

(***************************************************************************)
(* The monitor of problems                                                 *)
(***************************************************************************)

\* An empty list counts as none, and the older parameter is read.
Either(new, old) == IF new \in {None, <<>>} THEN old ELSE new

ProblemCalls(r) ==
  LET problems == Either(r.problem_id, r.pid) IN
  [i \in DOMAIN problems |-> Call(r, problems[i], Either(r.user_id, r.uid), r.context_id)]

\* It fails when no problem is named.
ShowProblems(r) ==
  /\ r.view = "problems"
  /\ Either(r.problem_id, r.pid) # None
  /\ Ask(Range(ProblemCalls(r)))
  /\ shown' = [request |-> r, tables |-> Either(r.problem_id, r.pid)]
  /\ asked < MaxAsked /\ asked' = asked + 1
  /\ UNCHANGED runs

-----------------------------------------------------------------------------
(***************************************************************************)
(* The runs change                                                         *)
(***************************************************************************)

\* TrustedSubmitApi.post
Submit(r) ==
  /\ Len(runs) < MaxRuns
  /\ runs' = Append(runs, [status |-> InQueue, problem |-> r.problem, user |-> r.user,
                          time |-> r.time, context |-> r.context, source |-> r.source,
                          visible |-> r.visible])
  /\ UNCHANGED <<store, metas, shown, asked>>

\* upd_run, then invalidate_cache
Judged(i, s) ==
  /\ runs' = [runs EXCEPT ![i].status = s]
  /\ Invalidate(runs[i])
  /\ UNCHANGED <<shown, asked>>

\* RunAPI.post
Rejudge(i) ==
  /\ runs[i].status # InQueue
  /\ runs' = [runs EXCEPT ![i].status = InQueue]
  /\ UNCHANGED <<store, metas, shown, asked>>

\* Redis drops a table after its period; its meta stays.
Expire(k) ==
  /\ store' = Restrict(store, DOMAIN store \ {k})
  /\ UNCHANGED <<runs, metas, shown, asked>>

Init ==
  /\ runs = <<>>
  /\ store = <<>>
  /\ metas = {}
  /\ shown = None
  /\ asked = 0

Next ==
  \/ \E r \in Requests : ShowContests(r) \/ ShowProblems(r)
  \/ \E r \in Arriving : Submit(r)
  \/ \E i \in DOMAIN runs : (\E s \in Statuses : Judged(i, s)) \/ Rejudge(i)
  \/ \E k \in DOMAIN store : Expire(k)

Spec == Init /\ [][Next]_vars

-----------------------------------------------------------------------------
\* The calls the requests make
Calls ==
  UNION {IF r.view = "contests" THEN Range(ContestCalls(r))
         ELSE IF Either(r.problem_id, r.pid) = None THEN {} ELSE Range(ProblemCalls(r))
           : r \in Requests}

\* Whatever call it was first computed for, a table that is cached is the one every
\* call with its key would compute now, for the runs that have a verdict.  Not so for
\* a table that names no users but a time, which no change of a run finds again, and
\* for the users whose names did not fit into its meta.
StoredIsFresh ==
  DOMAIN store # {} => \A call \in Calls : Key(call) \in DOMAIN store =>
    LET stored == store[Key(call)]
        found(u) == IF Unnamed(call) THEN Untimed(call) ELSE u \in Listed(call.user_ids)
    IN
    \A i \in DOMAIN runs : runs[i].status # InQueue /\ found(runs[i].user) =>
      /\ i \in DOMAIN stored <=> Selected(call, runs[i])
      /\ i \in DOMAIN stored => stored[i] = runs[i].status

\* A monitor has one table for each problem that a contest asked for shows, in the
\* order of the contest, whichever course modules lead to the contest and however
\* often.  A problem has its own rank there unless another of the contests has it too.
ContestsAreWhole ==
  shown # None /\ shown.request.view = "contests" =>
    LET contests == UNION {Range(ContestsOf(m)) : m \in Range(shown.request.modules)}
        ts == shown.tables
        own(t) == CHOOSE p \in Contests[t.contest] : p.problem = t.problem
    IN
    /\ {<<t.contest, t.problem>> : t \in Range(ts)} =
         UNION {{<<c, p.problem>> : p \in {q \in Contests[c] : ~q.hidden}} : c \in contests}
    /\ \A i, j \in DOMAIN ts : i < j /\ ts[i].contest = ts[j].contest =>
         /\ own(ts[i]).rank < own(ts[j]).rank
         /\ \A k \in i .. j : ts[k].contest = ts[i].contest
    /\ \A t \in Range(ts) :
         \/ t.rank = own(t).rank
         \/ \E u \in Range(ts) : u.problem = t.problem /\ u.contest # t.contest /\ t.rank = own(u).rank
=============================================================================
