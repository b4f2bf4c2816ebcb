----------------------------- MODULE MonitorCache -----------------------------
(***************************************************************************)
(* The cache of monitor tables: get_runs wrapped by Cacher, the Redis lock *)
(* around it, the metas MonitorCacheInvalidator keeps in MySQL, and the    *)
(* ways a run changes under a cached table.                                *)
(*                                                                         *)
(* Redis, MySQL's committed state and the session of a request are three   *)
(* places: a table reaches Redis before the meta that lets an invalidation *)
(* find it is committed, and a meta is deleted after the table.            *)
(* What a table shows of a user's runs is the number of changes it has     *)
(* seen; the problem is fixed.                                             *)
(***************************************************************************)
EXTENDS Naturals

CONSTANTS
  Users,       \* users with runs of the problem
  Keys,        \* cache keys, one per combination of get_runs arguments
  Covers,      \* Covers[k]: the users whose runs the table of k shows
  Named,       \* keys whose arguments list user_ids
  Timed,       \* keys with time_after or time_before
  Requests,    \* monitor requests, each of which calls get_runs once
  KeyOf,       \* KeyOf[q]: the cache key of request q
  ProcessOf,   \* ProcessOf[q]: the web process whose thread serves q
  Changes,     \* changes of runs
  UserOf,      \* UserOf[c]: whose run the change c is about
  KindOf,      \* KindOf[c]: the code that makes the change, one of Kinds
  MaxSlow,     \* bound: locks that expire while their holder is at work
  MaxCrashes   \* bound: requests, handlers and tasks that die half way

\* "task":   upd_run, then invalidate_cache
\* "put":    RunAPI.put, and the v1 notification that names a protocol
\* "silent": a submission, RunAPI.post, the v1 notification that names none
Kinds == {"task", "put", "silent"}

ASSUME CacheAssumption ==
  /\ Covers \in [Keys -> SUBSET Users]
  /\ Named \subseteq Keys /\ Timed \subseteq Keys
  /\ \A k \in Keys \ Named : Covers[k] = Users
  /\ KeyOf \in [Requests -> Keys]
  /\ UserOf \in [Changes -> Users]
  /\ KindOf \in [Changes -> Kinds]
  /\ MaxSlow \in Nat /\ MaxCrashes \in Nat

CONSTANT None
ASSUME NoneAssumption == None \notin Requests

VARIABLES
  row,      \* MySQL: how often the runs of each user have changed
  metas,    \* MySQL: committed rows of monitor_cache_meta
  store,    \* Redis: the cached tables
  lock,     \* Redis: who holds the lock of a key
  locks,    \* RedisLocker._locks of each process
  request,  \* the monitor requests
  change,   \* the changes
  used      \* how much of each bound is spent

vars == <<row, metas, store, lock, locks, request, change, used>>

Processes == {ProcessOf[q] : q \in Requests}
Unseen    == [u \in Users |-> 0]
NoEntry   == [by |-> None, seen |-> Unseen, ttl |-> FALSE]
Meta(q)   == [key |-> KeyOf[q], by |-> q]

Init ==
  /\ row = Unseen
  /\ metas = {}
  /\ store = [k \in Keys |-> NoEntry]
  /\ lock = [k \in Keys |-> None]
  /\ locks = [p \in Processes |-> [k \in Keys |-> None]]
  /\ request = [q \in Requests |-> [pc |-> "idle", seen |-> Unseen]]
  /\ change = [c \in Changes |->
       [pc |-> "idle", ver |-> 0, found |-> {}, left |-> {}, overlap |-> {}]]
  /\ used = [slow |-> 0, crashes |-> 0]

Spend(kind, bound) ==
  /\ used[kind] < bound
  /\ used' = [used EXCEPT ![kind] = @ + 1]

-----------------------------------------------------------------------------
(***************************************************************************)
(* A monitor request: Cacher.__call__.wrapped around get_runs, then the    *)
(* commit of the view.                                                     *)
(***************************************************************************)

At(q, pc)   == request[q].pc = pc
Step(q, pc) == request' = [request EXCEPT ![q].pc = pc]

\* Bug: nobody looks whether the lock was granted.
AcquireAnyway(q) ==
  LET k == KeyOf[q] IN
  /\ At(q, "idle")
  /\ lock' = [lock EXCEPT ![k] = IF @ = None THEN q ELSE @]
  /\ locks' = [locks EXCEPT ![ProcessOf[q]][k] = q]
  /\ Step(q, "locked")
  /\ UNCHANGED <<row, metas, store, change, used>>

\* take_possession; a request that does not get the lock sleeps and tries again.
Acquire(q) ==
  LET k == KeyOf[q] IN
  /\ At(q, "idle")
  /\ lock[k] = None
  /\ lock' = [lock EXCEPT ![k] = q]
  /\ locks' = [locks EXCEPT ![ProcessOf[q]][k] = q]
  /\ Step(q, "locked")
  /\ UNCHANGED <<row, metas, store, change, used>>

Lookup(q) ==
  /\ At(q, "locked")
  /\ Step(q, IF store[KeyOf[q]] = NoEntry THEN "computing" ELSE "hit")
  /\ UNCHANGED <<row, metas, store, lock, locks, change, used>>

\* get_runs reads, on a connection of its own, what is committed.
Compute(q) ==
  /\ At(q, "computing")
  /\ request' = [request EXCEPT ![q] =
       [pc |-> "setting", seen |-> [u \in Users |-> IF u \in Covers[KeyOf[q]] THEN row[u] ELSE 0]]]
  /\ UNCHANGED <<row, metas, store, lock, locks, change, used>>

StoreSet(q) ==
  /\ At(q, "setting")
  /\ store' = [store EXCEPT ![KeyOf[q]] = [by |-> q, seen |-> request[q].seen, ttl |-> FALSE]]
  /\ Step(q, "expiring")
  /\ UNCHANGED <<row, metas, lock, locks, change, used>>

\* Bug: the entry gets no expiration time.
StoreExpireForgotten(q) ==
  /\ At(q, "expiring")
  /\ Step(q, "unlocking")
  /\ UNCHANGED <<row, metas, store, lock, locks, change, used>>

\* EXPIRE has no effect on an entry that has been deleted meanwhile.
StoreExpire(q) ==
  LET k == KeyOf[q] IN
  /\ At(q, "expiring")
  /\ store' = [store EXCEPT ![k] =
       IF @ = NoEntry THEN @ ELSE [by |-> @.by, seen |-> @.seen, ttl |-> TRUE]]
  /\ Step(q, "unlocking")
  /\ UNCHANGED <<row, metas, lock, locks, change, used>>

\* Redlock deletes the lock if it still has the value of the last lock that a
\* thread of this process took for the key.
Release(q) ==
  lock' = [lock EXCEPT ![KeyOf[q]] = IF @ = locks[ProcessOf[q]][KeyOf[q]] THEN None ELSE @]

ServeHit(q) ==
  /\ At(q, "hit")
  /\ Release(q)
  /\ Step(q, "served")
  /\ UNCHANGED <<row, metas, store, locks, change, used>>

\* subscribe only adds the meta to the session
Unlock(q) ==
  /\ At(q, "unlocking")
  /\ Release(q)
  /\ Step(q, "subscribed")
  /\ UNCHANGED <<row, metas, store, locks, change, used>>

Commit(q) ==
  /\ At(q, "subscribed")
  /\ metas' = metas \cup {Meta(q)}
  /\ Step(q, "done")
  /\ UNCHANGED <<row, store, lock, locks, change, used>>

\* An exception or a kill: take_possession has no finally, so a lock stays.
Crash(q) ==
  /\ request[q].pc \notin {"idle", "served", "done", "crashed"}
  /\ Spend("crashes", MaxCrashes)
  /\ Step(q, "crashed")
  /\ UNCHANGED <<row, metas, store, lock, locks, change>>

\* External: Redis drops an entry, or a lock, whose time is over.
EntryExpires(k) ==
  /\ store[k].ttl
  /\ store' = [store EXCEPT ![k] = NoEntry]
  /\ UNCHANGED <<row, metas, lock, locks, request, change, used>>

LockExpires(k) ==
  /\ lock[k] # None
  /\ IF request[lock[k]].pc = "crashed" THEN UNCHANGED used ELSE Spend("slow", MaxSlow)
  /\ lock' = [lock EXCEPT ![k] = None]
  /\ UNCHANGED <<row, metas, store, locks, request, change>>

-----------------------------------------------------------------------------
(***************************************************************************)
(* Changes of runs, and MonitorCacheInvalidator.invalidate.                *)
(***************************************************************************)

InFlight == {q \in Requests : request[q].pc \notin {"idle", "served", "done", "crashed"}}

\* Bug: metas without arguments are not matched.
WatchesNamedOnly(k, u) == k \in Named /\ u \in Covers[k]

\* Whether the LIKE of invalidate() for user u finds the metas of key k: they
\* list the users of the arguments and their times, and are empty without any.
Watches(k, u) == IF k \in Named THEN u \in Covers[k] ELSE k \notin Timed

\* The row is committed, by upd_run or by a handler that leaves the cache alone.
Write(c) ==
  LET u == UserOf[c] IN
  /\ change[c].pc = "idle"
  /\ KindOf[c] \in {"task", "silent"}
  /\ row' = [row EXCEPT ![u] = @ + 1]
  /\ change' = [change EXCEPT ![c].ver = row[u] + 1,
                              ![c].pc = IF KindOf[c] = "task" THEN "written" ELSE "done"]
  /\ UNCHANGED <<metas, store, lock, locks, request, used>>

\* Bug: the metas are removed from Redis, not their keys.
FindMetasForKeys(c) ==
  LET found == {m \in metas : Watches(m.key, UserOf[c])} IN
  change' = [change EXCEPT ![c] =
    [pc |-> "removing", ver |-> @.ver, found |-> found, left |-> found, overlap |-> InFlight]]

\* Look for the metas, in the snapshot of the transaction that loaded the run.
FindMetas(c) ==
  LET found == {m \in metas : Watches(m.key, UserOf[c])} IN
  change' = [change EXCEPT ![c] =
    [pc |-> "removing", ver |-> @.ver, found |-> found,
     left |-> {m.key : m \in found}, overlap |-> InFlight]]

TaskLoad(c) ==
  /\ change[c].pc = "written"
  /\ FindMetas(c)
  /\ UNCHANGED <<row, metas, store, lock, locks, request, used>>

\* The new values are in the session of the handler, not yet committed.
PutLoad(c) ==
  /\ change[c].pc = "idle"
  /\ KindOf[c] = "put"
  /\ FindMetas(c)
  /\ UNCHANGED <<row, metas, store, lock, locks, request, used>>

Remove(c, k) ==
  /\ k \in change[c].left
  /\ store' = [store EXCEPT ![k] = NoEntry]
  /\ change' = [change EXCEPT ![c].left = @ \ {k}]
  /\ UNCHANGED <<row, metas, lock, locks, request, used>>

Removed(c) == change[c].pc = "removing" /\ change[c].left = {}

\* The task ends with a rollback: the metas it deleted come back.
TaskEnd(c) ==
  /\ Removed(c) /\ KindOf[c] = "task"
  /\ change' = [change EXCEPT ![c].pc = "done"]
  /\ UNCHANGED <<row, metas, store, lock, locks, request, used>>

\* Bug: the metas are deleted by key, not one by one.
PutCommitByKey(c) ==
  /\ Removed(c) /\ KindOf[c] = "put"
  /\ row' = [row EXCEPT ![UserOf[c]] = @ + 1]
  /\ metas' = {m \in metas : \A n \in change[c].found : m.key # n.key}
  /\ change' = [change EXCEPT ![c].pc = "done"]
  /\ UNCHANGED <<store, lock, locks, request, used>>

\* The run and the deletion of the metas found are committed together.
PutCommit(c) ==
  /\ Removed(c) /\ KindOf[c] = "put"
  /\ row' = [row EXCEPT ![UserOf[c]] = @ + 1]
  /\ metas' = metas \ change[c].found
  /\ change' = [change EXCEPT ![c].pc = "done"]
  /\ UNCHANGED <<store, lock, locks, request, used>>

\* The handler fails, or the task is killed or runs out of retries.
GiveUp(c) ==
  /\ change[c].pc \in {"written", "removing"}
  /\ Spend("crashes", MaxCrashes)
  /\ change' = [change EXCEPT ![c].pc = "lost", ![c].left = {}]
  /\ UNCHANGED <<row, metas, store, lock, locks, request>>

-----------------------------------------------------------------------------
RequestStep(q) ==
  \/ Acquire(q)
  \/ Lookup(q)
  \/ Compute(q)
  \/ StoreSet(q)
  \/ StoreExpire(q)
  \/ ServeHit(q)
  \/ Unlock(q)
  \/ Commit(q)

ChangeStep(c) ==
  \/ TaskLoad(c)
  \/ \E k \in Keys : Remove(c, k)
  \/ TaskEnd(c)
  \/ PutCommit(c)

Next ==
  \/ \E q \in Requests : RequestStep(q) \/ Crash(q)
  \/ \E k \in Keys : EntryExpires(k) \/ LockExpires(k)
  \/ \E c \in Changes : Write(c) \/ PutLoad(c) \/ ChangeStep(c) \/ GiveUp(c)

Spec == Init /\ [][Next]_vars

\* Threads and tasks that started keep running; Redis honours expiration times,
\* also those of locks whose holder is dead.
Fairness ==
  /\ \A q \in Requests : WF_vars(RequestStep(q) /\ ~At(q, "idle"))
  /\ \A c \in Changes : WF_vars(ChangeStep(c))
  /\ \A k \in Keys : WF_vars(EntryExpires(k))
  /\ \A k \in Keys : WF_vars(LockExpires(k) /\ used' = used)

LiveSpec == Spec /\ Fairness

-----------------------------------------------------------------------------
Holder    == Requests \cup {None}
MetaRow   == [key : Keys, by : Requests]
Table     == [Users -> Nat]
Entry     == [by : Holder, seen : Table, ttl : BOOLEAN]
Pcs       == {"idle", "locked", "computing", "setting", "expiring", "unlocking", "hit",
              "subscribed", "served", "done", "crashed"}
Request   == [pc : Pcs, seen : Table]
ChangeRec == [pc : {"idle", "written", "removing", "done", "lost"}, ver : Nat,
              found : SUBSET MetaRow, left : SUBSET Keys, overlap : SUBSET Requests]

\* Every variable has its type.
TypeOK ==
  /\ row \in Table
  /\ metas \subseteq MetaRow
  /\ store \in [Keys -> Entry]
  /\ lock \in [Keys -> Holder]
  /\ locks \in [Processes -> [Keys -> Holder]]
  /\ request \in [Requests -> Request]
  /\ change \in [Changes -> ChangeRec]
  /\ used \in [{"slow", "crashes"} -> Nat]

\* Whatever invalidations did meanwhile, a cached table whose request has ended
\* can still be found: its meta is committed and nobody else deleted it.
CachedTableHasMeta ==
  \A k \in Keys :
    store[k] # NoEntry /\ At(store[k].by, "done") => Meta(store[k].by) \in metas

\* Once the invalidate_cache of an update has ended, a cached table of that user
\* shows the update, unless it is limited in time only, or the request that
\* cached it was under way when the task looked for metas, or died.
InvalidationReachesTables ==
  \A c \in Changes, k \in Keys :
    LET e == store[k] IN
    /\ KindOf[c] = "task" /\ change[c].pc = "done"
    /\ UserOf[c] \in Covers[k] /\ k \in Named \cup (Keys \ Timed)
    /\ e # NoEntry
    => \/ e.seen[UserOf[c]] >= change[c].ver
       \/ e.by \in change[c].overlap
       \/ At(e.by, "crashed")

\* Cacher: the lock is there "to avoid raise conditions and multiply function
\* executing": no two live requests compute and store the same table.
OneFillPerKey ==
  \A p, q \in Requests :
    /\ KeyOf[p] = KeyOf[q]
    /\ request[p].pc \in {"computing", "setting", "expiring"}
    /\ request[q].pc \in {"computing", "setting", "expiring"}
    => p = q

Fresh(k) == \A u \in Covers[k] : store[k].seen[u] = row[u]

\* Without any luck in the races above, time repairs the cache: when runs stop
\* changing, each key ends up empty or up to date, unless a request died right
\* between SET and EXPIRE and left a table without an expiration time.
EventuallyFresh ==
  \A k \in Keys :
    <>[](\/ store[k] = NoEntry
         \/ Fresh(k)
         \/ At(store[k].by, "crashed") /\ ~store[k].ttl)
=============================================================================
