-------------------------- MODULE MonitorCache_proofs --------------------------
(***************************************************************************)
(* What TLAPS proves of MonitorCache, for every set of users, cache keys,  *)
(* requests and changes, and every bound.                                  *)
(***************************************************************************)
EXTENDS MonitorCache, TLAPS

(***************************************************************************)
(* Type correctness.                                                       *)
(***************************************************************************)

\* The initial state has the right types.
LEMMA TypeInit == Init => TypeOK
BY CacheAssumption
   DEF Init, TypeOK, Unseen, NoEntry, Processes, Table, Entry, Holder, Request, Pcs, ChangeRec

\* What a look-up finds, and its keys, have the right types.
LEMMA FoundType ==
  ASSUME TypeOK, NEW c \in Changes
  PROVE  LET found == {m \in metas : Watches(m.key, UserOf[c])}
         IN  found \in SUBSET MetaRow /\ {m.key : m \in found} \in SUBSET Keys
BY DEF TypeOK, MetaRow

\* Spending from a bound keeps the type of the counters.
LEMMA SpendType ==
  ASSUME TypeOK, NEW kind \in {"slow", "crashes"}, NEW bound, Spend(kind, bound)
  PROVE  used' \in [{"slow", "crashes"} -> Nat]
BY DEF TypeOK, Spend

\* Moving a request to another point keeps its type.
LEMMA StepType ==
  ASSUME TypeOK, NEW q \in Requests, NEW pc \in Pcs, Step(q, pc)
  PROVE  request' \in [Requests -> Request]
BY DEF TypeOK, Step, Request

\* A field of a change gets a value of its type.
LEMMA ChangeType ==
  ASSUME TypeOK, NEW c \in Changes, NEW rec \in ChangeRec, change' = [change EXCEPT ![c] = rec]
  PROVE  change' \in [Changes -> ChangeRec]
BY DEF TypeOK

\* Giving an entry its expiration time keeps its type.
LEMMA EntryType ==
  ASSUME TypeOK, NEW k \in Keys, NEW e \in Entry, store' = [store EXCEPT ![k] = e]
  PROVE  store' \in [Keys -> Entry]
BY DEF TypeOK

\* The absent entry is an Entry.
LEMMA NoEntryType == NoEntry \in Entry
BY DEF NoEntry, Unseen, Entry, Holder, Table

\* The steps of a monitor request keep the types.
LEMMA TypeRequest ==
  ASSUME TypeOK, NEW q \in Requests, RequestStep(q) \/ Crash(q)
  PROVE  TypeOK'
<1>k. KeyOf[q] \in Keys /\ ProcessOf[q] \in Processes
  BY CacheAssumption DEF Processes
<1>p. {"locked", "computing", "hit", "expiring", "unlocking", "served", "subscribed", "done",
       "crashed"} \subseteq Pcs
  BY DEF Pcs
<1>1. CASE Acquire(q)
  <2>1. request' \in [Requests -> Request]
    BY <1>1, <1>p, StepType DEF Acquire
  <2>2. lock' \in [Keys -> Holder]
    BY <1>1, <1>k DEF Acquire, TypeOK, Holder
  <2>3. locks' = [locks EXCEPT ![ProcessOf[q]] = [@ EXCEPT ![KeyOf[q]] = q]]
    BY <1>1 DEF Acquire
  <2>4. locks[ProcessOf[q]] \in [Keys -> Holder]
    BY <1>k DEF TypeOK
  <2>5. [locks[ProcessOf[q]] EXCEPT ![KeyOf[q]] = q] \in [Keys -> Holder]
    BY <2>4 DEF Holder
  <2>6. locks' \in [Processes -> [Keys -> Holder]]
    BY <1>k, <2>3, <2>5 DEF TypeOK
  <2> QED  BY <1>1, <2>1, <2>2, <2>6 DEF Acquire, TypeOK
<1>2. CASE Lookup(q)
  BY <1>2, <1>p, StepType DEF Lookup, TypeOK
<1>3. CASE Compute(q)
  <2> DEFINE seen == [u \in Users |-> IF u \in Covers[KeyOf[q]] THEN row[u] ELSE 0]
  <2>1. seen \in Table
    BY DEF TypeOK, Table
  <2>2. request' = [request EXCEPT ![q] = [pc |-> "setting", seen |-> seen]]
    BY <1>3 DEF Compute
  <2> HIDE DEF seen
  <2>3. request' \in [Requests -> Request]
    BY <2>1, <2>2 DEF TypeOK, Request, Pcs
  <2> QED  BY <1>3, <2>3 DEF Compute, TypeOK
<1>4. CASE StoreSet(q)
  <2>1. [by |-> q, seen |-> request[q].seen, ttl |-> FALSE] \in Entry
    BY DEF TypeOK, Request, Entry, Holder
  <2>2. store' \in [Keys -> Entry]
    BY <1>4, <1>k, <2>1, EntryType DEF StoreSet
  <2> QED  BY <1>4, <1>p, <2>2, StepType DEF StoreSet, TypeOK
<1>5. CASE StoreExpire(q)
  <2> DEFINE old == store[KeyOf[q]]
             new == IF old = NoEntry THEN old
                    ELSE [by |-> old.by, seen |-> old.seen, ttl |-> TRUE]
  <2>1. old \in Entry
    BY <1>k DEF TypeOK
  <2>2. new \in Entry
    BY <2>1 DEF Entry
  <2>3. store' = [store EXCEPT ![KeyOf[q]] = new]
    BY <1>5 DEF StoreExpire
  <2>4. store' \in [Keys -> Entry]
    BY <1>k, <2>2, <2>3, EntryType
  <2> QED  BY <1>5, <1>p, <2>4, StepType DEF StoreExpire, TypeOK
<1>6. CASE ServeHit(q)
  <2>1. lock' \in [Keys -> Holder]
    BY <1>6 DEF ServeHit, Release, TypeOK, Holder
  <2> QED  BY <1>6, <1>p, <2>1, StepType DEF ServeHit, TypeOK
<1>7. CASE Unlock(q)
  <2>1. lock' \in [Keys -> Holder]
    BY <1>7 DEF Unlock, Release, TypeOK, Holder
  <2> QED  BY <1>7, <1>p, <2>1, StepType DEF Unlock, TypeOK
<1>8. CASE Commit(q)
  <2>1. metas' \subseteq MetaRow
    BY <1>8, <1>k DEF Commit, TypeOK, Meta, MetaRow
  <2> QED  BY <1>8, <1>p, <2>1, StepType DEF Commit, TypeOK
<1>9. CASE Crash(q)
  BY <1>9, <1>p, StepType, SpendType DEF Crash, TypeOK
<1> QED
  BY <1>1, <1>2, <1>3, <1>4, <1>5, <1>6, <1>7, <1>8, <1>9 DEF RequestStep

\* A crash and the expirations of Redis keep the types.
LEMMA TypeRedis ==
  ASSUME TypeOK, NEW k \in Keys, EntryExpires(k) \/ LockExpires(k)
  PROVE  TypeOK'
<1>1. CASE EntryExpires(k)
  BY <1>1, NoEntryType, EntryType DEF EntryExpires, TypeOK
<1>2. CASE LockExpires(k)
  <2>1. lock' \in [Keys -> Holder]
    BY <1>2 DEF LockExpires, TypeOK, Holder
  <2>2. used' \in [{"slow", "crashes"} -> Nat]
    BY <1>2, SpendType DEF LockExpires, TypeOK
  <2> QED  BY <1>2, <2>1, <2>2 DEF LockExpires, TypeOK
<1> QED  BY <1>1, <1>2

\* The steps of a change keep the types.
LEMMA TypeChange ==
  ASSUME TypeOK, NEW c \in Changes, Write(c) \/ PutLoad(c) \/ ChangeStep(c) \/ GiveUp(c)
  PROVE  TypeOK'
<1>u. UserOf[c] \in Users
  BY CacheAssumption
<1>r. row[UserOf[c]] + 1 \in Nat /\ [row EXCEPT ![UserOf[c]] = @ + 1] \in Table
  BY <1>u DEF TypeOK, Table
<1>c. change[c] \in ChangeRec
  BY DEF TypeOK
<1>1. CASE Write(c)
  <2> DEFINE ver == row[UserOf[c]] + 1
  <2>1. PICK pc \in {"written", "done"} :
          change' = [change EXCEPT ![c].ver = ver, ![c].pc = pc]
    BY <1>1 DEF Write
  <2>2. ver \in Nat
    BY <1>r
  <2> HIDE DEF ver
  <2>3. [change[c] EXCEPT !.ver = ver, !.pc = pc] \in ChangeRec
    BY <1>c, <2>2 DEF ChangeRec
  <2>4. change' = [change EXCEPT ![c] = [change[c] EXCEPT !.ver = ver, !.pc = pc]]
    BY <2>1 DEF TypeOK
  <2>5. change' \in [Changes -> ChangeRec]
    BY <2>3, <2>4, ChangeType
  <2> QED  BY <1>1, <1>r, <2>5 DEF Write, TypeOK
<1>2. CASE PutLoad(c) \/ TaskLoad(c)
  <2>1. FindMetas(c) /\ UNCHANGED <<row, metas, store, lock, locks, request, used>>
    BY <1>2 DEF PutLoad, TaskLoad
  <2> DEFINE found == {m \in metas : Watches(m.key, UserOf[c])}
             rec   == [pc |-> "removing", ver |-> change[c].ver, found |-> found,
                       left |-> {m.key : m \in found}, overlap |-> InFlight]
  <2>2. InFlight \in SUBSET Requests
    BY DEF InFlight
  <2>3. change' = [change EXCEPT ![c] = rec]
    BY <2>1 DEF FindMetas
  <2>4. rec \in ChangeRec
    BY <1>c, <2>2, FoundType DEF ChangeRec
  <2> HIDE DEF rec
  <2> QED  BY <2>1, <2>3, <2>4, ChangeType DEF TypeOK
<1>3. ASSUME NEW k \in Keys, Remove(c, k) PROVE TypeOK'
  <2>1. change' \in [Changes -> ChangeRec]
    BY <1>3, <1>c DEF Remove, TypeOK, ChangeRec
  <2>2. store' \in [Keys -> Entry]
    BY <1>3, NoEntryType, EntryType DEF Remove
  <2> QED  BY <1>3, <2>1, <2>2 DEF Remove, TypeOK
<1>4. CASE TaskEnd(c)
  <2>1. change' \in [Changes -> ChangeRec]
    BY <1>4, <1>c DEF TaskEnd, TypeOK, ChangeRec
  <2> QED  BY <1>4, <2>1 DEF TaskEnd, TypeOK
<1>5. CASE PutCommit(c)
  <2>1. change' \in [Changes -> ChangeRec]
    BY <1>5, <1>c DEF PutCommit, TypeOK, ChangeRec
  <2> QED  BY <1>5, <1>r, <2>1 DEF PutCommit, TypeOK
<1>6. CASE GiveUp(c)
  <2>1. change' = [change EXCEPT ![c] = [@ EXCEPT !.pc = "lost", !.left = {}]]
    BY <1>6 DEF GiveUp
  <2>2. [change[c] EXCEPT !.pc = "lost", !.left = {}] \in ChangeRec
    BY <1>c DEF ChangeRec
  <2>3. change' \in [Changes -> ChangeRec]
    BY <2>1, <2>2, ChangeType
  <2> QED  BY <1>6, <2>3, SpendType DEF GiveUp, TypeOK
<1> QED
  BY <1>1, <1>2, <1>3, <1>4, <1>5, <1>6 DEF ChangeStep

\* TypeOK holds in every state: no request, change or expiration puts a value
\* of the wrong kind into Redis, MySQL or a session.
THEOREM TypeCorrect == Spec => []TypeOK
<1>1. TypeOK /\ [Next]_vars => TypeOK'
  <2> SUFFICES ASSUME TypeOK, [Next]_vars PROVE TypeOK'
    OBVIOUS
  <2>1. CASE Next
    BY <2>1, TypeRequest, TypeRedis, TypeChange DEF Next
  <2>2. CASE UNCHANGED vars
    BY <2>2 DEF vars, TypeOK
  <2> QED  BY <2>1, <2>2
<1> QED
  BY TypeInit, <1>1, PTL DEF Spec

(***************************************************************************)
(* The inductive invariant.  A table, once stored, belongs to a request    *)
(* that has committed its meta, or is about to, or died; and whoever holds *)
(* a meta for deletion has removed, or will remove, the table it is of.    *)
(***************************************************************************)

Stored == {"expiring", "unlocking", "subscribed", "done", "crashed"}

EntryInv ==
  \A k \in Keys :
    \/ store[k] = NoEntry
    \/ /\ store[k].by \in Requests
       /\ KeyOf[store[k].by] = k
       /\ request[store[k].by].pc \in Stored

IsMeta(m) == m.by \in Requests /\ m.key = KeyOf[m.by] /\ At(m.by, "done")

MetaInv ==
  /\ \A m \in metas : IsMeta(m)
  /\ \A c \in Changes : \A m \in change[c].found : IsMeta(m)

FoundInv ==
  \A c \in Changes : change[c].pc = "removing" =>
    \A m \in change[c].found : m.key \in change[c].left \/ store[m.key].by # m.by

VerInv == \A c \in Changes : change[c].ver <= row[UserOf[c]]

\* The request q cannot take an invalidation of c back with what it has read.
Harmless(c, q, seen) ==
  seen[UserOf[c]] >= change[c].ver \/ q \in change[c].overlap \/ At(q, "crashed")

Looked(c) == KindOf[c] = "task" /\ change[c].pc \in {"removing", "done"}

ReachInv ==
  \A c \in Changes : Looked(c) =>
    /\ \A q \in Requests :
         At(q, "setting") /\ UserOf[c] \in Covers[KeyOf[q]] => Harmless(c, q, request[q].seen)
    /\ \A k \in Keys :
         UserOf[c] \in Covers[k] /\ Watches(k, UserOf[c]) =>
           \/ store[k] = NoEntry
           \/ k \in change[c].left
           \/ Harmless(c, store[k].by, store[k].seen)
    /\ change[c].pc = "done" => change[c].left = {}

IInv ==
  TypeOK /\ EntryInv /\ MetaInv /\ FoundInv /\ VerInv /\ ReachInv /\ CachedTableHasMeta

\* The inductive invariant holds initially.
LEMMA IInvInit == Init => IInv
<1> SUFFICES ASSUME Init PROVE IInv
  OBVIOUS
<1>1. TypeOK
  BY TypeInit
<1>2. EntryInv /\ MetaInv /\ FoundInv /\ ReachInv /\ CachedTableHasMeta
  BY DEF Init, EntryInv, MetaInv, FoundInv, ReachInv, Looked, CachedTableHasMeta
<1>3. VerInv
  BY CacheAssumption DEF Init, VerInv, Unseen
<1> QED  BY <1>1, <1>2, <1>3 DEF IInv

\* What one step does to one request or change leaves the others alone.
LEMMA OneStep ==
  ASSUME TypeOK, NEW q \in Requests, NEW pc, Step(q, pc)
  PROVE  /\ request'[q].pc = pc /\ request'[q].seen = request[q].seen
         /\ \A p \in Requests : p # q => request'[p] = request[p]
BY DEF TypeOK, Step, Request

\* Steps of a request that neither read nor write a table or a meta.
LEMMA QuietStep ==
  ASSUME IInv, TypeOK', NEW q \in Requests, NEW pc, Step(q, pc),
         UNCHANGED <<row, metas, store, change>>,
         ~At(q, "done"), ~At(q, "crashed"), pc # "done", pc # "setting",
         request[q].pc \in Stored => pc \in Stored
  PROVE  IInv'
<1>1. /\ request'[q].pc = pc /\ request'[q].seen = request[q].seen
      /\ \A p \in Requests : p # q => request'[p] = request[p]
  BY OneStep DEF IInv
<1>2. EntryInv'
  BY <1>1 DEF IInv, EntryInv
<1>3. MetaInv'
  BY <1>1 DEF IInv, MetaInv, IsMeta, At
<1>4. FoundInv' /\ VerInv'
  BY DEF IInv, FoundInv, VerInv
<1>5. \A c \in Changes, p \in Requests : \A seen : Harmless(c, p, seen) => Harmless(c, p, seen)'
  BY <1>1 DEF Harmless, At
<1>6. ReachInv'
  <2>1. \A c \in Changes : Looked(c)' <=> Looked(c)
    BY DEF Looked
  <2>2. \A p \in Requests : At(p, "setting")' => At(p, "setting") /\ request'[p].seen = request[p].seen
    BY <1>1 DEF At
  <2>3. \A k \in Keys : store[k] # NoEntry => store[k].by \in Requests
    BY DEF IInv, EntryInv
  <2> QED  BY <1>5, <2>1, <2>2, <2>3 DEF IInv, ReachInv
<1>7. CachedTableHasMeta'
  <2>1. \A k \in Keys : store[k] # NoEntry => store[k].by \in Requests
    BY DEF IInv, EntryInv
  <2> QED  BY <1>1, <2>1 DEF IInv, CachedTableHasMeta, At
<1> QED  BY <1>2, <1>3, <1>4, <1>6, <1>7 DEF IInv

\* get_runs reads what is committed: the invariant is kept.
LEMMA IInvCompute ==
  ASSUME IInv, NEW q \in Requests, Compute(q)
  PROVE  IInv'
<1>t. TypeOK /\ TypeOK'
  BY TypeRequest DEF IInv, RequestStep
<1> DEFINE table == [u \in Users |-> IF u \in Covers[KeyOf[q]] THEN row[u] ELSE 0]
<1>1. /\ request'[q] = [pc |-> "setting", seen |-> table]
      /\ \A p \in Requests : p # q => request'[p] = request[p]
      /\ At(q, "computing") /\ UNCHANGED <<row, metas, store, change>>
  BY <1>t DEF Compute, TypeOK
<1>2. request'[q].pc = "setting" /\ request'[q].seen = table
  BY <1>1
<1>3. \A u \in Users : u \in Covers[KeyOf[q]] => table[u] = row[u]
  OBVIOUS
<1> HIDE DEF table
<1>4. EntryInv' /\ MetaInv' /\ FoundInv' /\ VerInv'
  BY <1>1, <1>2 DEF IInv, EntryInv, MetaInv, IsMeta, FoundInv, VerInv, At, Stored
<1>5. \A k \in Keys : store[k] # NoEntry => store[k].by \in Requests /\ store[k].by # q
  BY <1>1 DEF IInv, EntryInv, Stored, At
<1>6. \A c \in Changes : UserOf[c] \in Users /\ change[c].ver \in Nat /\ row[UserOf[c]] \in Nat
  BY <1>t, CacheAssumption DEF TypeOK, ChangeRec, Table
<1>7. ReachInv'
  <2> SUFFICES ASSUME NEW c \in Changes, Looked(c)'
               PROVE  /\ \A p \in Requests :
                           At(p, "setting")' /\ UserOf[c] \in Covers[KeyOf[p]]
                             => Harmless(c, p, request[p].seen)'
                      /\ \A k \in Keys :
                           UserOf[c] \in Covers[k] /\ Watches(k, UserOf[c]) =>
                             \/ store[k] = NoEntry
                             \/ k \in change[c].left
                             \/ Harmless(c, store[k].by, store[k].seen)'
                      /\ change[c].pc = "done" => change[c].left = {}
    BY <1>1 DEF ReachInv
  <2>1. Looked(c)
    BY <1>1 DEF Looked
  <2>2. \A p \in Requests : \A seen : p # q => (Harmless(c, p, seen)' <=> Harmless(c, p, seen))
    BY <1>1 DEF Harmless, At
  <2>3. ASSUME NEW p \in Requests, At(p, "setting")', UserOf[c] \in Covers[KeyOf[p]]
        PROVE  Harmless(c, p, request[p].seen)'
    <3>1. CASE p = q
      BY <1>1, <1>2, <1>3, <1>6, <2>3, <3>1 DEF Harmless, IInv, VerInv
    <3>2. CASE p # q
      BY <1>1, <2>1, <2>2, <2>3, <3>2 DEF IInv, ReachInv, At
    <3> QED  BY <3>1, <3>2
  <2> QED  BY <1>1, <1>5, <2>1, <2>2, <2>3 DEF IInv, ReachInv
<1>8. CachedTableHasMeta'
  BY <1>1, <1>5 DEF IInv, CachedTableHasMeta, At
<1> QED  BY <1>t, <1>4, <1>7, <1>8 DEF IInv

\* SET keeps the invariant: the request was in flight, or saw the change.
LEMMA IInvStoreSet ==
  ASSUME IInv, NEW q \in Requests, StoreSet(q)
  PROVE  IInv'
<1>t. TypeOK /\ TypeOK'
  BY TypeRequest DEF IInv, RequestStep
<1>k. KeyOf[q] \in Keys
  BY CacheAssumption
<1>1. /\ request'[q].pc = "expiring" /\ request'[q].seen = request[q].seen
      /\ \A p \in Requests : p # q => request'[p] = request[p]
      /\ At(q, "setting") /\ UNCHANGED <<row, metas, change>>
  BY <1>t, OneStep DEF StoreSet
<1>2. /\ store'[KeyOf[q]] = [by |-> q, seen |-> request[q].seen, ttl |-> FALSE]
      /\ \A k \in Keys : k # KeyOf[q] => store'[k] = store[k]
  BY <1>t, <1>k DEF StoreSet, TypeOK
<1>3. store'[KeyOf[q]].by = q /\ store'[KeyOf[q]].seen = request[q].seen
  BY <1>2
<1>4. EntryInv'
  BY <1>1, <1>2, <1>3 DEF IInv, EntryInv, Stored
<1>5. MetaInv' /\ VerInv'
  BY <1>1 DEF IInv, MetaInv, IsMeta, VerInv, At
<1>6. FoundInv'
  <2>1. \A c \in Changes : \A m \in change[c].found : m.by # q /\ m.key \in Keys
    BY <1>1, CacheAssumption DEF IInv, MetaInv, IsMeta, At
  <2> QED  BY <1>1, <1>2, <1>3, <2>1 DEF IInv, FoundInv
<1>7. ReachInv'
  <2>1. \A c \in Changes : Looked(c)' <=> Looked(c)
    BY <1>1 DEF Looked
  <2>2. \A c \in Changes, p \in Requests : \A seen : Harmless(c, p, seen) => Harmless(c, p, seen)'
    BY <1>1 DEF Harmless, At
  <2>3. \A p \in Requests : At(p, "setting")' => At(p, "setting") /\ request'[p].seen = request[p].seen
    BY <1>1 DEF At
  <2>4. \A k \in Keys : store[k] # NoEntry => store[k].by \in Requests
    BY DEF IInv, EntryInv
  <2> QED  BY <1>1, <1>2, <1>3, <2>1, <2>2, <2>3, <2>4 DEF IInv, ReachInv
<1>8. CachedTableHasMeta'
  <2>1. \A k \in Keys : store[k] # NoEntry => store[k].by \in Requests
    BY DEF IInv, EntryInv
  <2> QED  BY <1>1, <1>2, <1>3, <2>1 DEF IInv, CachedTableHasMeta, At
<1> QED  BY <1>t, <1>4, <1>5, <1>6, <1>7, <1>8 DEF IInv

\* EXPIRE keeps the invariant.
LEMMA IInvStoreExpire ==
  ASSUME IInv, NEW q \in Requests, StoreExpire(q)
  PROVE  IInv'
<1>t. TypeOK /\ TypeOK'
  BY TypeRequest DEF IInv, RequestStep
<1>k. KeyOf[q] \in Keys
  BY CacheAssumption
<1>1. /\ request'[q].pc = "unlocking" /\ request'[q].seen = request[q].seen
      /\ \A p \in Requests : p # q => request'[p] = request[p]
      /\ At(q, "expiring") /\ UNCHANGED <<row, metas, change>>
  BY <1>t, OneStep DEF StoreExpire
<1>2. \A k \in Keys : /\ store'[k].by = store[k].by /\ store'[k].seen = store[k].seen
                      /\ (store[k] = NoEntry => store'[k] = NoEntry)
  <2> SUFFICES ASSUME NEW k \in Keys
               PROVE  /\ store'[k].by = store[k].by /\ store'[k].seen = store[k].seen
                      /\ (store[k] = NoEntry => store'[k] = NoEntry)
    OBVIOUS
  <2>1. CASE k # KeyOf[q]
    BY <1>t, <1>k, <2>1 DEF StoreExpire, TypeOK
  <2>2. CASE k = KeyOf[q]
    <3>1. store'[k] = IF store[k] = NoEntry THEN store[k]
                      ELSE [by |-> store[k].by, seen |-> store[k].seen, ttl |-> TRUE]
      BY <1>t, <1>k, <2>2 DEF StoreExpire, TypeOK
    <3> QED  BY <3>1
  <2> QED  BY <2>1, <2>2
<1>3. \A k \in Keys : store'[k] # NoEntry => store[k] # NoEntry /\ store[k].by \in Requests
  BY <1>2 DEF IInv, EntryInv
<1>4. EntryInv'
  BY <1>1, <1>2, <1>3 DEF IInv, EntryInv, Stored
<1>5. MetaInv' /\ VerInv'
  BY <1>1 DEF IInv, MetaInv, IsMeta, VerInv, At
<1>6. FoundInv'
  <2>1. \A c \in Changes : \A m \in change[c].found : m.key \in Keys
    BY CacheAssumption DEF IInv, MetaInv, IsMeta
  <2> QED  BY <1>1, <1>2, <2>1 DEF IInv, FoundInv
<1>7. ReachInv'
  <2>1. \A c \in Changes : Looked(c)' <=> Looked(c)
    BY <1>1 DEF Looked
  <2>2. \A c \in Changes, p \in Requests : \A seen : Harmless(c, p, seen) => Harmless(c, p, seen)'
    BY <1>1 DEF Harmless, At
  <2>3. \A p \in Requests : At(p, "setting")' => At(p, "setting") /\ request'[p].seen = request[p].seen
    BY <1>1 DEF At
  <2> QED  BY <1>1, <1>2, <1>3, <2>1, <2>2, <2>3 DEF IInv, ReachInv
<1>8. CachedTableHasMeta'
  BY <1>1, <1>2, <1>3 DEF IInv, CachedTableHasMeta, At
<1> QED  BY <1>t, <1>4, <1>5, <1>6, <1>7, <1>8 DEF IInv

\* Committing the meta keeps the invariant.
LEMMA IInvCommit ==
  ASSUME IInv, NEW q \in Requests, Commit(q)
  PROVE  IInv'
<1>t. TypeOK /\ TypeOK'
  BY TypeRequest DEF IInv, RequestStep
<1>1. /\ request'[q].pc = "done" /\ request'[q].seen = request[q].seen
      /\ \A p \in Requests : p # q => request'[p] = request[p]
      /\ At(q, "subscribed") /\ UNCHANGED <<row, store, change>>
      /\ metas' = metas \cup {Meta(q)}
  BY <1>t, OneStep DEF Commit
<1>2. \A k \in Keys : store[k] # NoEntry => store[k].by \in Requests
  BY DEF IInv, EntryInv
<1>3. EntryInv' /\ FoundInv' /\ VerInv'
  BY <1>1 DEF IInv, EntryInv, FoundInv, VerInv, Stored
<1>4. MetaInv'
  <2>1. Meta(q).by = q /\ Meta(q).key = KeyOf[q]
    BY DEF Meta
  <2> QED  BY <1>1, <2>1 DEF IInv, MetaInv, IsMeta, At
<1>5. ReachInv'
  <2>1. \A c \in Changes : Looked(c)' <=> Looked(c)
    BY <1>1 DEF Looked
  <2>2. \A c \in Changes, p \in Requests : \A seen : Harmless(c, p, seen) => Harmless(c, p, seen)'
    BY <1>1 DEF Harmless, At
  <2>3. \A p \in Requests : At(p, "setting")' => At(p, "setting") /\ request'[p].seen = request[p].seen
    BY <1>1 DEF At
  <2> QED  BY <1>1, <1>2, <2>1, <2>2, <2>3 DEF IInv, ReachInv
<1>6. CachedTableHasMeta'
  BY <1>1, <1>2 DEF IInv, CachedTableHasMeta, At, Meta
<1> QED  BY <1>t, <1>3, <1>4, <1>5, <1>6 DEF IInv

\* Every step of a monitor request keeps the invariant.
LEMMA IInvRequest ==
  ASSUME IInv, NEW q \in Requests, RequestStep(q) \/ Crash(q)
  PROVE  IInv'
<1>t. TypeOK'
  BY TypeRequest DEF IInv
<1>1. CASE Acquire(q)
  BY <1>1, <1>t, QuietStep DEF Acquire, At, Stored
<1>2. CASE Lookup(q)
  BY <1>2, <1>t, QuietStep DEF Lookup, At, Stored
<1>3. CASE ServeHit(q)
  BY <1>3, <1>t, QuietStep DEF ServeHit, At, Stored
<1>4. CASE Unlock(q)
  BY <1>4, <1>t, QuietStep DEF Unlock, At, Stored
<1>5. CASE Crash(q)
  BY <1>5, <1>t, QuietStep DEF Crash, At, Stored
<1> QED
  BY <1>1, <1>2, <1>3, <1>4, <1>5, IInvCompute, IInvStoreSet, IInvStoreExpire, IInvCommit
     DEF RequestStep

\* A table that disappears leaves nothing behind that the invariant speaks of.
LEMMA IInvRemoved ==
  ASSUME IInv, NEW k \in Keys, store' = [store EXCEPT ![k] = NoEntry],
         UNCHANGED <<row, metas, request>>,
         NEW c \in Changes, \A d \in Changes : d # c => change'[d] = change[d],
         /\ change'[c].pc = change[c].pc /\ change'[c].ver = change[c].ver
         /\ change'[c].found = change[c].found /\ change'[c].overlap = change[c].overlap,
         change'[c].left \in {change[c].left, change[c].left \ {k}}
  PROVE  EntryInv' /\ MetaInv' /\ FoundInv' /\ VerInv' /\ ReachInv' /\ CachedTableHasMeta'
<1>1. store'[k] = NoEntry /\ \A j \in Keys : j # k => store'[j] = store[j]
  BY DEF IInv, TypeOK
<1>2. \A m : IsMeta(m)' <=> IsMeta(m)
  BY DEF IsMeta, At
<1>3. EntryInv' /\ MetaInv' /\ VerInv' /\ CachedTableHasMeta'
  BY <1>1, <1>2 DEF IInv, EntryInv, MetaInv, VerInv, CachedTableHasMeta, At
<1>4. FoundInv'
  <2>1. \A d \in Changes : \A m \in change[d].found : m.key \in Keys /\ m.by \in Requests
    BY CacheAssumption DEF IInv, MetaInv, IsMeta
  <2>2. NoEntry.by \notin Requests
    BY NoneAssumption DEF NoEntry
  <2> QED  BY <1>1, <2>1, <2>2 DEF IInv, FoundInv
<1>5. ReachInv'
  <2>1. \A d \in Changes : Looked(d)' <=> Looked(d)
    BY DEF Looked
  <2>2. \A d \in Changes : \A p, seen : Harmless(d, p, seen)' <=> Harmless(d, p, seen)
    BY DEF Harmless, At
  <2> QED  BY <1>1, <2>1, <2>2 DEF IInv, ReachInv, At
<1> QED  BY <1>3, <1>4, <1>5

\* A crash and the expirations of Redis keep the invariant.
LEMMA IInvRedis ==
  ASSUME IInv, NEW k \in Keys, EntryExpires(k) \/ LockExpires(k)
  PROVE  IInv'
<1>t. TypeOK'
  BY TypeRedis DEF IInv
<1>1. CASE LockExpires(k)
  BY <1>1, <1>t DEF LockExpires, IInv, EntryInv, MetaInv, IsMeta, FoundInv, VerInv, ReachInv,
                    Looked, Harmless, CachedTableHasMeta, At
<1>2. CASE EntryExpires(k)
  <2>1. store' = [store EXCEPT ![k] = NoEntry] /\ UNCHANGED <<row, metas, request, change>>
    BY <1>2 DEF EntryExpires
  <2>2. CASE Changes = {}
    <3>1. store'[k] = NoEntry /\ \A j \in Keys : j # k => store'[j] = store[j]
      BY <2>1 DEF IInv, TypeOK
    <3> QED
      BY <1>t, <2>1, <2>2, <3>1 DEF IInv, EntryInv, MetaInv, IsMeta, FoundInv, VerInv, ReachInv,
                                    CachedTableHasMeta, At
  <2>3. ASSUME NEW c \in Changes PROVE IInv'
    BY <1>t, <2>1, IInvRemoved DEF IInv
  <2> QED  BY <2>2, <2>3
<1> QED  BY <1>1, <1>2

\* A step of a change that touches neither tables nor requests.
LEMMA IInvWrite ==
  ASSUME IInv, NEW c \in Changes, Write(c)
  PROVE  IInv'
<1>t. TypeOK /\ TypeOK' /\ UserOf[c] \in Users
  BY TypeChange, CacheAssumption DEF IInv
<1>1. /\ change'[c].ver = row[UserOf[c]] + 1
      /\ change'[c].pc = (IF KindOf[c] = "task" THEN "written" ELSE "done")
      /\ change'[c].found = change[c].found /\ change'[c].left = change[c].left
      /\ \A d \in Changes : d # c => change'[d] = change[d]
  <2>1. change' = [change EXCEPT ![c] = [@ EXCEPT !.ver = row[UserOf[c]] + 1,
                     !.pc = IF KindOf[c] = "task" THEN "written" ELSE "done"]]
    BY DEF Write
  <2> QED  BY <1>t, <2>1 DEF TypeOK, ChangeRec
<1>2. /\ row'[UserOf[c]] = row[UserOf[c]] + 1
      /\ \A u \in Users : u # UserOf[c] => row'[u] = row[u]
      /\ row \in [Users -> Nat] /\ UNCHANGED <<metas, store, request>>
  BY <1>t DEF Write, TypeOK, Table
<1>3. EntryInv' /\ MetaInv' /\ CachedTableHasMeta'
  BY <1>1, <1>2 DEF IInv, EntryInv, MetaInv, IsMeta, CachedTableHasMeta, At
<1>4. FoundInv'
  BY <1>1, <1>2 DEF IInv, FoundInv
<1>5. VerInv'
  <2>1. \A d \in Changes : change[d].ver \in Nat /\ UserOf[d] \in Users
    BY <1>t, CacheAssumption DEF TypeOK, ChangeRec
  <2> QED  BY <1>t, <1>1, <1>2, <2>1 DEF IInv, VerInv
<1>6. ReachInv'
  <2>1. \A d \in Changes : Looked(d)' => Looked(d) /\ d # c
    BY <1>1 DEF Looked
  <2>2. \A d \in Changes : \A q, seen : d # c => (Harmless(d, q, seen)' <=> Harmless(d, q, seen))
    BY <1>1, <1>2 DEF Harmless, At
  <2> QED  BY <1>1, <1>2, <2>1, <2>2 DEF IInv, ReachInv, At
<1> QED  BY <1>t, <1>3, <1>4, <1>5, <1>6 DEF IInv

\* A look-up finds the meta of every table that can be harmful.
LEMMA IInvFindMetas ==
  ASSUME IInv, NEW c \in Changes, PutLoad(c) \/ TaskLoad(c)
  PROVE  IInv'
<1>t. TypeOK /\ TypeOK' /\ UserOf[c] \in Users
  BY TypeChange, CacheAssumption DEF IInv, ChangeStep
<1> DEFINE found == {m \in metas : Watches(m.key, UserOf[c])}
<1> DEFINE keys == {m.key : m \in found}
<1>1. change'[c] = [pc |-> "removing", ver |-> change[c].ver, found |-> found,
                    left |-> keys, overlap |-> InFlight]
  BY <1>t DEF PutLoad, TaskLoad, FindMetas, TypeOK
<1>k. \A m \in found : m.key \in keys
  OBVIOUS
<1>2. /\ change'[c].pc = "removing" /\ change'[c].ver = change[c].ver
      /\ change'[c].found = found /\ change'[c].left = keys
      /\ change'[c].overlap = InFlight
  <2> HIDE DEF keys, found
  <2> QED  BY <1>1
<1>3. /\ \A d \in Changes : d # c => change'[d] = change[d]
      /\ UNCHANGED <<row, metas, store, request>>
  BY <1>t DEF PutLoad, TaskLoad, FindMetas, TypeOK
<1>4. EntryInv' /\ CachedTableHasMeta' /\ VerInv'
  BY <1>2, <1>3 DEF IInv, EntryInv, VerInv, CachedTableHasMeta, At
<1>5. MetaInv'
  <2>1. \A m : IsMeta(m)' <=> IsMeta(m)
    BY <1>3 DEF IsMeta, At
  <2> QED  BY <1>2, <1>3, <2>1 DEF IInv, MetaInv
<1>6. FoundInv'
  BY <1>2, <1>3 DEF IInv, FoundInv
<1>7. ReachInv'
  <2>1. \A d \in Changes : d # c => (Looked(d)' <=> Looked(d))
    BY <1>3 DEF Looked
  <2>2. \A d \in Changes : \A q, seen : d # c => (Harmless(d, q, seen)' <=> Harmless(d, q, seen))
    BY <1>3 DEF Harmless, At
  <2>3. \A q \in Requests : At(q, "setting") => q \in InFlight
    BY DEF InFlight, At
  <2>4. ASSUME NEW k \in Keys, Watches(k, UserOf[c]), store[k] # NoEntry
        PROVE  k \in change'[c].left \/ Harmless(c, store[k].by, store[k].seen)'
    <3>1. store[k].by \in Requests /\ KeyOf[store[k].by] = k /\ request[store[k].by].pc \in Stored
      BY <2>4 DEF IInv, EntryInv
    <3>2. CASE At(store[k].by, "done")
      <4>1. Meta(store[k].by) \in metas
        BY <2>4, <3>2 DEF IInv, CachedTableHasMeta
      <4>2. Meta(store[k].by).key = k
        BY <3>1 DEF Meta
      <4>3. PICK m \in found : m.key = k
        BY <2>4, <4>1, <4>2
      <4> HIDE DEF found, keys
      <4> QED  BY <1>2, <1>k, <4>3
    <3>3. CASE At(store[k].by, "crashed")
      BY <1>3, <3>3 DEF Harmless, At
    <3>4. CASE ~At(store[k].by, "done") /\ ~At(store[k].by, "crashed")
      <4>1. store[k].by \in InFlight
        BY <3>1, <3>4 DEF InFlight, At, Stored
      <4> HIDE DEF found, keys
      <4>2. store[k].by \in change'[c].overlap /\ store' = store
        BY <1>2, <1>3, <4>1
      <4> QED  BY <4>2 DEF Harmless
    <3> QED  BY <3>2, <3>3, <3>4
  <2>5. \A q \in Requests : \A seen : q \in InFlight => Harmless(c, q, seen)'
    BY <1>2 DEF Harmless
  <2> QED  BY <1>2, <1>3, <2>1, <2>2, <2>3, <2>4, <2>5 DEF IInv, ReachInv, At
<1> QED  BY <1>t, <1>4, <1>5, <1>6, <1>7 DEF IInv

\* Removing a table that was looked up keeps the invariant.
LEMMA IInvRemove ==
  ASSUME IInv, NEW c \in Changes, NEW k \in Keys, Remove(c, k)
  PROVE  IInv'
<1>t. TypeOK /\ TypeOK'
  BY TypeChange DEF IInv, ChangeStep
<1>1. /\ store' = [store EXCEPT ![k] = NoEntry] /\ UNCHANGED <<row, metas, request>>
      /\ \A d \in Changes : d # c => change'[d] = change[d]
      /\ change'[c].pc = change[c].pc /\ change'[c].ver = change[c].ver
      /\ change'[c].found = change[c].found /\ change'[c].overlap = change[c].overlap
      /\ change'[c].left = change[c].left \ {k}
  BY <1>t DEF Remove, TypeOK, ChangeRec
<1> QED  BY <1>t, <1>1, IInvRemoved DEF IInv

\* The three ways a change ends.
LEMMA IInvEnd ==
  ASSUME IInv, NEW c \in Changes, TaskEnd(c) \/ PutCommit(c) \/ GiveUp(c)
  PROVE  IInv'
<1>t. TypeOK /\ TypeOK' /\ UserOf[c] \in Users
  BY TypeChange, CacheAssumption DEF IInv, ChangeStep
<1>1. /\ \A d \in Changes : d # c => change'[d] = change[d]
      /\ change'[c].ver = change[c].ver /\ change'[c].found = change[c].found
      /\ change'[c].overlap = change[c].overlap
      /\ change'[c].pc \in {"done", "lost"}
      /\ UNCHANGED <<store, request>>
  <2>1. CASE TaskEnd(c) \/ PutCommit(c)
    BY <1>t, <2>1 DEF TaskEnd, PutCommit, TypeOK, ChangeRec
  <2>2. CASE GiveUp(c)
    <3>1. change' = [change EXCEPT ![c] = [@ EXCEPT !.pc = "lost", !.left = {}]]
      BY <2>2 DEF GiveUp
    <3> QED  BY <1>t, <2>2, <3>1 DEF GiveUp, TypeOK, ChangeRec
  <2> QED  BY <2>1, <2>2
<1>2. Looked(c)' => Looked(c) /\ change[c].left = {} /\ change'[c].left = {}
  <2>1. CASE TaskEnd(c)
    BY <1>t, <2>1 DEF TaskEnd, Removed, Looked, TypeOK, ChangeRec
  <2>2. CASE PutCommit(c)
    BY <2>2 DEF PutCommit, Looked
  <2>3. CASE GiveUp(c)
    <3>1. change'[c].pc = "lost"
      BY <1>t, <2>3 DEF GiveUp, TypeOK, ChangeRec
    <3> QED  BY <3>1 DEF Looked
  <2> QED  BY <2>1, <2>2, <2>3
<1>3. /\ metas' \subseteq metas /\ \A u \in Users : row[u] \in Nat /\ row'[u] \in Nat /\ row[u] <= row'[u]
  BY <1>t DEF TaskEnd, PutCommit, GiveUp, TypeOK, Table
<1>4. EntryInv' /\ FoundInv'
  BY <1>1 DEF IInv, EntryInv, FoundInv
<1>5. MetaInv'
  <2>1. \A m : IsMeta(m)' <=> IsMeta(m)
    BY <1>1 DEF IsMeta, At
  <2>2. \A d \in Changes : change'[d].found = change[d].found
    BY <1>1
  <2> QED  BY <1>3, <2>1, <2>2 DEF IInv, MetaInv
<1>6. VerInv'
  <2>1. \A d \in Changes : /\ change'[d].ver = change[d].ver /\ change[d].ver \in Nat
                           /\ UserOf[d] \in Users
    BY <1>t, <1>1, CacheAssumption DEF TypeOK, ChangeRec
  <2> QED  BY <1>3, <2>1 DEF IInv, VerInv
<1>7. ReachInv'
  <2>1. \A d \in Changes : d # c => (Looked(d)' <=> Looked(d))
    BY <1>1 DEF Looked
  <2>2. \A d \in Changes : \A q, seen : Harmless(d, q, seen)' <=> Harmless(d, q, seen)
    BY <1>1 DEF Harmless, At
  <2> QED  BY <1>1, <1>2, <2>1, <2>2 DEF IInv, ReachInv, At
<1>8. CachedTableHasMeta'
  <2>1. CASE metas' = metas
    BY <1>1, <2>1 DEF IInv, CachedTableHasMeta, At
  <2>2. CASE PutCommit(c)
    <3> SUFFICES ASSUME NEW k \in Keys, store[k] # NoEntry, At(store[k].by, "done")
                 PROVE  Meta(store[k].by) \in metas'
      BY <1>1 DEF CachedTableHasMeta, At
    <3>1. Meta(store[k].by) \in metas
      BY DEF IInv, CachedTableHasMeta
    <3>2. Meta(store[k].by).key = k /\ Meta(store[k].by).by = store[k].by
      BY DEF IInv, EntryInv, Meta
    <3>3. Meta(store[k].by) \notin change[c].found
      BY <2>2, <3>2 DEF PutCommit, Removed, IInv, FoundInv
    <3> QED  BY <2>2, <3>1, <3>3 DEF PutCommit
  <2> QED  BY <2>1, <2>2 DEF TaskEnd, GiveUp
<1> QED  BY <1>t, <1>4, <1>5, <1>6, <1>7, <1>8 DEF IInv

\* IInv, the inductive invariant, holds in every state: what is stored was
\* stored by a request, what is committed has a finished request behind it, and
\* after a look-up no harmful table is left out of the ones to remove.
THEOREM Invariance == Spec => []IInv
<1>1. IInv /\ [Next]_vars => IInv'
  <2> SUFFICES ASSUME IInv, [Next]_vars PROVE IInv'
    OBVIOUS
  <2>1. CASE Next
    BY <2>1, IInvRequest, IInvRedis, IInvWrite, IInvFindMetas, IInvRemove, IInvEnd
       DEF Next, ChangeStep
  <2>2. CASE UNCHANGED vars
    BY <2>2 DEF vars, IInv, TypeOK, EntryInv, MetaInv, IsMeta, FoundInv, VerInv, ReachInv,
                Looked, Harmless, CachedTableHasMeta, At
  <2> QED  BY <2>1, <2>2
<1> QED
  BY IInvInit, <1>1, PTL DEF Spec

(***************************************************************************)
(* What follows from it.                                                   *)
(***************************************************************************)

\* However requests, expirations and invalidations interleave, deleting metas
\* never makes a table that is still cached impossible to find.
THEOREM TablesHaveMetas == Spec => []CachedTableHasMeta
<1>1. IInv => CachedTableHasMeta
  BY DEF IInv
<1> QED
  BY Invariance, <1>1, PTL

\* The invalidation that follows upd_run reaches every cached table of the
\* user, but for those limited in time and those being computed meanwhile.
THEOREM InvalidationReaches == Spec => []InvalidationReachesTables
<1>1. IInv => InvalidationReachesTables
  <2> SUFFICES ASSUME IInv, NEW c \in Changes, NEW k \in Keys,
                      KindOf[c] = "task", change[c].pc = "done",
                      UserOf[c] \in Covers[k], k \in Named \cup (Keys \ Timed),
                      store[k] # NoEntry
               PROVE  \/ store[k].seen[UserOf[c]] >= change[c].ver
                      \/ store[k].by \in change[c].overlap
                      \/ At(store[k].by, "crashed")
    BY DEF InvalidationReachesTables
  <2>1. Looked(c) /\ Watches(k, UserOf[c])
    BY DEF Looked, Watches
  <2>2. change[c].left = {}
    BY <2>1 DEF IInv, ReachInv
  <2> QED  BY <2>1, <2>2 DEF IInv, ReachInv, Harmless
<1> QED
  BY Invariance, <1>1, PTL

(***************************************************************************)
(* The lock.  While nobody is slow, who is past the lock still has it in   *)
(* Redis: it expires under a dead holder only, and the late release of one *)
(* request cannot hit that of another, for each releases only its own.     *)
(***************************************************************************)

Possessing == {"locked", "hit", "computing", "setting", "expiring", "unlocking"}

LockInv ==
  \A q \in Requests : request[q].pc \in Possessing => lock[KeyOf[q]] = q

\* A step of a request or its death keeps the lock with whoever is past it.
LEMMA LockRequest ==
  ASSUME TypeOK, LockInv, NEW q \in Requests, RequestStep(q) \/ Crash(q)
  PROVE  LockInv'
<1>k. KeyOf[q] \in Keys
  BY CacheAssumption
<1>o. \A p \in Requests : p # q => request'[p] = request[p]
  BY DEF TypeOK, RequestStep, Acquire, Lookup, Compute, StoreSet, StoreExpire, ServeHit, Unlock,
         Commit, Crash, Step
<1>1. CASE Acquire(q)
  <2>1. /\ lock[KeyOf[q]] = None
        /\ lock'[KeyOf[q]] = q
        /\ \A k \in Keys : k # KeyOf[q] => lock'[k] = lock[k]
    BY <1>1, <1>k DEF Acquire, TypeOK
  <2>2. \A p \in Requests : request[p].pc \in Possessing => KeyOf[p] # KeyOf[q]
    BY <2>1, NoneAssumption DEF LockInv
  <2> QED  BY <1>o, <2>1, <2>2, CacheAssumption DEF LockInv
<1>2. CASE ServeHit(q) \/ Unlock(q)
  <2>1. /\ request[q].pc \in Possessing
        /\ request'[q].pc \notin Possessing
        /\ \A k \in Keys : k # KeyOf[q] => lock'[k] = lock[k]
    BY <1>2, <1>k DEF ServeHit, Unlock, Release, Step, At, TypeOK, Possessing, Request
  <2>2. \A p \in Requests : request[p].pc \in Possessing /\ p # q => KeyOf[p] # KeyOf[q]
    BY <2>1 DEF LockInv
  <2> QED  BY <1>o, <2>1, <2>2, CacheAssumption DEF LockInv
<1>3. CASE Lookup(q) \/ Compute(q) \/ StoreSet(q) \/ StoreExpire(q) \/ Commit(q) \/ Crash(q)
  <2>1. /\ UNCHANGED lock
        /\ request'[q].pc \in Possessing => request[q].pc \in Possessing
    BY <1>3 DEF Lookup, Compute, StoreSet, StoreExpire, Commit, Crash, Step, At, TypeOK,
                Possessing, Request
  <2> QED  BY <1>o, <2>1 DEF LockInv
<1> QED  BY <1>1, <1>2, <1>3 DEF RequestStep

\* Redis takes the lock of the dead only.
LEMMA LockRedis ==
  ASSUME MaxSlow = 0, TypeOK, LockInv, NEW k \in Keys, EntryExpires(k) \/ LockExpires(k)
  PROVE  LockInv'
<1>1. CASE EntryExpires(k)
  BY <1>1 DEF EntryExpires, LockInv
<1>2. CASE LockExpires(k)
  <2>1. request[lock[k]].pc = "crashed"
    BY <1>2 DEF LockExpires, Spend, TypeOK
  <2>2. \A p \in Requests : request[p].pc \in Possessing => KeyOf[p] # k
    BY <2>1 DEF LockInv, Possessing
  <2>3. \A j \in Keys : j # k => lock'[j] = lock[j]
    BY <1>2 DEF LockExpires, TypeOK
  <2> QED  BY <1>2, <2>2, <2>3, CacheAssumption DEF LockExpires, LockInv
<1> QED  BY <1>1, <1>2

\* As long as no lock expires under a holder at work, no two requests compute and
\* store the same table, whoever dies and however often (Cacher.__call__.wrapped).
THEOREM FillsAreExclusive ==
  ASSUME MaxSlow = 0
  PROVE  Spec => []OneFillPerKey
<1>1. Init => LockInv
  BY DEF Init, LockInv, Possessing
<1>2. TypeOK /\ LockInv /\ [Next]_vars => LockInv'
  <2> SUFFICES ASSUME TypeOK, LockInv, [Next]_vars PROVE LockInv'
    OBVIOUS
  <2>1. ASSUME NEW q \in Requests, RequestStep(q) \/ Crash(q) PROVE LockInv'
    BY <2>1, LockRequest
  <2>2. ASSUME NEW k \in Keys, EntryExpires(k) \/ LockExpires(k) PROVE LockInv'
    BY <2>2, LockRedis
  <2>3. ASSUME NEW c \in Changes, Write(c) \/ PutLoad(c) \/ ChangeStep(c) \/ GiveUp(c)
        PROVE  LockInv'
    BY <2>3 DEF Write, PutLoad, ChangeStep, TaskLoad, Remove, TaskEnd, PutCommit, GiveUp, LockInv
  <2>4. CASE UNCHANGED vars
    BY <2>4 DEF vars, LockInv
  <2> QED  BY <2>1, <2>2, <2>3, <2>4 DEF Next
<1>3. LockInv => OneFillPerKey
  BY DEF LockInv, OneFillPerKey, Possessing
<1> QED
  BY TypeCorrect, <1>1, <1>2, <1>3, PTL DEF Spec
=============================================================================
