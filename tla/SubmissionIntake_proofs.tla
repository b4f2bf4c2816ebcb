------------------------ MODULE SubmissionIntake_proofs ------------------------
(***************************************************************************)
(* What TLAPS proves of SubmissionIntake, for every set of requests and    *)
(* asks, every size of a text and every bound.                             *)
(***************************************************************************)
EXTENDS SubmissionIntake, TLAPS

(***************************************************************************)
(* Type correctness.  Types alone are not inductive: a handler that goes   *)
(* on works for a valid ask, and has an id once it flushed.                *)
(***************************************************************************)

Open      == {"flushed", "sourced"}
Committed == {"committed", "ok"}

Working ==
  \A q \in Requests :
    /\ request[q].pc \in {"valid"} \cup Open \cup Committed
         => request[q].ask \in Asks /\ request[q].ask.user > 0
    /\ request[q].pc \in Open \cup Committed => request[q].id \in Ids

TypeInv == TypeOK /\ Working

\* The initial state has the right types.
LEMMA TypeInit == Init => TypeInv
BY ConstantsAssumption
   DEF Init, TypeInv, TypeOK, Working, Idle, NoRow, Ids, Request, Pcs, Refusals, Open, Committed

\* A handler that moves on keeps the types of all handlers.
LEMMA RequestType ==
  ASSUME TypeOK, NEW q \in Requests, NEW rec \in Request,
         request' = [request EXCEPT ![q] = rec]
  PROVE  request' \in [Requests -> Request]
BY DEF TypeOK

\* Moving a handler to another point of its code keeps the types.
LEMMA StepType ==
  ASSUME TypeOK, NEW q \in Requests, NEW pc \in Pcs,
         request' = [request EXCEPT ![q].pc = pc]
  PROVE  request' \in [Requests -> Request]
<1>1. [request[q] EXCEPT !.pc = pc] \in Request
  BY DEF TypeOK, Request
<1> QED  BY <1>1 DEF TypeOK

\* The points a handler moves to.
LEMMA PcsHas ==
  {"valid", "flushed", "sourced", "committed", "ok", "error", "duplicate"} \subseteq Pcs
BY DEF Pcs, Refusals

\* Every step keeps the types.
LEMMA TypeStep == TypeInv /\ [Next]_vars => TypeInv'
<1> SUFFICES ASSUME TypeInv, [Next]_vars
             PROVE  TypeInv'
  OBVIOUS
<1> USE DEF TypeInv
<1>1. ASSUME NEW q \in Requests, NEW a \in Asks, Lookup(q, a)
      PROVE  TypeInv'
  <2> DEFINE rec == [Idle EXCEPT !.pc = IF Refusal(a) = "none" THEN "valid" ELSE Refusal(a),
                                 !.ask = a, !.seen = Stored]
  <2>1. rec \in Request
    BY DEF Idle, Refusal, Request, Pcs, Refusals, Stored
  <2>2. request' = [request EXCEPT ![q] = rec]
    BY <1>1 DEF Lookup
  <2>3. rec.ask = a /\ rec.pc \notin Open \cup Committed
    BY DEF Idle, Refusal, Open, Committed
  <2>4. rec.pc = "valid" => a.user > 0
    BY ConstantsAssumption DEF Idle, Refusal
  <2> HIDE DEF rec
  <2>5. TypeOK'
    BY <1>1, <2>1, <2>2, RequestType DEF Lookup, TypeOK, mysql
  <2>6. Working'
    BY <2>2, <2>3, <2>4 DEF Working, TypeOK
  <2> QED  BY <2>5, <2>6
<1>2. ASSUME NEW q \in Requests, RefuseDuplicate(q)
      PROVE  TypeInv'
  BY <1>2 DEF RefuseDuplicate, TypeOK, Working, Request, Pcs, Refusals, mysql, Open, Committed
<1>3. ASSUME NEW q \in Requests, Flush(q)
      PROVE  TypeInv'
  <2>1. nextId' \in 1 .. MaxIds + 1
    BY <1>3, ConstantsAssumption DEF Flush, Ids
  <2> DEFINE rec == [request[q] EXCEPT !.pc = "flushed", !.id = nextId]
  <2>a. rec \in Request
    BY <1>3, PcsHas DEF Flush, TypeOK, Request
  <2>b. request' = [request EXCEPT ![q] = rec]
    BY <1>3 DEF Flush, TypeOK
  <2>2. request' \in [Requests -> Request]
    BY <2>a, <2>b, RequestType
  <2>3. issued' \subseteq Ids /\ reused' \subseteq issued'
    BY <1>3 DEF Flush, TypeOK
  <2>4. Working'
    BY <1>3 DEF Flush, TypeOK, Working, Request, Open, Committed
  <2> QED  BY <1>3, <2>1, <2>2, <2>3, <2>4 DEF Flush, TypeOK
<1>4. ASSUME NEW q \in Requests, UpdateSource(q)
      PROVE  TypeInv'
  <2>1. request[q].id \in Ids /\ request[q].ask.text \in Texts
    BY <1>4 DEF UpdateSource, Working, Open, Texts
  <2>2. docs' \in [Ids -> Seq(Texts)]
    BY <1>4, <2>1 DEF UpdateSource, TypeOK
  <2>3. request' \in [Requests -> Request]
    BY <1>4, PcsHas, StepType DEF UpdateSource
  <2>4. Working'
    BY <1>4 DEF UpdateSource, TypeOK, Working, Request, Open, Committed
  <2> QED  BY <1>4, <2>2, <2>3, <2>4 DEF UpdateSource, TypeOK, mysql
<1>5. ASSUME NEW q \in Requests, Commit(q)
      PROVE  TypeInv'
  <2>1. rows' \in [Ids -> [ask : Asks \cup {NoAsk}, after : SUBSET Ids]]
    BY <1>5 DEF Commit, TypeOK, Request
  <2>2. request' \in [Requests -> Request]
    BY <1>5, PcsHas, StepType DEF Commit
  <2>3. Working'
    BY <1>5 DEF Commit, TypeOK, Working, Request, Open, Committed
  <2> QED  BY <1>5, <2>1, <2>2, <2>3 DEF Commit, TypeOK
<1>6. ASSUME NEW q \in Requests, Delay(q)
      PROVE  TypeInv'
  <2>1. tasks' \subseteq Ids
    BY <1>6 DEF Delay, TypeOK, Working, Committed
  <2>2. request' \in [Requests -> Request]
    BY <1>6, PcsHas, StepType DEF Delay
  <2>3. Working'
    BY <1>6 DEF Delay, TypeOK, Working, Request, Open, Committed
  <2> QED  BY <1>6, <2>1, <2>2, <2>3 DEF Delay, TypeOK, mysql
<1>7. ASSUME NEW q \in Requests, Fail(q)
      PROVE  TypeInv'
  <2>1. spent' \in [faults : 0 .. MaxFaults, restarts : 0 .. MaxRestarts]
    <3>1. spent.faults + 1 \in 0 .. MaxFaults
      BY <1>7, ConstantsAssumption DEF Fail, TypeOK
    <3> QED  BY <1>7, <3>1 DEF Fail, TypeOK
  <2>2. request' \in [Requests -> Request]
    BY <1>7, PcsHas, StepType DEF Fail
  <2>3. Working'
    BY <1>7 DEF Fail, TypeOK, Working, Request, Open, Committed
  <2> QED  BY <1>7, <2>1, <2>2, <2>3 DEF Fail, TypeOK, mysql
<1>8. ASSUME NEW q \in Requests, Disconnected(q)
      PROVE  TypeInv'
  <2>1. request' \in [Requests -> Request]
    BY <1>8, PcsHas, StepType DEF Disconnected
  <2>2. Working'
    BY <1>8 DEF Disconnected, TypeOK, Working, Request, Open, Committed
  <2> QED  BY <1>8, <2>1, <2>2 DEF Disconnected, TypeOK, mysql
<1>9. CASE Restart
  <2>1. spent' \in [faults : 0 .. MaxFaults, restarts : 0 .. MaxRestarts]
    <3>1. spent.restarts + 1 \in 0 .. MaxRestarts
      BY <1>9, ConstantsAssumption DEF Restart, TypeOK
    <3> QED  BY <1>9, <3>1 DEF Restart, TypeOK
  <2>a. \A q \in Requests : [request[q] EXCEPT !.alive = FALSE] \in Request
    BY DEF TypeOK, Request
  <2>2. request' \in [Requests -> Request]
    BY <1>9, <2>a DEF Restart, TypeOK
  <2>3. Working'
    BY <1>9 DEF Restart, TypeOK, Working, Request
  <2> QED  BY <1>9, <2>1, <2>2, <2>3 DEF Restart, TypeOK
<1>10. CASE UNCHANGED vars
  BY <1>10 DEF vars, TypeOK, Working
<1> QED
  BY <1>1, <1>2, <1>3, <1>4, <1>5, <1>6, <1>7, <1>8, <1>9, <1>10 DEF Next

\* Every reachable state has its types, and handlers that go on have a valid ask.
LEMMA TypeInvariance == Spec => []TypeInv
BY TypeInit, TypeStep, PTL DEF Spec

\* Every reachable state of the submission handlers has its types.
THEOREM TypeCorrect == Spec => []TypeOK
<1>1. TypeInv => TypeOK
  BY DEF TypeInv
<1> QED  BY <1>1, TypeInvariance, PTL

(***************************************************************************)
(* Duplicates.  The counter is ahead of every committed row, so what a     *)
(* handler saw has smaller ids than its own row will have; rows never      *)
(* change, so its verdict on duplicates still stands when it commits.      *)
(***************************************************************************)

Active(q) == request[q].pc \in Open /\ request[q].alive

\* a, inserted after the rows in ids were seen, is no duplicate of their last one.
Sound(a, ids, id) ==
  /\ \A i \in ids : i < id
  /\ ~Duplicate(a, ids)

CounterAhead == \A i \in Stored : i < nextId
Snapshots    == \A q \in Requests : request[q].seen \subseteq Stored
PendingAt(q) ==
  Active(q) =>
    /\ request[q].id < nextId
    /\ request[q].id \notin Stored
    /\ Sound(request[q].ask, request[q].seen, request[q].id)
Pending == \A q \in Requests : PendingAt(q)
OwnIds ==
  \A p, q \in Requests : Active(p) /\ Active(q) /\ p # q => request[p].id # request[q].id
AcceptedAt(j) ==
  /\ rows[j].after \subseteq Stored
  /\ Sound(rows[j].ask, rows[j].after, j)
Accepted == \A j \in Stored : AcceptedAt(j)

OrderInv == CounterAhead /\ Snapshots /\ Pending /\ OwnIds /\ Accepted

\* Nothing is stored at first.
LEMMA OrderInit == Init => OrderInv
BY DEF Init, OrderInv, CounterAhead, Snapshots, Pending, PendingAt, OwnIds, Accepted, Stored,
       Idle, Active, Open

\* Steps that neither write rows nor hand out ids, and make no handler active.
LEMMA OrderQuiet ==
  ASSUME OrderInv, TypeInv,
         rows' = rows, nextId' = nextId,
         \A q \in Requests : request'[q].seen \subseteq Stored,
         \A q \in Requests : Active(q)' =>
            /\ Active(q)
            /\ request'[q].id = request[q].id
            /\ request'[q].ask = request[q].ask
            /\ request'[q].seen = request[q].seen
  PROVE  OrderInv'
<1>1. Stored' = Stored
  BY DEF Stored
<1>2. CounterAhead' /\ Snapshots'
  BY <1>1 DEF OrderInv, CounterAhead, Snapshots
<1>3. Pending'
  BY <1>1 DEF OrderInv, Pending, PendingAt, Sound, Duplicate, Rivals
<1>4. OwnIds'
  BY DEF OrderInv, OwnIds
<1>5. Accepted'
  BY <1>1 DEF OrderInv, Accepted, AcceptedAt, Sound, Duplicate, Rivals
<1> QED  BY <1>2, <1>3, <1>4, <1>5 DEF OrderInv

\* Every step keeps the order of ids and snapshots.
LEMMA OrderStep == TypeInv /\ OrderInv /\ [Next]_vars => OrderInv'
<1> SUFFICES ASSUME TypeInv, OrderInv, [Next]_vars
             PROVE  OrderInv'
  OBVIOUS
<1>t. TypeOK /\ Working
  BY DEF TypeInv
<1>s. \A q \in Requests : request[q].seen \subseteq Stored
  BY DEF OrderInv, Snapshots
<1>1. ASSUME NEW q \in Requests, NEW a \in Asks, Lookup(q, a)
      PROVE  OrderInv'
  <2>1. request'[q].pc \notin Open /\ request'[q].seen = Stored
    BY <1>t, <1>1 DEF Lookup, Idle, Refusal, Open, TypeOK
  <2>2. \A p \in Requests : p # q => request'[p] = request[p]
    BY <1>t, <1>1 DEF Lookup, TypeOK
  <2>3. rows' = rows /\ nextId' = nextId
    BY <1>1 DEF Lookup, mysql
  <2> QED  BY <1>s, <2>1, <2>2, <2>3, OrderQuiet DEF Active
<1>2. ASSUME NEW q \in Requests,
             RefuseDuplicate(q) \/ UpdateSource(q) \/ Delay(q) \/ Fail(q) \/ Disconnected(q)
      PROVE  OrderInv'
  <2>1. rows' = rows /\ nextId' = nextId
    BY <1>2 DEF RefuseDuplicate, UpdateSource, Delay, Fail, Disconnected, mysql
  <2>2. /\ \A p \in Requests :
             /\ request'[p].seen = request[p].seen
             /\ request'[p].id = request[p].id
             /\ request'[p].ask = request[p].ask
             /\ request'[p].alive = request[p].alive
        /\ \A p \in Requests : request'[p].pc \in Open => request[p].pc \in Open
    <3>1. CASE RefuseDuplicate(q)
      BY <1>t, <3>1 DEF RefuseDuplicate, TypeOK, Request, Open
    <3>2. CASE UpdateSource(q)
      BY <1>t, <3>2 DEF UpdateSource, TypeOK, Request, Open
    <3>3. CASE Delay(q)
      BY <1>t, <3>3 DEF Delay, TypeOK, Request, Open
    <3>4. CASE Fail(q)
      BY <1>t, <3>4 DEF Fail, TypeOK, Request, Open
    <3>5. CASE Disconnected(q)
      BY <1>t, <3>5 DEF Disconnected, TypeOK, Request, Open
    <3> QED  BY <1>2, <3>1, <3>2, <3>3, <3>4, <3>5
  <2> QED  BY <1>s, <2>1, <2>2, OrderQuiet DEF Active
<1>3. ASSUME NEW q \in Requests, Flush(q)
      PROVE  OrderInv'
  <2>1. rows' = rows /\ Stored' = Stored /\ nextId' = nextId + 1 /\ nextId \in Ids
    BY <1>3 DEF Flush, Stored
  <2>2. /\ request'[q].id = nextId
        /\ request'[q].ask = request[q].ask
        /\ request'[q].seen = request[q].seen
        /\ \A p \in Requests : p # q => request'[p] = request[p]
    BY <1>t, <1>3 DEF Flush, TypeOK, Request
  <2>3. \A p \in Requests : request[p].id \in Int /\ request[p].seen \in SUBSET Int
    BY <1>t DEF TypeOK, Request, Ids
  <2>4. CounterAhead'
    BY <2>1 DEF OrderInv, CounterAhead, Stored, Ids
  <2>5. Snapshots'
    BY <2>1, <2>2 DEF OrderInv, Snapshots
  <2>6. Sound(request[q].ask, request[q].seen, nextId)
    BY <1>3, <1>s DEF Flush, Sound, OrderInv, CounterAhead
  <2>7. Pending'
    <3> SUFFICES ASSUME NEW p \in Requests
                 PROVE  PendingAt(p)'
      BY DEF Pending
    <3>1. CASE p = q
      <4>1. nextId < nextId + 1 /\ nextId \notin Stored
        BY <2>1 DEF OrderInv, CounterAhead, Ids
      <4> QED  BY <2>1, <2>2, <2>6, <3>1, <4>1 DEF PendingAt, Sound, Duplicate, Rivals
    <3>2. CASE p # q
      <4>1. PendingAt(p)
        BY DEF OrderInv, Pending
      <4> QED  BY <2>1, <2>2, <2>3, <3>2, <4>1 DEF PendingAt, Active, Sound, Duplicate, Rivals, Ids
    <3> QED  BY <3>1, <3>2
  <2>8. OwnIds'
    BY <2>1, <2>2, <2>3 DEF OrderInv, OwnIds, Pending, PendingAt, Active, Ids
  <2>9. Accepted'
    BY <2>1 DEF OrderInv, Accepted, AcceptedAt, Sound, Duplicate, Rivals
  <2> QED  BY <2>4, <2>5, <2>7, <2>8, <2>9 DEF OrderInv
<1>4. ASSUME NEW q \in Requests, Commit(q)
      PROVE  OrderInv'
  <2> DEFINE id == request[q].id
  <2>1. id \in Ids /\ id < nextId /\ id \notin Stored /\ Active(q)
        /\ Sound(request[q].ask, request[q].seen, id)
    BY <1>t, <1>4 DEF Commit, OrderInv, Pending, PendingAt, Active, Open, Working
  <2>2. request[q].ask.user > 0
    BY <1>t, <1>4 DEF Commit, Open, Working
  <2>3. /\ rows'[id] = [ask |-> request[q].ask, after |-> request[q].seen]
        /\ \A i \in Ids : i # id => rows'[i] = rows[i]
    BY <1>t, <1>4, <2>1 DEF Commit, TypeOK
  <2>4. rows'[id] # NoRow
    BY <2>2, <2>3 DEF NoRow, NoAsk
  <2>5. Stored' = Stored \cup {id}
    BY <2>1, <2>3, <2>4 DEF Stored
  <2>6. /\ request'[q].pc \notin Open
        /\ request'[q].seen = request[q].seen
        /\ \A p \in Requests : p # q => request'[p] = request[p]
    BY <1>t, <1>4 DEF Commit, TypeOK, Request, Open
  <2>7. nextId' = nextId
    BY <1>4 DEF Commit
  <2>8. CounterAhead' /\ Snapshots'
    BY <2>1, <2>5, <2>6, <2>7, <1>s DEF OrderInv, CounterAhead, Snapshots
  <2>9. \A i \in Stored : rows'[i] = rows[i]
    BY <2>1, <2>3 DEF Stored
  <2>10. Pending'
    <3> SUFFICES ASSUME NEW p \in Requests, Active(p)'
                 PROVE  PendingAt(p)'
      BY DEF Pending, PendingAt
    <3>1. p # q /\ request'[p] = request[p] /\ Active(p)
      BY <2>6 DEF Active
    <3>2. request[p].id # id
      BY <2>1, <3>1 DEF OrderInv, OwnIds
    <3>3. PendingAt(p)
      BY DEF OrderInv, Pending
    <3>4. \A i \in request[p].seen : rows'[i] = rows[i]
      BY <1>s, <2>9
    <3> QED
      BY <2>5, <2>7, <3>1, <3>2, <3>3, <3>4 DEF PendingAt, Sound, Duplicate, Rivals
  <2>11. OwnIds'
    BY <2>6 DEF OrderInv, OwnIds, Active
  <2>12. Accepted'
    <3> SUFFICES ASSUME NEW j \in Stored'
                 PROVE  AcceptedAt(j)'
      BY DEF Accepted
    <3>1. CASE j = id
      <4>1. rows'[j].ask = request[q].ask /\ rows'[j].after = request[q].seen
        BY <2>3, <3>1
      <4>2. \A i \in request[q].seen : rows'[i] = rows[i]
        BY <1>s, <2>9
      <4> QED
        BY <1>s, <2>1, <2>5, <3>1, <4>1, <4>2 DEF AcceptedAt, Sound, Duplicate, Rivals
    <3>2. CASE j # id
      <4>1. j \in Stored /\ rows'[j] = rows[j]
        BY <2>5, <2>9, <3>2
      <4>2. AcceptedAt(j)
        BY <4>1 DEF OrderInv, Accepted
      <4>3. \A i \in rows[j].after : rows'[i] = rows[i]
        BY <2>9, <4>2 DEF AcceptedAt
      <4> QED  BY <2>5, <4>1, <4>2, <4>3 DEF AcceptedAt, Sound, Duplicate, Rivals
    <3> QED  BY <3>1, <3>2
  <2> QED  BY <2>8, <2>10, <2>11, <2>12 DEF OrderInv
<1>5. CASE Restart
  <2>1. rows' = rows /\ Stored' = Stored /\ CounterAhead'
    BY <1>5 DEF Restart, Stored, CounterAhead
  <2>2. \A p \in Requests : request'[p].seen = request[p].seen /\ ~Active(p)'
    BY <1>t, <1>5 DEF Restart, InTransaction, Active, Open, TypeOK, Request
  <2>3. Snapshots' /\ Pending' /\ OwnIds'
    BY <1>s, <2>1, <2>2 DEF Snapshots, Pending, PendingAt, OwnIds
  <2>4. Accepted'
    BY <2>1 DEF OrderInv, Accepted, AcceptedAt, Sound, Duplicate, Rivals
  <2> QED  BY <2>1, <2>3, <2>4 DEF OrderInv
<1>6. CASE UNCHANGED vars
  BY <1>6, <1>s, OrderQuiet DEF vars, Active
<1> QED
  BY <1>1, <1>2, <1>3, <1>4, <1>5, <1>6 DEF Next

\* The order of ids and snapshots holds for ever.
LEMMA OrderInvariance == Spec => []OrderInv
BY TypeInvariance, OrderInit, OrderStep, PTL DEF Spec

\* A stored run whose request saw an earlier run with the same user, problem,
\* language and text has another run of that user and problem in between.
THEOREM DuplicatesRefused == Spec => []DuplicateRefused
<1>1. TypeInv /\ OrderInv => DuplicateRefused
  <2> SUFFICES ASSUME TypeInv, OrderInv, NEW j \in Stored,
                      NEW i \in Rivals(rows[j].ask, rows[j].after),
                      Same(rows[i].ask, rows[j].ask)
               PROVE  \E k \in Rivals(rows[j].ask, rows[j].after) : i < k /\ k < j
    BY DEF DuplicateRefused
  <2>1. rows[j].after \subseteq Stored /\ Sound(rows[j].ask, rows[j].after, j)
    BY DEF OrderInv, Accepted, AcceptedAt
  <2>2. PICK k \in Rivals(rows[j].ask, rows[j].after) : ~(k <= i)
    BY <2>1 DEF Sound, Duplicate
  <2>3. k \in Int /\ i \in Int /\ k < j
    BY <2>1, <2>2 DEF Rivals, Sound, Stored, Ids
  <2> QED  BY <2>2, <2>3
<1> QED  BY <1>1, TypeInvariance, OrderInvariance, PTL

(***************************************************************************)
(* Sources.  An id that was handed out once has one owner; how many        *)
(* documents it has follows from how far the owner is.                     *)
(***************************************************************************)

Owns(q, i) == request[q].id = i /\ i \in Ids \ reused

IssuedIds ==
  /\ Stored \subseteq issued
  /\ \A q \in Requests : request[q].id \in issued \cup {0}
  /\ \A i \in Ids \ issued : docs[i] = <<>>
OneOwner ==
  \A p, q \in Requests : \A i \in Ids : Owns(p, i) /\ Owns(q, i) => p = q
DocsAt(q) ==
  \A i \in Ids : Owns(q, i) =>
    /\ request[q].pc = "flushed" => docs[i] = <<>>
    /\ request[q].pc = "sourced" => docs[i] = <<request[q].ask.text>>
    /\ i \in Stored => request[q].pc \in Committed \cup {"error"}
OwnerDocs == \A q \in Requests : DocsAt(q)

SourceInv == IssuedIds /\ OneOwner /\ OwnerDocs /\ SourceIsOwn

\* No document is there at first.
LEMMA SourceInit == Init => SourceInv
BY DEF Init, SourceInv, IssuedIds, OneOwner, Owns, OwnerDocs, DocsAt, SourceIsOwn, Stored,
       Idle, Ids

\* Steps that write no row and no document, hand out no id, and let no handler
\* reach a point at which more is claimed of its documents.
LEMMA SourceQuiet ==
  ASSUME SourceInv, TypeInv,
         rows' = rows, docs' = docs, issued' = issued, reused' = reused,
         \A q \in Requests :
            \/ request'[q].id = 0
            \/ /\ request'[q].id = request[q].id
               /\ request'[q].ask = request[q].ask
               /\ \/ request'[q].pc = request[q].pc
                  \/ request'[q].pc \in {"ok", "error"}
                  \/ request'[q].pc = "duplicate" /\ request[q].pc = "valid"
  PROVE  SourceInv'
<1>1. Stored' = Stored
  BY DEF Stored
<1>2. IssuedIds' /\ SourceIsOwn'
  BY <1>1 DEF SourceInv, IssuedIds, SourceIsOwn
<1>3. \A q \in Requests, i \in Ids : Owns(q, i)' =>
         /\ Owns(q, i)
         /\ request'[q].ask = request[q].ask
         /\ \/ request'[q].pc = request[q].pc
            \/ request'[q].pc \in {"ok", "error"}
            \/ request'[q].pc = "duplicate" /\ request[q].pc = "valid"
  BY DEF Owns, Ids
<1>4. OneOwner'
  BY <1>3 DEF SourceInv, OneOwner
<1>5. OwnerDocs'
  <2> SUFFICES ASSUME NEW q \in Requests, NEW i \in Ids, Owns(q, i)'
               PROVE  /\ request'[q].pc = "flushed" => docs[i] = <<>>
                      /\ request'[q].pc = "sourced" => docs[i] = <<request'[q].ask.text>>
                      /\ i \in Stored => request'[q].pc \in Committed \cup {"error"}
    BY <1>1 DEF OwnerDocs, DocsAt
  <2>1. DocsAt(q) /\ Owns(q, i)
    BY <1>3 DEF SourceInv, OwnerDocs
  <2> QED  BY <1>3, <2>1 DEF DocsAt, Committed
<1> QED  BY <1>2, <1>4, <1>5 DEF SourceInv

\* Every step keeps what is known of the documents.
LEMMA SourceStep == TypeInv /\ OrderInv /\ SourceInv /\ [Next]_vars => SourceInv'
<1> SUFFICES ASSUME TypeInv, OrderInv, SourceInv, [Next]_vars
             PROVE  SourceInv'
  OBVIOUS
<1>t. TypeOK /\ Working
  BY DEF TypeInv
<1>1. ASSUME NEW q \in Requests, NEW a \in Asks, Lookup(q, a)
      PROVE  SourceInv'
  <2>1. request'[q].id = 0
    BY <1>t, <1>1 DEF Lookup, Idle, TypeOK
  <2>2. \A p \in Requests : p # q => request'[p] = request[p]
    BY <1>t, <1>1 DEF Lookup, TypeOK
  <2> QED  BY <1>1, <2>1, <2>2, SourceQuiet DEF Lookup, mysql
<1>2. ASSUME NEW q \in Requests,
             RefuseDuplicate(q) \/ Delay(q) \/ Fail(q) \/ Disconnected(q)
      PROVE  SourceInv'
  <2>1. rows' = rows /\ docs' = docs /\ issued' = issued /\ reused' = reused
    BY <1>2 DEF RefuseDuplicate, Delay, Fail, Disconnected, mysql
  <2>2. \A p \in Requests :
          /\ request'[p].id = request[p].id
          /\ request'[p].ask = request[p].ask
          /\ \/ request'[p].pc = request[p].pc
             \/ request'[p].pc \in {"ok", "error"}
             \/ request'[p].pc = "duplicate" /\ request[p].pc = "valid"
    <3>1. CASE RefuseDuplicate(q)
      BY <1>t, <3>1 DEF RefuseDuplicate, TypeOK, Request
    <3>2. CASE Delay(q)
      BY <1>t, <3>2 DEF Delay, TypeOK, Request
    <3>3. CASE Fail(q)
      BY <1>t, <3>3 DEF Fail, TypeOK, Request
    <3>4. CASE Disconnected(q)
      BY <1>t, <3>4 DEF Disconnected, TypeOK, Request
    <3> QED  BY <1>2, <3>1, <3>2, <3>3, <3>4
  <2> QED  BY <2>1, <2>2, SourceQuiet
<1>3. ASSUME NEW q \in Requests, Flush(q)
      PROVE  SourceInv'
  <2>1. /\ rows' = rows /\ docs' = docs /\ Stored' = Stored
        /\ nextId \in Ids /\ issued' = issued \cup {nextId}
        /\ reused \subseteq reused'
        /\ nextId \notin reused' => nextId \notin issued
    BY <1>3 DEF Flush, Stored
  <2>2. /\ request'[q].id = nextId /\ request'[q].pc = "flushed"
        /\ \A p \in Requests : p # q => request'[p] = request[p]
    BY <1>t, <1>3 DEF Flush, TypeOK, Request
  <2>3. nextId \notin Stored
    BY <1>t DEF OrderInv, CounterAhead, TypeOK
  <2>4. IssuedIds'
    BY <2>1, <2>2 DEF SourceInv, IssuedIds
  <2>5. \A p \in Requests : \A i \in Ids : Owns(p, i)' =>
          IF p = q THEN i = nextId /\ nextId \notin issued
          ELSE Owns(p, i) /\ i \in issued
    BY <2>1, <2>2 DEF Owns, SourceInv, IssuedIds, Ids
  <2>6. OneOwner'
    BY <2>5 DEF SourceInv, OneOwner
  <2>7. OwnerDocs'
    <3> SUFFICES ASSUME NEW p \in Requests
                 PROVE  DocsAt(p)'
      BY DEF OwnerDocs
    <3>1. CASE p = q
      BY <2>1, <2>2, <2>3, <2>5, <3>1 DEF DocsAt, SourceInv, IssuedIds
    <3>2. CASE p # q
      <4>1. DocsAt(p)
        BY DEF SourceInv, OwnerDocs
      <4> QED  BY <2>1, <2>2, <2>5, <3>2, <4>1 DEF DocsAt
    <3> QED  BY <3>1, <3>2
  <2>8. SourceIsOwn'
    BY <2>1 DEF SourceInv, SourceIsOwn
  <2> QED  BY <2>4, <2>6, <2>7, <2>8 DEF SourceInv
<1>4. ASSUME NEW q \in Requests, UpdateSource(q)
      PROVE  SourceInv'
  <2> DEFINE id == request[q].id
  <2>1. id \in Ids /\ request[q].pc = "flushed"
    BY <1>t, <1>4 DEF UpdateSource, Working, Open
  <2>2. /\ rows' = rows /\ Stored' = Stored /\ issued' = issued /\ reused' = reused
        /\ docs'[id] = Append(docs[id], request[q].ask.text)
        /\ \A i \in Ids : i # id => docs'[i] = docs[i]
    BY <1>t, <1>4, <2>1 DEF UpdateSource, TypeOK, mysql, Stored
  <2>3. /\ request'[q].pc = "sourced" /\ request'[q].ask = request[q].ask
        /\ \A p \in Requests : p # q => request'[p] = request[p]
        /\ \A p \in Requests : request'[p].id = request[p].id
    BY <1>t, <1>4 DEF UpdateSource, TypeOK, Request
  <2>4. id \in issued /\ IssuedIds'
    BY <2>1, <2>2, <2>3 DEF SourceInv, IssuedIds, Ids
  <2>5. \A p \in Requests, i \in Ids : Owns(p, i)' <=> Owns(p, i)
    BY <2>2, <2>3 DEF Owns
  <2>6. OneOwner'
    BY <2>5 DEF SourceInv, OneOwner
  <2>7. id \in Ids \ reused => docs[id] = <<>> /\ id \notin Stored
    <3>1. DocsAt(q)
      BY DEF SourceInv, OwnerDocs
    <3> QED  BY <2>1, <3>1 DEF DocsAt, Owns, Committed
  <2>8. id \in Ids \ reused => docs'[id] = <<request[q].ask.text>>
    <3>1. \A x : Append(<<>>, x) = <<x>>
      OBVIOUS
    <3> QED  BY <2>2, <2>7, <3>1, Zenon
  <2>9. OwnerDocs'
    <3> SUFFICES ASSUME NEW p \in Requests
                 PROVE  DocsAt(p)'
      BY DEF OwnerDocs
    <3>1. CASE p = q
      BY <2>2, <2>3, <2>5, <2>7, <2>8, <3>1 DEF DocsAt, Owns
    <3>2. CASE p # q
      <4>1. DocsAt(p)
        BY DEF SourceInv, OwnerDocs
      <4>2. ~Owns(p, id)
        BY <2>1, <3>2 DEF SourceInv, OneOwner, Owns
      <4> QED  BY <2>2, <2>3, <2>5, <3>2, <4>1, <4>2 DEF DocsAt
    <3> QED  BY <3>1, <3>2
  <2>10. SourceIsOwn'
    BY <2>1, <2>2, <2>7 DEF SourceInv, SourceIsOwn, Stored
  <2> QED  BY <2>4, <2>6, <2>9, <2>10 DEF SourceInv
<1>5. ASSUME NEW q \in Requests, Commit(q)
      PROVE  SourceInv'
  <2> DEFINE id == request[q].id
  <2>1. id \in Ids /\ request[q].pc = "sourced" /\ id \in issued
    BY <1>t, <1>5 DEF Commit, Working, Open, SourceInv, IssuedIds, Ids
  <2>2. /\ docs' = docs /\ issued' = issued /\ reused' = reused
        /\ rows'[id].ask = request[q].ask
        /\ \A i \in Ids : i # id => rows'[i] = rows[i]
    BY <1>t, <1>5, <2>1 DEF Commit, TypeOK
  <2>3. /\ request'[q].pc = "committed"
        /\ \A p \in Requests : p # q => request'[p] = request[p]
        /\ \A p \in Requests : request'[p].id = request[p].id
    BY <1>t, <1>5 DEF Commit, TypeOK, Request
  <2>4. Stored' \subseteq Stored \cup {id}
    BY <2>2 DEF Stored
  <2>5. \A p \in Requests, i \in Ids : Owns(p, i)' <=> Owns(p, i)
    BY <2>2, <2>3 DEF Owns
  <2>6. IssuedIds' /\ OneOwner'
    BY <2>1, <2>2, <2>3, <2>4, <2>5 DEF SourceInv, IssuedIds, OneOwner
  <2>7. id \in Ids \ reused => docs[id] = <<request[q].ask.text>>
    <3>1. DocsAt(q)
      BY DEF SourceInv, OwnerDocs
    <3> QED  BY <2>1, <3>1 DEF DocsAt, Owns
  <2>8. OwnerDocs'
    <3> SUFFICES ASSUME NEW p \in Requests
                 PROVE  DocsAt(p)'
      BY DEF OwnerDocs
    <3>1. CASE p = q
      BY <2>3, <3>1 DEF DocsAt, Committed
    <3>2. CASE p # q
      <4>1. DocsAt(p)
        BY DEF SourceInv, OwnerDocs
      <4>2. ~Owns(p, id)
        BY <2>1, <3>2 DEF SourceInv, OneOwner, Owns
      <4> QED  BY <2>2, <2>3, <2>4, <2>5, <3>2, <4>1, <4>2 DEF DocsAt
    <3> QED  BY <3>1, <3>2
  <2>9. SourceIsOwn'
    <3> SUFFICES ASSUME NEW i \in (Stored \ reused)'
                 PROVE  docs'[i] = <<rows'[i].ask.text>>
      BY DEF SourceIsOwn
    <3> QED  BY <2>1, <2>2, <2>4, <2>7 DEF SourceInv, SourceIsOwn, Stored
  <2> QED  BY <2>6, <2>8, <2>9 DEF SourceInv
<1>6. CASE Restart
  <2>1. \A p \in Requests : /\ request'[p].id = request[p].id
                            /\ request'[p].ask = request[p].ask
                            /\ request'[p].pc = request[p].pc
    BY <1>t, <1>6 DEF Restart, TypeOK, Request
  <2> QED  BY <1>6, <2>1, SourceQuiet DEF Restart
<1>7. CASE UNCHANGED vars
  BY <1>7, SourceQuiet DEF vars
<1> QED
  BY <1>1, <1>2, <1>3, <1>4, <1>5, <1>6, <1>7 DEF Next

\* Whatever handlers died before it, a stored run whose id was never used before has
\* one source document, the text its user sent.
THEOREM SourcesAreOwn == Spec => []SourceIsOwn
<1>1. Spec => []SourceInv
  BY TypeInvariance, OrderInvariance, SourceInit, SourceStep, PTL DEF Spec
<1>2. SourceInv => SourceIsOwn
  BY DEF SourceInv
<1> QED  BY <1>1, <1>2, PTL
=============================================================================
