-------------------------- MODULE JudgeRouting_proofs --------------------------
(***************************************************************************)
(* What TLAPS proves of JudgeRouting, for every set of judges, every       *)
(* content of judges.json and every judges_settings.                       *)
(***************************************************************************)
EXTENDS JudgeRouting, WellFoundedInduction, FiniteSetTheorems, TLAPS

(***************************************************************************)
(* Type correctness.                                                       *)
(***************************************************************************)

\* What a process makes of the file has no judge without a token.
LEMMA LoadType ==
  ASSUME NEW f \in Files
  PROVE  Load(f) \in Config
<1>1. /\ f.judges \in [Judges -> {Token[j] : j \in Judges} \cup {Wrong, Absent, Null, Blank}]
      /\ f.default \in Judges \cup {Unset, Garbage}
  BY ConstantsAssumption
<1>2. CASE f.readable /\ \A j \in Judges : f.judges[j] # Null
  <2>1. f.judges \in [Judges -> {Token[j] : j \in Judges} \cup {Wrong, Absent, Blank}]
    BY <1>1, <1>2
  <2> QED  BY <1>1, <1>2, <2>1 DEF Load, Config
<1>3. CASE ~(f.readable /\ \A j \in Judges : f.judges[j] # Null)
  <2>1. NoJudges \in [Judges -> {Token[j] : j \in Judges} \cup {Wrong, Absent, Blank}]
    BY DEF NoJudges
  <2> QED  BY <1>1, <1>3, <2>1 DEF Load, Config
<1> QED  BY <1>2, <1>3

\* The initial state has the right types.
LEMMA TypeInit == Init => TypeOK
<1> SUFFICES ASSUME Init
             PROVE  TypeOK
  OBVIOUS
<1>1. Load(file) \in Config
  BY LoadType DEF Init
<1> QED  BY <1>1, ConstantsAssumption DEF Init, TypeOK, Pcs

\* Every step keeps the types.
LEMMA TypeStep == TypeOK /\ [Next]_vars => TypeOK'
<1> SUFFICES ASSUME TypeOK, [Next]_vars
             PROVE  TypeOK'
  OBVIOUS
<1>c. loaded["web"] \in Config /\ loaded["worker"] \in Config
  BY DEF TypeOK, Processes
<1>1. ASSUME NEW f \in Files, Edit(f)
      PROVE  TypeOK'
  BY <1>1, ConstantsAssumption DEF Edit, TypeOK
<1>2. ASSUME NEW p \in Processes, Restart(p)
      PROVE  TypeOK'
  <2>1. Load(file) \in Config
    BY LoadType DEF TypeOK
  <2> QED  BY <1>2, <2>1 DEF Restart, TypeOK
<1>3. CASE SubmitNowhere
  BY <1>3 DEF SubmitNowhere, TypeOK, Pcs
<1>4. CASE Submit
  <2> DEFINE j == Resolve(loaded["worker"], run)
  <2>1. j \in Judges
    BY <1>4 DEF Submit, Known
  <2> HIDE DEF j
  <2>2. PICK pc \in {"sent", "refused"} :
          run' = [run EXCEPT !.pc = pc, !.judge = j, !.conf = loaded["worker"]]
    BY <1>4 DEF Submit, j
  <2> QED  BY <1>4, <1>c, <2>1, <2>2 DEF Submit, TypeOK, Pcs
<1>5. CASE Notify
  BY <1>5, <1>c DEF Notify, TypeOK, Pcs
<1>6. CASE LoadProtocol
  BY <1>6, <1>c DEF LoadProtocol, TypeOK, Pcs
<1>7. CASE UNCHANGED vars
  BY <1>7 DEF vars, TypeOK
<1> QED
  BY <1>1, <1>2, <1>3, <1>4, <1>5, <1>6, <1>7 DEF Next

\* Every reachable state has its types; no process ever holds a judge without a token.
THEOREM TypeCorrect == Spec => []TypeOK
BY TypeInit, TypeStep, PTL DEF Spec

(***************************************************************************)
(* Losses.  The configuration that served the run last knows its judge by  *)
(* the right token: one that fails it is another configuration.            *)
(***************************************************************************)

Served ==
  run.pc \in {"sent", "notified"} =>
    /\ run.judge \in Judges
    /\ Passes(run.conf, run.judge, Token[run.judge])

\* A run that waits in the queue was not served yet.
LEMMA ServedInit == Init => Served
BY DEF Init, Served

\* Every step keeps the last configuration a right one.
LEMMA ServedStep == TypeOK /\ Served /\ [Next]_vars => Served'
<1> SUFFICES ASSUME TypeOK, Served, [Next]_vars
             PROVE  Served'
  OBVIOUS
<1>1. CASE UNCHANGED run
  BY <1>1 DEF Served, Passes, Known
<1>2. CASE SubmitNowhere
  BY <1>2 DEF SubmitNowhere, Served, TypeOK
<1>3. CASE Submit
  <2> DEFINE j    == Resolve(loaded["worker"], run)
             conf == loaded["worker"]
  <2>1. Known(conf, j) /\ j \in Judges
    BY <1>3 DEF Submit, Known
  <2>2. /\ run'.judge = j /\ run'.conf = conf
        /\ run'.pc = IF conf.judges[j] = Token[j] THEN "sent" ELSE "refused"
    BY <1>3 DEF Submit, TypeOK
  <2> HIDE DEF j
  <2>3. Token[j] # Blank
    BY <2>1, ConstantsAssumption
  <2> QED  BY <2>1, <2>2, <2>3 DEF Served, Passes, Known
<1>4. CASE Notify
  BY <1>4 DEF Notify, Served, TypeOK, Passes, Known
<1>5. CASE LoadProtocol
  BY <1>5 DEF LoadProtocol, Served, TypeOK
<1> QED
  BY <1>1, <1>2, <1>3, <1>4, <1>5 DEF Next, Edit, Restart, vars

\* When web process and worker run with the same configuration, no notification of a
\* submission that a judge took is forbidden, and no chain ends for want of a judge.
THEOREM LossesNeedDrift == Spec => LossNeedsDrift
<1>1. Spec => [](TypeOK /\ Served)
  BY TypeInit, TypeStep, ServedInit, ServedStep, PTL DEF Spec
<1> DEFINE Drift ==
      /\ run'.pc = "forbidden" /\ run.pc # "forbidden" => loaded["web"] # run.conf
      /\ run'.pc = "lost" /\ run.pc # "lost" => loaded["worker"] # run.conf
<1>2. TypeOK /\ Served /\ [Next]_vars => [Drift]_vars
  <2> SUFFICES ASSUME TypeOK, Served, Next
               PROVE  Drift
    BY DEF vars
  <2>1. CASE UNCHANGED run
    BY <2>1
  <2>2. CASE SubmitNowhere
    BY <2>2 DEF SubmitNowhere, TypeOK
  <2>3. CASE Submit
    BY <2>3 DEF Submit, TypeOK
  <2>4. CASE Notify
    BY <2>4 DEF Notify, Served, TypeOK
  <2>5. CASE LoadProtocol
    BY <2>5 DEF LoadProtocol, Served, TypeOK, Passes
  <2> QED
    BY <2>1, <2>2, <2>3, <2>4, <2>5 DEF Next, Edit, Restart
<1> QED  BY <1>1, <1>2, PTL DEF Spec, LossNeedsDrift

(***************************************************************************)
(* The choice of the entry.  At is recursive over the places of a          *)
(* sequence: that it is defined, and what it gives, is shown by induction  *)
(* over them, stated for sets of numbers.                                  *)
(***************************************************************************)

\* A set of numbers with 0, and the next number of each of its members, has them all.
LEMMA Induction ==
  ASSUME NEW S \in SUBSET Nat, 0 \in S, \A n \in S : n + 1 \in S
  PROVE  S = Nat
<1> DEFINE Less == OpToRel(<, Nat)
           T == Nat \ S
<1>1. \A x, y \in Nat : x < y => <<x, y>> \in Less
  BY DEF OpToRel
<1> HIDE DEF Less
<1>2. IsWellFoundedOn(Less, Nat)
  BY NatLessThanWellFounded DEF Less
<1> SUFFICES ASSUME T # {}
             PROVE  FALSE
  OBVIOUS
<1>3. PICK x \in T : \A y \in T : <<y, x>> \notin Less
  <2>1. T \subseteq Nat
    OBVIOUS
  <2> HIDE DEF T
  <2> QED  BY <1>2, <2>1, WFMin
<1>4. x - 1 \in Nat /\ x - 1 < x
  BY <1>3
<1>5. x - 1 \in S
  BY <1>1, <1>3, <1>4
<1> QED  BY <1>3, <1>4, <1>5

\* f[i] has the members of s at the places in P, up to the place i, for i up to n.
Collects(f, n, s, P) ==
  f = [i \in 0 .. n |->
         IF i = 0 THEN <<>> ELSE IF i \in P THEN Append(f[i - 1], s[i]) ELSE f[i - 1]]

\* There is such a function for every sequence.
LEMMA CollectsExists ==
  ASSUME NEW s, NEW P, NEW n \in Nat
  PROVE  \E f : Collects(f, n, s, P)
<1> DEFINE S == {m \in Nat : \E f : Collects(f, m, s, P)}
<1>1. 0 \in S
  <2> DEFINE f == [i \in 0 .. 0 |-> <<>>]
  <2>1. Collects(f, 0, s, P)
    BY DEF Collects
  <2> QED  BY <2>1
<1>2. ASSUME NEW m \in S
      PROVE  m + 1 \in S
  <2>1. PICK f : Collects(f, m, s, P)
    BY <1>2
  <2> DEFINE step == IF m + 1 \in P THEN Append(f[m], s[m + 1]) ELSE f[m]
             g == [i \in 0 .. m + 1 |-> IF i = m + 1 THEN step ELSE f[i]]
  <2>2. Collects(g, m + 1, s, P)
    <3> DEFINE next(h, i) ==
          IF i = 0 THEN <<>> ELSE IF i \in P THEN Append(h[i - 1], s[i]) ELSE h[i - 1]
    <3>1. \A i \in 0 .. m : f[i] = next(f, i)
      BY <2>1 DEF Collects
    <3>2. \A i \in 0 .. m : g[i] = f[i]
      OBVIOUS
    <3>3. g[m + 1] = step
      OBVIOUS
    <3>4. DOMAIN g = 0 .. m + 1 /\ g = [i \in 0 .. m + 1 |-> g[i]]
      OBVIOUS
    <3> HIDE DEF g
    <3>5. ASSUME NEW i \in 0 .. m + 1
          PROVE  g[i] = next(g, i)
      <4>1. CASE i = m + 1
        BY <3>2, <3>3, <4>1
      <4>2. CASE i \in 0 .. m
        <5>1. i # 0 => i - 1 \in 0 .. m
          BY <4>2
        <5> QED  BY <3>1, <3>2, <4>2, <5>1
      <4> QED  BY <4>1, <4>2
    <3> QED  BY <3>4, <3>5 DEF Collects
  <2> QED  BY <2>2
<1> HIDE DEF S
<1>3. S = Nat
  <2>1. S \in SUBSET Nat
    BY DEF S
  <2> QED  BY <1>1, <1>2, <2>1, Induction
<1> QED  BY <1>3 DEF S

\* One place more.
More(f, s, P, i) == IF i + 1 \in P THEN Append(f[i], s[i + 1]) ELSE f[i]

\* What it is at each place.
LEMMA CollectsValues ==
  ASSUME NEW s, NEW P, NEW n \in Nat, NEW f, Collects(f, n, s, P)
  PROVE  /\ f[0] = <<>>
         /\ \A i \in 0 .. n : i < n => f[i + 1] = More(f, s, P, i)
<1> DEFINE next(i) == IF i = 0 THEN <<>> ELSE IF i \in P THEN Append(f[i - 1], s[i]) ELSE f[i - 1]
<1>1. \A i \in 0 .. n : f[i] = next(i)
  BY DEF Collects
<1>2. f[0] = <<>>
  <2>1. 0 \in 0 .. n
    OBVIOUS
  <2>2. f[0] = next(0)
    BY <1>1, <2>1
  <2> QED  BY <2>2
<1>3. ASSUME NEW i \in 0 .. n, i < n
      PROVE  f[i + 1] = More(f, s, P, i)
  <2>1. i + 1 \in 0 .. n /\ i + 1 # 0 /\ (i + 1) - 1 = i
    BY <1>3
  <2>2. f[i + 1] = next(i + 1)
    BY <1>1, <2>1
  <2> QED  BY <2>1, <2>2 DEF More
<1> QED  BY <1>2, <1>3

\* e gives the places in s of the members of t, which are those in P, in their order.
Places(e, t, s, P) ==
  /\ e \in [1 .. Len(t) -> P]
  /\ \A k \in 1 .. Len(t) : t[k] = s[e[k]]
  /\ \A k, l \in 1 .. Len(t) : k < l => e[k] < e[l]
  /\ \A i \in P : \E k \in 1 .. Len(t) : e[k] = i

\* At keeps the members of s at the places in P, and their order.
LEMMA AtPlaces ==
  ASSUME NEW T, NEW s \in Seq(T), NEW P \in SUBSET DOMAIN s
  PROVE  /\ At(s, P) \in Seq(T)
         /\ \E e : Places(e, At(s, P), s, P)
<1> DEFINE n == Len(s)
           f == CHOOSE g : Collects(g, n, s, P)
<1>1. n \in Nat /\ DOMAIN s = 1 .. n
  OBVIOUS
<1>t. \A i \in 1 .. n : s[i] \in T
  OBVIOUS
<1>2. Collects(f, n, s, P)
  BY <1>1, CollectsExists
<1>3. At(s, P) = f[n]
  BY DEF At, Collects
<1> HIDE DEF f, n
<1>4. /\ f[0] = <<>>
      /\ \A i \in 0 .. n : i < n => f[i + 1] = More(f, s, P, i)
  BY <1>1, <1>2, CollectsValues
<1> DEFINE Good(i) == f[i] \in Seq(T) /\ \E e : Places(e, f[i], s, P \cap 1 .. i)
<1>5. Good(0)
  <2>1. Places(<<>>, <<>>, s, {})
    BY DEF Places
  <2>2. P \cap 1 .. 0 = {}
    OBVIOUS
  <2> QED  BY <1>4, <2>1, <2>2
<1>6. ASSUME NEW i \in Nat, i < n, Good(i)
      PROVE  Good(i + 1)
  <2>1. i + 1 \in 1 .. n /\ i \in 0 .. n
    BY <1>1, <1>6
  <2>2. PICK e : Places(e, f[i], s, P \cap 1 .. i)
    BY <1>6
  <2>3. CASE i + 1 \notin P
    <3>1. f[i + 1] = f[i]
      BY <1>4, <1>6, <2>1, <2>3 DEF More
    <3>2. P \cap 1 .. (i + 1) = P \cap 1 .. i
      BY <2>3
    <3> QED  BY <1>6, <3>1, <3>2
  <2>4. CASE i + 1 \in P
    <3> DEFINE t == f[i]
               u == Append(t, s[i + 1])
               d == [k \in 1 .. Len(t) + 1 |-> IF k = Len(t) + 1 THEN i + 1 ELSE e[k]]
               Q == P \cap 1 .. i
               R == P \cap 1 .. (i + 1)
    <3>1. f[i + 1] = u
      BY <1>4, <1>6, <2>1, <2>4 DEF More
    <3>2. /\ t \in Seq(T) /\ s[i + 1] \in T
          /\ u \in Seq(T) /\ Len(u) = Len(t) + 1 /\ Len(t) \in Nat
          /\ u[Len(t) + 1] = s[i + 1]
          /\ \A k \in 1 .. Len(t) : u[k] = t[k]
      BY <1>t, <1>6, <2>1
    <3>3. R = Q \cup {i + 1} /\ \A j \in Q : j < i + 1
      BY <2>4
    <3>e. e \in [1 .. Len(t) -> Q]
      BY <2>2 DEF Places
    <3>4. /\ d[Len(t) + 1] = i + 1
          /\ \A k \in 1 .. Len(t) : d[k] = e[k] /\ e[k] \in Q
      <4> HIDE DEF t, Q, R, u
      <4>1. Len(t) + 1 \in 1 .. Len(t) + 1 /\ \A k \in 1 .. Len(t) : k # Len(t) + 1
        BY <3>2
      <4>2. d[Len(t) + 1] = i + 1
        BY <4>1
      <4>3. ASSUME NEW k \in 1 .. Len(t)
            PROVE  d[k] = e[k] /\ e[k] \in Q
        <5>1. k \in 1 .. Len(t) + 1 /\ k # Len(t) + 1
          BY <3>2, <4>1
        <5> QED  BY <3>e, <5>1
      <4> QED  BY <4>2, <4>3
    <3>5. d \in [1 .. Len(u) -> R]
      <4> HIDE DEF t, Q, R, u
      <4> QED  BY <3>e, <3>2, <3>3
    <3> HIDE DEF d, u, t, Q, R
    <3>6. \A k \in 1 .. Len(u) : k = Len(t) + 1 \/ k \in 1 .. Len(t)
      BY <3>2
    <3>7. \A k \in 1 .. Len(u) : u[k] = s[d[k]]
      BY <2>2, <3>2, <3>4, <3>6 DEF Places, t
    <3>8. \A k, l \in 1 .. Len(u) : k < l => d[k] < d[l]
      <4> SUFFICES ASSUME NEW k \in 1 .. Len(u), NEW l \in 1 .. Len(u), k < l
                   PROVE  d[k] < d[l]
        OBVIOUS
      <4>1. k \in 1 .. Len(t)
        BY <3>2
      <4>2. CASE l = Len(t) + 1
        BY <3>3, <3>4, <4>1, <4>2
      <4>3. CASE l \in 1 .. Len(t)
        BY <2>2, <3>4, <4>1, <4>3 DEF Places, t
      <4> QED  BY <3>6, <4>2, <4>3
    <3>9. \A j \in R : \E k \in 1 .. Len(u) : d[k] = j
      <4> SUFFICES ASSUME NEW j \in R
                   PROVE  \E k \in 1 .. Len(u) : d[k] = j
        OBVIOUS
      <4>1. CASE j = i + 1
        <5>1. Len(t) + 1 \in 1 .. Len(u)
          BY <3>2
        <5> QED  BY <3>4, <4>1, <5>1
      <4>2. CASE j \in Q
        <5>1. PICK k \in 1 .. Len(t) : e[k] = j
          BY <2>2, <4>2 DEF Places, t, Q
        <5>2. k \in 1 .. Len(u)
          BY <3>2
        <5> QED  BY <3>4, <5>1, <5>2
      <4> QED  BY <3>3, <4>1, <4>2
    <3>10. Places(d, u, s, R)
      BY <3>5, <3>7, <3>8, <3>9 DEF Places
    <3> QED  BY <3>1, <3>2, <3>10 DEF R
  <2> QED  BY <2>3, <2>4
<1> HIDE DEF Good
<1>7. \A i \in Nat : i <= n => Good(i)
  <2> DEFINE S == {i \in Nat : i <= n => Good(i)}
  <2>1. 0 \in S
    BY <1>5
  <2>2. ASSUME NEW i \in S
        PROVE  i + 1 \in S
    <3>1. i + 1 <= n => i < n
      BY <1>1
    <3>2. i + 1 <= n => Good(i)
      BY <1>1
    <3> QED  BY <1>6, <3>1, <3>2
  <2>3. S \in SUBSET Nat
    OBVIOUS
  <2> HIDE DEF S
  <2>4. S = Nat
    BY <2>1, <2>2, <2>3, Induction
  <2> QED  BY <2>4 DEF S
<1>8. Good(n)
  BY <1>1, <1>7
<1>9. P \cap 1 .. n = P
  BY <1>1
<1> QED  BY <1>3, <1>8, <1>9 DEF Good

\* The first member that At keeps is the one at the first of its places.
LEMMA HeadAt ==
  ASSUME NEW T, NEW s \in Seq(T), NEW P \in SUBSET DOMAIN s
  PROVE  /\ At(s, P) \in Seq(T)
         /\ P = {} => At(s, P) = <<>>
         /\ P # {} => /\ At(s, P) # <<>>
                      /\ \E i \in P : Head(At(s, P)) = s[i] /\ \A j \in P : i <= j
<1> DEFINE t == At(s, P)
<1>1. t \in Seq(T)
  BY AtPlaces
<1>2. PICK e : Places(e, t, s, P)
  BY AtPlaces
<1> HIDE DEF t
<1>3. CASE P = {}
  <2>1. Len(t) = 0
    <3>1. 1 \notin 1 .. Len(t)
      BY <1>2, <1>3 DEF Places
    <3> QED  BY <1>1, <3>1
  <2> QED  BY <1>1, <1>3, <2>1 DEF t
<1>4. CASE P # {}
  <2>1. 1 \in 1 .. Len(t)
    BY <1>1, <1>2, <1>4 DEF Places
  <2>2. t # <<>> /\ Head(t) = t[1]
    BY <1>1, <2>1
  <2>3. e[1] \in P /\ t[1] = s[e[1]]
    BY <1>2, <2>1 DEF Places
  <2>4. ASSUME NEW j \in P
        PROVE  e[1] <= j
    <3>1. PICK k \in 1 .. Len(t) : e[k] = j
      BY <1>2 DEF Places
    <3>2. k = 1 \/ 1 < k
      BY <3>1
    <3>3. e[1] \in Int /\ j \in Int
      BY <2>3
    <3>4. 1 < k => e[1] < e[k]
      BY <1>2, <2>1 DEF Places
    <3> QED  BY <3>1, <3>2, <3>3, <3>4
  <2> QED  BY <1>1, <1>4, <2>2, <2>3, <2>4 DEF t
<1> QED  BY <1>3, <1>4

\* An entry has at most two filters.
LEMMA SpecificityBounds ==
  ASSUME NEW e \in Entries
  PROVE  Specificity(e) \in 0 .. 2
<1>1. \A filter \in {e.langs, e.users} : IsFiniteSet(filter) /\ Cardinality(filter) <= 1
  BY ConstantsAssumption
<1>2. \A filter \in {e.langs, e.users} : Cardinality(filter) \in Nat
  BY <1>1, FS_CardinalityType
<1> QED  BY <1>1, <1>2 DEF Specificity

\* The places of the entries with n filters
Having(s, n) == {i \in DOMAIN s : Specificity(s[i]) = n}

\* The sort puts an entry first that has most filters, and of these the first.
LEMMA HeadSorted ==
  ASSUME NEW c \in Seq(Entries), c # <<>>
  PROVE  \E k \in DOMAIN c :
           /\ Head(Sorted(c)) = c[k]
           /\ \A l \in DOMAIN c :
                \/ Specificity(c[l]) < Specificity(c[k])
                \/ Specificity(c[l]) = Specificity(c[k]) /\ k <= l
<1>1. \A l \in DOMAIN c : Specificity(c[l]) \in 0 .. 2
  <2>1. \A l \in DOMAIN c : c[l] \in Entries
    OBVIOUS
  <2> QED  BY <2>1, SpecificityBounds
<1>2. \A n : Level(c, n) = At(c, Having(c, n)) /\ Having(c, n) \in SUBSET DOMAIN c
  BY DEF Level, Having
<1>3. \A n : /\ Level(c, n) \in Seq(Entries)
             /\ Having(c, n) = {} => Level(c, n) = <<>>
             /\ Having(c, n) # {} =>
                  /\ Level(c, n) # <<>>
                  /\ \E i \in Having(c, n) :
                       Head(Level(c, n)) = c[i] /\ \A j \in Having(c, n) : i <= j
  BY <1>2, HeadAt
<1> DEFINE Top(n) == Having(c, n) # {} /\ \A m \in 0 .. 2 : m > n => Having(c, m) = {}
<1>4. ASSUME NEW n \in 0 .. 2, Top(n), Head(Sorted(c)) = Head(Level(c, n))
      PROVE  \E k \in DOMAIN c :
               /\ Head(Sorted(c)) = c[k]
               /\ \A l \in DOMAIN c :
                    \/ Specificity(c[l]) < Specificity(c[k])
                    \/ Specificity(c[l]) = Specificity(c[k]) /\ k <= l
  <2>1. PICK k \in Having(c, n) : Head(Level(c, n)) = c[k] /\ \A j \in Having(c, n) : k <= j
    BY <1>3, <1>4
  <2>2. k \in DOMAIN c /\ Specificity(c[k]) = n
    BY DEF Having
  <2>3. ASSUME NEW l \in DOMAIN c
        PROVE  \/ Specificity(c[l]) < n
               \/ Specificity(c[l]) = n /\ k <= l
    <3>1. l \in Having(c, Specificity(c[l]))
      BY DEF Having
    <3>2. ~(Specificity(c[l]) > n)
      BY <1>1, <1>4, <3>1
    <3> QED  BY <1>1, <2>1, <3>1, <3>2
  <2> QED  BY <1>4, <2>1, <2>2, <2>3
<1>5. 1 \in DOMAIN c /\ 1 \in Having(c, Specificity(c[1]))
  BY DEF Having
<1> HIDE DEF Top
<1> DEFINE first == Level(c, 2)
           second == Level(c, 1)
           third == Level(c, 0)
<1>6. first \in Seq(Entries) /\ second \in Seq(Entries) /\ third \in Seq(Entries)
  BY <1>3
<1>7. Sorted(c) = first \o second \o third
  BY DEF Sorted
<1> HIDE DEF first, second, third
<1>8. CASE Having(c, 2) # {}
  <2>1. first # <<>>
    BY <1>3, <1>8 DEF first
  <2>2. Head(Sorted(c)) = Head(first)
    BY <1>6, <1>7, <2>1
  <2>3. Top(2)
    BY <1>8 DEF Top
  <2> QED  BY <1>4, <2>2, <2>3 DEF first
<1>9. CASE Having(c, 2) = {} /\ Having(c, 1) # {}
  <2>1. first = <<>> /\ second # <<>>
    BY <1>3, <1>9 DEF first, second
  <2>2. Head(Sorted(c)) = Head(second)
    BY <1>6, <1>7, <2>1
  <2>3. Top(1)
    <3>1. \A m \in 0 .. 2 : m > 1 => m = 2
      OBVIOUS
    <3> QED  BY <1>9, <3>1 DEF Top
  <2> QED  BY <1>4, <2>2, <2>3 DEF second
<1>10. CASE Having(c, 2) = {} /\ Having(c, 1) = {}
  <2>1. Having(c, 0) # {}
    <3>1. Specificity(c[1]) \in 0 .. 2
      BY <1>1, <1>5
    <3>2. Specificity(c[1]) # 1 /\ Specificity(c[1]) # 2
      BY <1>5, <1>10
    <3>3. Specificity(c[1]) = 0
      BY <3>1, <3>2
    <3> QED  BY <1>5, <3>3
  <2>2. first = <<>> /\ second = <<>> /\ third # <<>>
    BY <1>3, <1>10, <2>1 DEF first, second, third
  <2>3. Head(Sorted(c)) = Head(third)
    BY <1>6, <1>7, <2>2
  <2>4. Top(0)
    <3>1. \A m \in 0 .. 2 : m > 0 => m = 1 \/ m = 2
      OBVIOUS
    <3> QED  BY <1>10, <2>1, <3>1 DEF Top
  <2> QED  BY <1>4, <2>3, <2>4 DEF third
<1> QED  BY <1>8, <1>9, <1>10

\* For settings of any length: of the entries that admit the run, the one with the
\* most filters is taken, and of these the first; without such an entry none is.
LEMMA BestEntry == TypeOK => EntryIsBest
<1> SUFFICES ASSUME TypeOK
             PROVE  EntryIsBest
  OBVIOUS
<1> DEFINE s        == run.settings
           Fit(i)   == Admits(s[i], run.lang, run.user)
           Beats(k, i) == \/ Specificity(s[k]) > Specificity(s[i])
                          \/ Specificity(s[k]) = Specificity(s[i]) /\ k < i
           best     == {i \in DOMAIN s : Fit(i) /\ \A k \in DOMAIN s : Fit(k) => ~Beats(k, i)}
           fit      == {i \in DOMAIN s : Fit(i)}
           c        == At(s, fit)
<1>1. s \in Seq(Entries)
  BY ConstantsAssumption DEF TypeOK
<1>2. JudgeEntry(s, run.lang, run.user) = IF c = <<>> THEN {} ELSE {Head(Sorted(c))}
  BY DEF JudgeEntry
<1> SUFFICES JudgeEntry(s, run.lang, run.user) = {s[i] : i \in best}
  BY DEF EntryIsBest
<1> HIDE DEF s
<1>3. \A i \in DOMAIN s : i \in Int /\ Specificity(s[i]) \in Int
  <2>1. \A i \in DOMAIN s : i \in Int /\ s[i] \in Entries
    BY <1>1
  <2>2. \A e \in Entries : Specificity(e) \in 0 .. 2
    BY SpecificityBounds
  <2> QED  BY <2>1, <2>2
<1> HIDE DEF Fit
<1>4. best \subseteq fit
  OBVIOUS
<1>5. CASE fit = {}
  <2>1. c = <<>>
    BY <1>1, <1>5, HeadAt
  <2> QED  BY <1>2, <1>4, <1>5, <2>1
<1>6. CASE fit # {}
  <2>1. fit \in SUBSET DOMAIN s
    OBVIOUS
  <2>2. c \in Seq(Entries) /\ c # <<>>
    <3> HIDE DEF fit
    <3> QED  BY <1>1, <1>6, <2>1, HeadAt
  <2>3. PICK e : Places(e, c, s, fit)
    <3> HIDE DEF fit
    <3> QED  BY <1>1, <2>1, AtPlaces
  <2> HIDE DEF c
  <2>4. PICK k \in DOMAIN c :
          /\ Head(Sorted(c)) = c[k]
          /\ \A l \in DOMAIN c :
               \/ Specificity(c[l]) < Specificity(c[k])
               \/ Specificity(c[l]) = Specificity(c[k]) /\ k <= l
    BY <2>2, HeadSorted
  <2>5. DOMAIN c = 1 .. Len(c) /\ k \in Int
    BY <2>2
  <2>6. e[k] \in fit /\ c[k] = s[e[k]]
    BY <2>3, <2>5 DEF Places
  <2>7. ASSUME NEW i \in fit, i # e[k]
        PROVE  Beats(e[k], i) /\ ~Beats(i, e[k])
    <3>1. PICK l \in 1 .. Len(c) : e[l] = i
      BY <2>3, <2>7 DEF Places
    <3>2. l # k /\ l \in Int /\ c[l] = s[i]
      BY <2>3, <2>7, <3>1 DEF Places
    <3>3. \/ Specificity(s[i]) < Specificity(s[e[k]])
          \/ Specificity(s[i]) = Specificity(s[e[k]]) /\ k < l
      BY <2>4, <2>5, <2>6, <3>1, <3>2
    <3>4. k < l => e[k] < e[l]
      BY <2>3, <2>5, <3>1 DEF Places
    <3>5. i \in DOMAIN s /\ e[k] \in DOMAIN s
      BY <2>6, <2>7
    <3>6. /\ i \in Int /\ e[k] \in Int
          /\ Specificity(s[i]) \in Int /\ Specificity(s[e[k]]) \in Int
      BY <1>3, <3>5
    <3> QED  BY <3>1, <3>3, <3>4, <3>6
  <2>8. ~Beats(e[k], e[k])
    <3>1. e[k] \in DOMAIN s
      BY <2>6
    <3> QED  BY <1>3, <3>1
  <2> HIDE DEF Beats
  <2>9. best = {e[k]}
    BY <2>6, <2>7, <2>8
  <2>10. {s[i] : i \in best} = {s[e[k]]}
    BY <2>9
  <2> QED  BY <1>2, <2>2, <2>4, <2>6, <2>10
<1> QED  BY <1>5, <1>6

\* Whatever incomplete entries, filters and ties the settings of a problem hold, the
\* entry taken for its run is the best one.
THEOREM BestEntryIsTaken == Spec => []EntryIsBest
BY TypeInit, TypeStep, BestEntry, PTL DEF Spec
=============================================================================
